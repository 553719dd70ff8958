---------------------------- MODULE BotHubProofs ----------------------------
(***************************************************************************)
(* Proofs about BotHub, for every set of bots and of sockets and every     *)
(* miss limit.  IInv is the inductive invariant: what botSockets holds     *)
(* (Registered), who may be announced (Listed, Told), where a grace timer  *)
(* and a pending call may be, and how far the miss count runs behind the   *)
(* silence of the peer (Beats).                                            *)
(***************************************************************************)
EXTENDS BotHub, TLAPS

Live == {"open", "closing"}

\* botSockets holds exactly the sockets whose 'close' event is to come.
Registered ==
    \A s \in Socks, b \in Bots :
        s \in botSockets[b] <=> (botOf[s] = b /\ ready[s] \in Live)

\* A socket in use has a bot.
HasBot == \A s \in Socks : ready[s] # "unused" => botOf[s] \in Bots

\* Whoever is listed was announced; whoever was announced and still has a row
\* is listed.
Listed == ListOnlineBotIds \subseteq announced
Told   == announced \cap bound \subseteq ListOnlineBotIds

\* A bot that is about to be disconnected has no row any more.
Gone == leaving \cap bound = {}

Beats ==
    \A s \in Socks :
        /\ ~alive[s] => missCount[s] + 1 <= silent[s]
        /\ ready[s] = "open" => missCount[s] < MaxMiss
        /\ ready[s] \in {"unused", "authed"} => missCount[s] = 0

IInv ==
    /\ TypeOK
    /\ HasBot
    /\ Registered
    /\ OneOpenSocket
    /\ GraceOnlyWhenGone
    /\ RpcNeedsSocket
    /\ Listed
    /\ Told
    /\ Gone
    /\ Beats

\* The invariant holds at the start.
LEMMA InitEstablishes == Init => IInv
  BY MaxMissAssumption, NoBotAssumption
  DEF Init, IInv, TypeOK, HasBot, Registered, OneOpenSocket, GraceOnlyWhenGone,
      RpcNeedsSocket, Listed, Told, Gone, Beats, ListOnlineBotIds, States, Codes, Live

-----------------------------------------------------------------------------
(* One lemma per action: what it disturbs is kept, the rest is untouched. *)

\* Finding the token of a bot that has a row only reserves a socket object.
LEMMA AuthenticateStep ==
  ASSUME IInv, NEW s \in Socks, NEW b \in Bots, Authenticate(s, b)
  PROVE  IInv'
<1>1. TypeOK'
  BY DEF IInv, Authenticate, TypeOK, States, dbVars, beatVars, hubVars
<1>2. HasBot'
  BY DEF IInv, Authenticate, HasBot, TypeOK
<1>3. Registered'
  BY DEF IInv, Authenticate, Registered, Live, hubVars
<1>4. OneOpenSocket'
  BY DEF IInv, Authenticate, OneOpenSocket
<1>5. Beats'
  BY DEF IInv, Authenticate, Beats, beatVars
<1>6. GraceOnlyWhenGone' /\ RpcNeedsSocket' /\ Listed' /\ Told' /\ Gone'
  BY DEF IInv, Authenticate, GraceOnlyWhenGone, RpcNeedsSocket, Listed, Told,
     Gone, ListOnlineBotIds, dbVars, hubVars
<1>. QED BY <1>1, <1>2, <1>3, <1>4, <1>5, <1>6 DEF IInv

\* Accepting a connection replaces every registered socket of the bot, cancels
\* its grace timer and announces it.
LEMMA ConnectStep ==
  ASSUME IInv, NEW s \in Socks, Connect(s)
  PROVE  IInv'
<1>1. TypeOK'
  BY DEF IInv, Connect, TerminateAll, TypeOK, States, HasBot, dbVars, beatVars
<1>2. HasBot'
  BY DEF IInv, Connect, TerminateAll, StaleSockets, HasBot, Registered
<1>3. Registered'
  BY DEF IInv, Connect, TerminateAll, StaleSockets, Registered, TypeOK, HasBot,
     Live
<1>4. OneOpenSocket'
  BY DEF IInv, Connect, TerminateAll, StaleSockets, OneOpenSocket, HasBot,
     Registered, Live
<1>5. GraceOnlyWhenGone'
  BY DEF IInv, Connect, GraceOnlyWhenGone
<1>6. RpcNeedsSocket'
  BY DEF IInv, Connect, RpcNeedsSocket, TypeOK
<1>7. Listed'
  BY DEF IInv, Connect, Listed, ListOnlineBotIds
<1>8. Told'
  BY DEF IInv, Connect, Told, ListOnlineBotIds, TypeOK, dbVars
<1>9. Beats'
  BY MaxMissAssumption DEF IInv, Connect, TerminateAll, Beats, beatVars
<1>10. Gone'
  BY DEF IInv, Connect, Gone, dbVars
<1>. QED BY <1>1, <1>2, <1>3, <1>4, <1>5, <1>6, <1>7, <1>8, <1>9, <1>10 DEF IInv

\* A call is sent on a registered socket.
LEMMA RequestBotRpcStep ==
  ASSUME IInv, NEW s \in Socks, RequestBotRpc(s)
  PROVE  IInv'
<1>1. TypeOK'
  BY MaxMissAssumption, NoBotAssumption DEF IInv, RequestBotRpc, TypeOK, Beats,
     Codes, dbVars, sockVars, beatVars
<1>2. RpcNeedsSocket'
  BY DEF IInv, RequestBotRpc, RpcNeedsSocket
<1>3. HasBot' /\ Registered' /\ OneOpenSocket' /\ GraceOnlyWhenGone'
     /\ Listed' /\ Told' /\ Gone' /\ Beats'
  BY DEF IInv, RequestBotRpc, HasBot, Registered, OneOpenSocket,
     GraceOnlyWhenGone, Listed, Told, Gone, Beats, ListOnlineBotIds, dbVars,
     sockVars, beatVars
<1>. QED BY <1>1, <1>2, <1>3 DEF IInv

\* Settling a call leaves fewer calls.
LEMMA SettleBotRpcStep ==
  ASSUME IInv, NEW b \in Bots, NEW s \in Socks, SettleBotRpc(b, s)
  PROVE  IInv'
<1>1. TypeOK'
  BY DEF IInv, SettleBotRpc, TypeOK, dbVars, sockVars, beatVars
<1>2. RpcNeedsSocket'
  BY DEF IInv, SettleBotRpc, RpcNeedsSocket
<1>3. HasBot' /\ Registered' /\ OneOpenSocket' /\ GraceOnlyWhenGone'
     /\ Listed' /\ Told' /\ Gone' /\ Beats'
  BY DEF IInv, SettleBotRpc, HasBot, Registered, OneOpenSocket, GraceOnlyWhenGone,
     Listed, Told, Gone, Beats, ListOnlineBotIds, dbVars, sockVars, beatVars
<1>. QED BY <1>1, <1>2, <1>3 DEF IInv

\* A pong starts a new count.
LEMMA PongStep ==
  ASSUME IInv, NEW s \in Socks, Pong(s)
  PROVE  IInv'
<1>1. TypeOK'
  BY MaxMissAssumption DEF IInv, Pong, TypeOK, dbVars, sockVars, hubVars
<1>2. Beats'
  BY MaxMissAssumption DEF IInv, Pong, Beats, TypeOK, sockVars
<1>3. HasBot' /\ Registered' /\ OneOpenSocket' /\ GraceOnlyWhenGone'
     /\ RpcNeedsSocket' /\ Listed' /\ Told' /\ Gone'
  BY DEF IInv, Pong, HasBot, Registered, OneOpenSocket, GraceOnlyWhenGone,
     RpcNeedsSocket, Listed, Told, Gone, ListOnlineBotIds, dbVars, sockVars,
     hubVars
<1>. QED BY <1>1, <1>2, <1>3 DEF IInv

\* A round of the heartbeat never counts more misses than silent rounds.
LEMMA PingTickStep ==
  ASSUME IInv, NEW s \in Socks, PingTick(s)
  PROVE  IInv'
<1>1. TypeOK'
  <2>1. missCount' \in [Socks -> 0 .. MaxMiss]
    BY MaxMissAssumption
    DEF IInv, PingTick, PingTickOk, PingTickSkip, PingTickMiss, PingTickTerminate,
        TypeOK, Beats
  <2>2. silent' \in [Socks -> 0 .. MaxMiss + 1]
    BY MaxMissAssumption DEF IInv, PingTick, TypeOK
  <2>3. alive' \in [Socks -> BOOLEAN] /\ ready' \in [Socks -> States]
    BY DEF IInv, PingTick, PingTickOk, PingTickSkip, PingTickMiss,
           PingTickTerminate, TypeOK, States
  <2>. QED BY <2>1, <2>2, <2>3 DEF IInv, PingTick, TypeOK, dbVars, hubVars
<1>2. HasBot'
  BY DEF IInv, PingTick, PingTickOk, PingTickSkip, PingTickMiss,
     PingTickTerminate, HasBot, TypeOK
<1>3. Registered'
  BY DEF IInv, PingTick, PingTickOk, PingTickSkip, PingTickMiss,
     PingTickTerminate, Registered, TypeOK, Live, hubVars
<1>4. OneOpenSocket'
  BY DEF IInv, PingTick, PingTickOk, PingTickSkip, PingTickMiss,
     PingTickTerminate, OneOpenSocket, TypeOK
<1>5. Beats'
  BY MaxMissAssumption DEF IInv, PingTick, PingTickOk, PingTickSkip, PingTickMiss,
     PingTickTerminate, MissLimitReached, Beats, TypeOK
<1>6. GraceOnlyWhenGone' /\ RpcNeedsSocket' /\ Listed' /\ Told' /\ Gone'
  BY DEF IInv, PingTick, GraceOnlyWhenGone, RpcNeedsSocket, Listed, Told, Gone,
     ListOnlineBotIds, dbVars, hubVars
<1>. QED BY <1>1, <1>2, <1>3, <1>4, <1>5, <1>6 DEF IInv

\* Nobody notices a peer that vanishes.
LEMMA PeerVanishesStep ==
  ASSUME IInv, NEW s \in Socks, PeerVanishes(s)
  PROVE  IInv'
<1>1. TypeOK'
  BY DEF IInv, PeerVanishes, TypeOK, dbVars, beatVars, hubVars
<1>2. HasBot' /\ Registered' /\ OneOpenSocket' /\ GraceOnlyWhenGone'
     /\ RpcNeedsSocket' /\ Listed' /\ Told' /\ Gone' /\ Beats'
  BY DEF IInv, PeerVanishes, HasBot, Registered, OneOpenSocket, GraceOnlyWhenGone,
     RpcNeedsSocket, Listed, Told, Gone, Beats, ListOnlineBotIds, dbVars,
     beatVars, hubVars
<1>. QED BY <1>1, <1>2 DEF IInv

\* A bot that gives up its binding has its socket closed.
LEMMA BotSaysUnboundStep ==
  ASSUME IInv, NEW s \in Socks, BotSaysUnbound(s)
  PROVE  IInv'
<1>1. TypeOK'
  BY DEF IInv, BotSaysUnbound, AskToClose, TypeOK, States, Codes, dbVars,
     beatVars, hubVars
<1>2. HasBot'
  BY DEF IInv, BotSaysUnbound, AskToClose, HasBot
<1>3. Registered'
  BY DEF IInv, BotSaysUnbound, AskToClose, Registered, Live, hubVars
<1>4. OneOpenSocket'
  BY DEF IInv, BotSaysUnbound, AskToClose, OneOpenSocket
<1>5. Beats'
  BY DEF IInv, BotSaysUnbound, AskToClose, Beats, beatVars
<1>6. GraceOnlyWhenGone' /\ RpcNeedsSocket' /\ Listed' /\ Told' /\ Gone'
  BY DEF IInv, BotSaysUnbound, GraceOnlyWhenGone, RpcNeedsSocket, Listed, Told,
     Gone, ListOnlineBotIds, dbVars, hubVars
<1>. QED BY <1>1, <1>2, <1>3, <1>4, <1>5, <1>6 DEF IInv

\* Deleting a row makes the bot one to be disconnected.
LEMMA DeleteBotStep ==
  ASSUME IInv, NEW b \in Bots, DeleteBot(b)
  PROVE  IInv'
<1>1. TypeOK'
  BY DEF IInv, DeleteBot, TypeOK, sockVars, beatVars, hubVars
<1>2. Told'
  BY DEF IInv, DeleteBot, Told, ListOnlineBotIds, hubVars
<1>3. Gone'
  BY DEF IInv, DeleteBot, Gone
<1>4. HasBot' /\ Registered' /\ OneOpenSocket' /\ GraceOnlyWhenGone'
     /\ RpcNeedsSocket' /\ Listed' /\ Beats'
  BY DEF IInv, DeleteBot, HasBot, Registered, OneOpenSocket, GraceOnlyWhenGone,
     RpcNeedsSocket, Listed, Beats, ListOnlineBotIds, sockVars, beatVars,
     hubVars
<1>. QED BY <1>1, <1>2, <1>3, <1>4 DEF IInv

\* Disconnecting an unbound bot may drop its grace timer without an event.
LEMMA NotifyAndDisconnectStep ==
  ASSUME IInv, NEW b \in Bots, NotifyAndDisconnect(b)
  PROVE  IInv'
<1>1. TypeOK'
  BY DEF IInv, NotifyAndDisconnect, AskToClose, TypeOK, States, Codes, beatVars
<1>2. HasBot'
  BY DEF IInv, NotifyAndDisconnect, AskToClose, HasBot
<1>3. Registered'
  BY DEF IInv, NotifyAndDisconnect, AskToClose, Registered, Live
<1>4. OneOpenSocket'
  BY DEF IInv, NotifyAndDisconnect, AskToClose, OneOpenSocket
<1>5. GraceOnlyWhenGone'
  BY DEF IInv, NotifyAndDisconnect, GraceOnlyWhenGone
<1>6. Listed'
  BY DEF IInv, NotifyAndDisconnect, Listed, ListOnlineBotIds
<1>7. Told'
  BY DEF IInv, NotifyAndDisconnect, Told, Gone, ListOnlineBotIds
<1>8. Gone'
  BY DEF IInv, NotifyAndDisconnect, Gone
<1>9. Beats'
  BY DEF IInv, NotifyAndDisconnect, AskToClose, Beats, beatVars
<1>10. RpcNeedsSocket'
  BY DEF IInv, NotifyAndDisconnect, RpcNeedsSocket
<1>. QED BY <1>1, <1>2, <1>3, <1>4, <1>5, <1>6, <1>7, <1>8, <1>9, <1>10 DEF IInv

\* The close of the last socket announces the bot offline or arms the timer.
LEMMA CloseEventStep ==
  ASSUME IInv, NEW s \in Socks, NEW code \in Codes, CloseEvent(s, code)
  PROVE  IInv'
<1>1. TypeOK'
  BY DEF IInv, CloseEvent, RejectAllBotRpcPending, TypeOK, States, HasBot, dbVars,
     beatVars
<1>2. HasBot'
  BY DEF IInv, CloseEvent, HasBot
<1>3. Registered'
  BY DEF IInv, CloseEvent, Registered, TypeOK, Live
<1>4. OneOpenSocket'
  BY DEF IInv, CloseEvent, OneOpenSocket
<1>5. GraceOnlyWhenGone'
  BY DEF IInv, CloseEvent, IsLastSocket, GraceOnlyWhenGone, TypeOK, HasBot
<1>6. RpcNeedsSocket'
  BY DEF IInv, CloseEvent, RejectAllBotRpcPending, RpcNeedsSocket, TypeOK
<1>7. Listed'
  BY DEF IInv, CloseEvent, IsLastSocket, Listed, ListOnlineBotIds, TypeOK, HasBot,
     Registered, GraceOnlyWhenGone, Live
<1>8. Told'
  BY DEF IInv, CloseEvent, IsLastSocket, Told, ListOnlineBotIds, dbVars
<1>9. Beats'
  BY DEF IInv, CloseEvent, Beats, beatVars
<1>10. Gone'
  BY DEF IInv, CloseEvent, Gone, dbVars
<1>. QED BY <1>1, <1>2, <1>3, <1>4, <1>5, <1>6, <1>7, <1>8, <1>9, <1>10 DEF IInv

\* A grace timer that fires announces its bot offline.
LEMMA GraceExpiresStep ==
  ASSUME IInv, NEW b \in Bots, GraceExpires(b)
  PROVE  IInv'
<1>1. TypeOK'
  BY DEF IInv, GraceExpires, TypeOK, dbVars, sockVars, beatVars
<1>2. GraceOnlyWhenGone'
  BY DEF IInv, GraceExpires, GraceOnlyWhenGone
<1>3. Listed'
  BY DEF IInv, GraceExpires, Listed, ListOnlineBotIds
<1>4. Told'
  BY DEF IInv, GraceExpires, Told, ListOnlineBotIds, dbVars
<1>5. HasBot' /\ Registered' /\ OneOpenSocket' /\ RpcNeedsSocket' /\ Gone'
     /\ Beats'
  BY DEF IInv, GraceExpires, HasBot, Registered, OneOpenSocket, RpcNeedsSocket,
     Gone, Beats, dbVars, sockVars, beatVars
<1>. QED BY <1>1, <1>2, <1>3, <1>4, <1>5 DEF IInv

-----------------------------------------------------------------------------
(* The theorems. *)

\* A step of the hub, or of nobody, keeps the invariant.
LEMMA NextPreserves == IInv /\ [Next]_vars => IInv'
<1> SUFFICES ASSUME IInv, [Next]_vars PROVE IInv'
  OBVIOUS
<1>1. ASSUME NEW s \in Socks, SockNext(s) PROVE IInv'
  BY <1>1, AuthenticateStep, ConnectStep, RequestBotRpcStep, PongStep, PingTickStep,
     PeerVanishesStep, BotSaysUnboundStep, CloseEventStep DEF SockNext
<1>2. ASSUME NEW b \in Bots, BotNext(b) PROVE IInv'
  BY <1>2, DeleteBotStep, NotifyAndDisconnectStep, GraceExpiresStep,
     SettleBotRpcStep DEF BotNext
<1>3. CASE UNCHANGED vars
  BY <1>3 DEF IInv, TypeOK, HasBot, Registered, OneOpenSocket, GraceOnlyWhenGone,
     RpcNeedsSocket, Listed, Told, Gone, Beats, ListOnlineBotIds, vars, dbVars,
     sockVars, beatVars, hubVars
<1>. QED BY <1>1, <1>2, <1>3 DEF Next

\* The strengthened invariant holds in every reachable state of the hub.
THEOREM Invariance == Spec => []IInv
<1>1. Init => IInv
  BY InitEstablishes
<1>2. IInv /\ [Next]_vars => IInv'
  BY NextPreserves
<1>. QED BY <1>1, <1>2, PTL DEF Spec

\* The variables of the hub stay within their types, the counters of the
\* heartbeat within their bounds.
THEOREM TypeCorrect == Spec => []TypeOK
<1>1. IInv => TypeOK
  BY DEF IInv
<1>. QED BY <1>1, Invariance, PTL

\* A new connection of a bot replaces every older one.
THEOREM Replacement == Spec => []OneOpenSocket
<1>1. IInv => OneOpenSocket
  BY DEF IInv
<1>. QED BY <1>1, Invariance, PTL

\* The last 'status' event of a bot that has a row agrees with the list that
\* snapshots are built from.
THEOREM EventsAgreeWithList == Spec => []AnnouncedMatchesList
<1>1. IInv => AnnouncedMatchesList
  BY DEF IInv, TypeOK, Listed, Told, AnnouncedMatchesList
<1>. QED BY <1>1, Invariance, PTL

\* The heartbeat never closes a socket that answered within the last MaxMiss
\* rounds.
THEOREM Patience == Spec => HeartbeatPatience
<1> DEFINE Patient == \A s \in Socks :
        (missCount'[s] # missCount[s] /\ ready'[s] = "closing" /\ ready[s] = "open")
            => silent[s] >= MaxMiss
<1>1. IInv /\ [Next]_vars => [Patient]_vars
  <2> SUFFICES ASSUME IInv, Next PROVE Patient
    OBVIOUS
  <2>1. ASSUME NEW t \in Socks, PingTick(t) PROVE Patient
    <3>1. missCount' = missCount \/ ready' = ready \/ PingTickTerminate(t)
      BY <2>1 DEF PingTick, PingTickOk, PingTickSkip, PingTickMiss
    <3>2. CASE PingTickTerminate(t)
      BY <3>2, <2>1, MaxMissAssumption
      DEF IInv, TypeOK, Beats, PingTick, PingTickTerminate, MissLimitReached
    <3>. QED BY <3>1, <3>2
  <2>2. ASSUME NEW t \in Socks, Pong(t) PROVE Patient
    BY <2>2 DEF Pong, sockVars
  <2>3. missCount' = missCount \/ (\E t \in Socks : PingTick(t) \/ Pong(t))
    BY DEF Next, SockNext, BotNext, Authenticate, Connect, RequestBotRpc, PeerVanishes,
       BotSaysUnbound, CloseEvent, DeleteBot, NotifyAndDisconnect, GraceExpires,
       SettleBotRpc, beatVars
  <2>. QED BY <2>1, <2>2, <2>3
<1>. QED BY <1>1, Invariance, PTL DEF Spec, HeartbeatPatience

-----------------------------------------------------------------------------
(* The hub implements Presence: which abstract step each action takes. *)

\* Accepting a connection is Appear.
LEMMA ConnectAppears ==
  ASSUME IInv, NEW s \in Socks, Connect(s)
  PROVE  Service!Appear(botOf[s])
  BY DEF IInv, TypeOK, HasBot, Connect, Service!Appear, ListOnlineBotIds, dbVars

\* The close of the last socket is Disappear when it is announced at once; any
\* other close leaves the bot listed.
LEMMA CloseDisappears ==
  ASSUME IInv, NEW s \in Socks, NEW code \in Codes, CloseEvent(s, code)
  PROVE  Service!Disappear(botOf[s]) \/ UNCHANGED Service!presenceVars
<1> DEFINE b == botOf[s]
<1>1. b \in Bots /\ s \in botSockets[b] /\ b \notin pendingOffline
  BY DEF IInv, TypeOK, HasBot, Registered, GraceOnlyWhenGone, CloseEvent, Live
<1>2. botSockets' = [botSockets EXCEPT ![b] = @ \ {s}] /\ bound' = bound
  BY DEF CloseEvent, dbVars
<1>3. CASE IsLastSocket(s) /\ code = "admin"
  <2>1. ListOnlineBotIds' = ListOnlineBotIds \ {b}
    BY <1>1, <1>2, <1>3
    DEF IInv, TypeOK, CloseEvent, IsLastSocket, ListOnlineBotIds
  <2>. QED BY <1>1, <1>2, <1>3, <2>1 DEF CloseEvent, Service!Disappear, ListOnlineBotIds
<1>4. CASE ~(IsLastSocket(s) /\ code = "admin")
  <2>1. ListOnlineBotIds' = ListOnlineBotIds
    BY <1>1, <1>2, <1>4 DEF IInv, TypeOK, CloseEvent, IsLastSocket, ListOnlineBotIds
  <2>. QED BY <1>2, <1>4, <2>1 DEF CloseEvent, Service!presenceVars
<1>. QED BY <1>3, <1>4

\* A grace timer that fires is Disappear: its bot has no socket.
LEMMA GraceDisappears ==
  ASSUME IInv, NEW b \in Bots, GraceExpires(b)
  PROVE  Service!Disappear(b)
  BY DEF IInv, GraceOnlyWhenGone, GraceExpires, Service!Disappear, ListOnlineBotIds,
         dbVars

\* Disconnecting an unbound bot is Withdraw when it was in its grace period,
\* and nothing otherwise.
LEMMA NotifyWithdraws ==
  ASSUME IInv, NEW b \in Bots, NotifyAndDisconnect(b)
  PROVE  Service!Withdraw(b) \/ UNCHANGED Service!presenceVars
<1>1. bound' = bound /\ announced' = announced /\ b \notin bound
  BY DEF IInv, Gone, NotifyAndDisconnect
<1>2. CASE b \in pendingOffline
  <2>1. botSockets[b] = {}
    BY <1>2 DEF IInv, GraceOnlyWhenGone
  <2>. QED BY <1>1, <1>2, <2>1 DEF NotifyAndDisconnect, Service!Withdraw, ListOnlineBotIds
<1>3. CASE b \notin pendingOffline
  BY <1>1, <1>3 DEF NotifyAndDisconnect, Service!presenceVars, ListOnlineBotIds
<1>. QED BY <1>2, <1>3

\* Every step of the hub is a step of Presence, or none at all.
LEMMA StepRefines ==
  IInv /\ [Next]_vars => [Service!PresenceNext]_Service!presenceVars
<1> SUFFICES ASSUME IInv, [Next]_vars
             PROVE  Service!PresenceNext \/ UNCHANGED Service!presenceVars
  OBVIOUS
<1>1. ASSUME NEW s \in Socks, Connect(s)
      PROVE  Service!PresenceNext
  <2>1. botOf[s] \in Bots
    BY <1>1 DEF IInv, HasBot, Connect
  <2>. QED BY <1>1, <2>1, ConnectAppears DEF Service!PresenceNext
<1>2. ASSUME NEW s \in Socks, NEW code \in Codes, CloseEvent(s, code)
      PROVE  Service!PresenceNext \/ UNCHANGED Service!presenceVars
  <2>1. botOf[s] \in Bots
    BY <1>2 DEF IInv, HasBot, CloseEvent
  <2>. QED BY <1>2, <2>1, CloseDisappears DEF Service!PresenceNext
<1>3. ASSUME NEW s \in Socks, SockNext(s)
      PROVE  Service!PresenceNext \/ UNCHANGED Service!presenceVars
  BY <1>1, <1>2, <1>3 DEF SockNext, Authenticate, RequestBotRpc, Pong, PingTick,
     PeerVanishes, BotSaysUnbound, dbVars, hubVars, Service!presenceVars,
     ListOnlineBotIds
<1>4. ASSUME NEW b \in Bots, BotNext(b)
      PROVE  Service!PresenceNext \/ UNCHANGED Service!presenceVars
  <2>1. CASE DeleteBot(b)
    BY <2>1 DEF DeleteBot, Service!PresenceNext, Service!Unbind, hubVars,
       ListOnlineBotIds
  <2>2. CASE NotifyAndDisconnect(b)
    BY <2>2, NotifyWithdraws DEF Service!PresenceNext
  <2>3. CASE GraceExpires(b)
    BY <2>3, GraceDisappears DEF Service!PresenceNext
  <2>4. ASSUME NEW s \in Socks, SettleBotRpc(b, s) PROVE UNCHANGED Service!presenceVars
    BY <2>4 DEF SettleBotRpc, dbVars, Service!presenceVars, ListOnlineBotIds
  <2>. QED BY <1>4, <2>1, <2>2, <2>3, <2>4 DEF BotNext
<1>5. CASE UNCHANGED vars
  BY <1>5 DEF vars, dbVars, hubVars, Service!presenceVars, ListOnlineBotIds
<1>. QED BY <1>3, <1>4, <1>5 DEF Next

\* The hub implements the abstract presence service.
THEOREM Implementation == Spec => ImplementsPresence
<1>1. Init => Service!PresenceInit
  BY DEF Init, Service!PresenceInit, ListOnlineBotIds
<1>2. IInv /\ [Next]_vars => [Service!PresenceNext]_Service!presenceVars
  BY StepRefines
<1>. QED BY <1>1, <1>2, Invariance, PTL DEF Spec, ImplementsPresence, Service!PresenceSpec

=============================================================================
