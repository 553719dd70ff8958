---------------------------- MODULE RtcRecovery ----------------------------
(***************************************************************************)
(* How a browser tab gets and keeps the data channel of one bot:           *)
(* src/ui/src/stores/bots.store.js (bot list, __ensureRtc, __fullInit, the *)
(* backoff), services/webrtc-connection.js and the part of                 *)
(* services/bot-connection*.js that holds the current RTC connection.      *)
(*                                                                         *)
(* Handlers call each other without an await, so a step is the composition *)
(* of functions from the state t of the tab to its state after the call.   *)
(* The server, the signalling channel and the plugin are the environment.  *)
(***************************************************************************)
EXTENDS Naturals

CONSTANTS
    MaxRtc,              \* bound: WebRtcConnections that matter at a time
    MaxConn,             \* bound: BotConnections that matter at a time
    MaxBuilds,           \* RTC_BUILD_MAX_RETRIES
    MaxRetries,          \* MAX_BACKOFF_RETRIES
    None

Rtcs == 1..MaxRtc
Conns == 1..MaxConn

ASSUME RtcAssumption ==
    /\ MaxRtc \in Nat /\ MaxConn \in Nat \ {0}
    /\ MaxBuilds \in Nat \ {0} /\ MaxRetries \in Nat
    /\ None \notin Rtcs \cup Conns

VARIABLE tab
vars == tab

Phases == {"idle", "busy", "ready", "failed"}          \* busy: building or recovering
Bot == [known : BOOLEAN, online : BOOLEAN, init : BOOLEAN, ready : BOOLEAN, phase : Phases]
Run == [conn : Conns, tries : 0..MaxBuilds, rtc : Rtcs \cup {None}]
Rtc == [state : {"idle", "connecting", "connected", "failed", "closed"},
        step : {"creds", "signal", "offer", "done"},
        pc : {"none", "new", "connected", "disconnected", "failed"},
        dc : {"none", "new", "open"},
        conn : Conns, settled : BOOLEAN, stats : BOOLEAN, late : BOOLEAN]

ASSUME NoneAssumption == None \notin Run

\* bot.ready is dcReady.  run is the __ensureRtc that _rtcInitInProgress keeps
\* alone, awaiting initRtc's promise for run.rtc.  init[c] is where __fullInit
\* is for the bot object that came with conn c.  rtc[r].late: r was closed
\* while it awaited the TURN credentials or the signalling channel.
TypeOK ==
    /\ tab.bot \in Bot
    /\ tab.conn \in Conns \cup {None}                      \* useBotConnections().get(id)
    /\ tab.rtcOf \in [Conns -> Rtcs \cup {None}]           \* conn.__rtc
    /\ tab.init \in [Conns -> {"none", "rtc", "version"}]
    /\ tab.map \in Rtcs \cup {None}                        \* rtcInstances.get(id)
    /\ tab.rtc \in [Rtcs -> Rtc]
    /\ tab.run \in Run \cup {None}
    /\ tab.run # None => tab.run.rtc # None
    /\ tab.retry \in [count : 0..MaxRetries, armed : BOOLEAN]
    /\ tab.probing \subseteq Rtcs

NoBot == [known |-> FALSE, online |-> FALSE, init |-> FALSE, ready |-> FALSE, phase |-> "idle"]
NewBot(on) == [NoBot EXCEPT !.known = TRUE, !.online = on]
Spent == [state |-> "closed", step |-> "done", pc |-> "none", dc |-> "none",
          conn |-> 1, settled |-> TRUE, stats |-> FALSE, late |-> FALSE]
NoRetry == [count |-> 0, armed |-> FALSE]

Init ==
    tab = [bot |-> NoBot, conn |-> None, rtcOf |-> [c \in Conns |-> None],
           init |-> [c \in Conns |-> "none"], map |-> None, rtc |-> [r \in Rtcs |-> Spent],
           run |-> None, retry |-> NoRetry, probing |-> {}]

IsReady(t, r) == r # None /\ t.rtc[r].dc = "open"
CurrentRtc(t) == IF t.conn = None THEN None ELSE t.rtcOf[t.conn]

-----------------------------------------------------------------------------
(* bots.store: the backoff *)

ClearRetry(t) == [t EXCEPT !.retry = NoRetry]

\* An online bot gets MaxRetries retries.  And a tab that does not retry.
NoMore(t) == t.retry.count = MaxRetries
NoBackoff(t) == t
ScheduleRetry(t) ==
    IF ~t.bot.known \/ ~t.bot.online THEN t
    ELSE IF NoMore(t) THEN [t EXCEPT !.retry.count = 0]
    ELSE [t EXCEPT !.retry = [count |-> @.count + 1, armed |-> TRUE]]

\* __rtcCallbacks: what a connection tells the store of its new state.
Connected(t) ==
    IF t.bot.known /\ IsReady(t, CurrentRtc(t)) /\ ~t.bot.ready
    THEN [t EXCEPT !.bot.ready = TRUE, !.bot.phase = "ready"]
    ELSE t
Lost(t) ==
    IF ~t.bot.known THEN t
    ELSE LET u == [t EXCEPT !.bot.ready = FALSE, !.bot.phase = "failed"]
         IN  IF t.run = None THEN ScheduleRetry(u) ELSE u

-----------------------------------------------------------------------------
(* BotConnection: its RTC connection, and __fullInit that uses it *)

\* __fullInit gives up, for the bot it was started for.
InitFails(t, c) ==
    [t EXCEPT !.init[c] = "none", !.bot.init = @ /\ c # t.conn]

\* __rejectAllPending
RejectPending(t, c) == IF t.init[c] = "version" THEN InitFails(t, c) ELSE t

ClearRtc(t, c) == RejectPending([t EXCEPT !.rtcOf[c] = None], c)

\* __fullInit goes on after __ensureRtc.
AfterEnsure(t, c) ==
    IF t.init[c] # "rtc" THEN t
    ELSE IF IsReady(t, t.rtcOf[c])
    THEN [t EXCEPT !.init[c] = "version", !.bot.ready = @ \/ c = t.conn]
    ELSE InitFails(t, c)

-----------------------------------------------------------------------------
(* WebRtcConnection *)

\* initRtc's onStateChange: the store's callback, and, when the connection has
\* failed, the conn that loses it.
OnStateChange(t, r) ==
    CASE t.rtc[r].state = "connected" -> Connected(t)
      [] t.rtc[r].state = "failed" -> ClearRtc(Lost(t), t.rtc[r].conn)
      [] t.rtc[r].state = "closed" -> Lost(t)
      [] OTHER -> t

\* __setState
SetState(t, r, s) ==
    IF t.rtc[r].state = s THEN t ELSE OnStateChange([t EXCEPT !.rtc[r].state = s], r)

Close(t, r) ==
    LET u == [t EXCEPT !.probing = @ \ {r},
                       !.rtc[r].pc = "none", !.rtc[r].dc = "none",
                       !.rtc[r].late = @ \/ t.rtc[r].step \in {"creds", "signal"}]
    IN  SetState(u, r, "closed")

\* closeRtcForBot.  And one that only forgets.
Forget(t) == [t EXCEPT !.map = None]
CloseCurrent(t) ==
    IF t.map = None THEN t ELSE [Close(t, t.map) EXCEPT !.map = None]

\* A connection of which nothing is to come; its place may be taken.
Over(t, r) ==
    /\ t.rtc[r].step = "done" /\ t.rtc[r].settled /\ ~t.rtc[r].stats
    /\ t.rtc[r].pc = "none" /\ r \notin t.probing
    /\ t.map # r /\ \A c \in Conns : t.rtcOf[c] # r
NextRtc(t) ==
    IF \A r \in Rtcs : ~Over(t, r) THEN None
    ELSE CHOOSE r \in Rtcs : Over(t, r) /\ \A q \in 1..r - 1 : ~Over(t, q)

\* initRtc.  A connection that is neither closed nor failed would make it
\* return at once; __ensureRtc has none left when it calls.
InitRtc(t) ==
    LET u == CloseCurrent(t)
        r == NextRtc(u)
    IN  IF r = None THEN u
        ELSE [u EXCEPT !.map = r, !.run.rtc = r,
                       !.rtc[r] = [Spent EXCEPT !.state = "idle", !.step = "creds",
                                                !.conn = t.run.conn, !.settled = FALSE]]

-----------------------------------------------------------------------------
(* __ensureRtc *)

EndRun(t) == AfterEnsure([t EXCEPT !.run = None], t.run.conn)

\* The head of the loop: a bot that is gone or offline is left alone.
Build(t) ==
    IF t.bot.known /\ t.bot.online THEN InitRtc(t)
    ELSE EndRun(IF t.bot.known THEN [t EXCEPT !.bot.phase = "idle"] ELSE t)

Built(t) ==
    EndRun(ClearRetry(IF t.bot.known THEN [t EXCEPT !.bot.ready = TRUE, !.bot.phase = "ready"]
                      ELSE t))
NotBuilt(t) ==
    IF t.run.tries + 1 < MaxBuilds THEN Build([t EXCEPT !.run.tries = @ + 1, !.run.rtc = None])
    ELSE EndRun(ScheduleRetry(IF t.bot.known THEN [t EXCEPT !.bot.phase = "failed"] ELSE t))

\* The promise of initRtc is settled but once.
Settle(t, r) == [t EXCEPT !.rtc[r].settled = TRUE]
Refused(t, r) == IF t.rtc[r].settled THEN t ELSE NotBuilt(Settle(t, r))

\* _rtcInitInProgress
InProgress(t) == t.run # None

\* What is connected stays, unless the caller knows better.  And it does not.
NeverHealthy(t, r) == FALSE
Healthy(t, r) == r # None /\ t.rtc[r].state = "connected"

EnsureRtc(t, force) ==
    LET c == t.conn
        r == CurrentRtc(t)
    IN  IF InProgress(t) \/ c = None THEN t
        ELSE IF ~force /\ Healthy(t, r)
        THEN IF t.bot.known /\ IsReady(t, r)
             THEN [t EXCEPT !.bot.ready = TRUE, !.bot.phase = "ready"] ELSE t
        ELSE LET u == [t EXCEPT !.bot.phase = IF t.bot.known THEN "busy" ELSE @,
                                !.run = [conn |-> c, tries |-> 0, rtc |-> None]]
             IN  Build(ClearRtc(CloseCurrent(u), c))

\* bot.initialized = true, and __fullInit up to its first await.  It waits for
\* the __ensureRtc it has started, not for one in progress.
FullInit(t) ==
    LET c == t.conn
        u == [t EXCEPT !.bot.init = TRUE]
        v == EnsureRtc([u EXCEPT !.init[c] = "rtc"], FALSE)
    IN  IF InProgress(t) \/ ~InProgress(v) THEN AfterEnsure(v, c) ELSE v

-----------------------------------------------------------------------------
(* bots.store: the list *)

Unused(t, c) ==
    /\ t.conn # c /\ t.init[c] = "none" /\ t.rtcOf[c] = None
    /\ t.run # None => t.run.conn # c
    /\ \A r \in Rtcs : t.rtc[r].conn = c => Over(t, r)
RoomForConn(t) == \E c \in Conns : Unused(t, c)
NextConn(t) == CHOOSE c \in Conns : Unused(t, c) /\ \A d \in 1..c - 1 : ~Unused(t, d)

\* connect and __bridgeConn for a bot that has just come into the list.
BridgeNew(t) ==
    LET u == [t EXCEPT !.conn = NextConn(t)]
    IN  IF u.bot.online THEN FullInit(u) ELSE u

\* BotConnection.disconnect
Disconnect(t) ==
    LET c == t.conn
        u == IF t.rtcOf[c] = None THEN t ELSE Close(t, t.rtcOf[c])
    IN  RejectPending([u EXCEPT !.rtcOf[c] = None, !.conn = None], c)

\* A step that finds no room for its connection is not taken.  What is over is
\* forgotten.
Becomes(t) ==
    /\ t.run # None => t.run.rtc # None
    /\ tab' = [t EXCEPT !.rtc = [r \in Rtcs |-> IF Over(t, r) THEN Spent ELSE t.rtc[r]]]

\* A bot that is not in the list yet: bot.bound and bot.nameUpdated, which do not
\* say that it is online, or a snapshot, which may.
AddBot(on) ==
    /\ ~tab.bot.known /\ tab.conn = None
    /\ RoomForConn(tab)
    /\ Becomes(BridgeNew([tab EXCEPT !.bot = NewBot(on)]))

\* applySnapshot: what the tab knows of a bot with a channel counts for more.
SnapshotWith(on) ==
    /\ tab.bot.known
    /\ LET t == [tab EXCEPT !.bot.online = on \/ tab.bot.ready]
       IN  Becomes(IF t.bot.online /\ t.bot.init /\ t.bot.phase = "failed"
                   THEN EnsureRtc(ClearRetry(t), FALSE) ELSE t)

\* bot.unbound, and a snapshot without the bot.
RemoveBot ==
    /\ tab.bot.known
    /\ Becomes([ClearRetry(Disconnect(CloseCurrent(tab))) EXCEPT !.bot = NoBot])

\* authStore.logout: the list is reset, the connections are dropped.
Logout ==
    /\ tab.conn # None
    /\ Becomes([Disconnect(tab) EXCEPT !.bot = NoBot])

\* updateBotOnline
BotOffline ==
    /\ tab.bot.known
    /\ Becomes(ClearRetry([tab EXCEPT !.bot.online = FALSE, !.bot.ready = FALSE, !.bot.phase = "idle"]))

BotOnline ==
    /\ tab.bot.known
    /\ LET t == [tab EXCEPT !.bot.online = TRUE]
       IN  Becomes(CASE ~t.bot.init -> FullInit(t)
                     [] t.bot.init /\ ~tab.bot.online -> EnsureRtc(ClearRetry(t), FALSE)
                     [] OTHER -> t)

RetryFires ==
    /\ tab.retry.armed
    /\ LET t == [tab EXCEPT !.retry.armed = FALSE]
       IN  Becomes(IF ~t.bot.known \/ ~t.bot.online \/ t.bot.phase # "failed" THEN ClearRetry(t)
                   ELSE EnsureRtc(t, FALSE))

\* checkPluginVersion has an answer: go on to load the data, or give up.
VersionAnswered(c, ok) ==
    /\ tab.init[c] = "version"
    /\ Becomes(IF ok THEN [tab EXCEPT !.init[c] = "none"] ELSE InitFails(tab, c))

-----------------------------------------------------------------------------
(* bots.store: __checkAndRecover *)

Recover(t, force) == EnsureRtc(ClearRetry([t EXCEPT !.bot.phase = "busy"]), force)

\* The tab is in the foreground again, or the network has changed; longAgo
\* means that the connection is not worth a probe.
ForegroundResume(longAgo) ==
    LET r == CurrentRtc(tab) IN
    /\ tab.run = None /\ tab.bot.ready /\ r # None
    /\ Becomes(CASE tab.rtc[r].state \in {"failed", "closed"} -> Recover(tab, FALSE)
                 [] longAgo \/ ~IsReady(tab, r) -> Recover(tab, TRUE)
                 [] OTHER -> [tab EXCEPT !.probing = @ \cup {r}])

ProbeAnswered(r) ==
    /\ r \in tab.probing /\ IsReady(tab, r)
    /\ Becomes([tab EXCEPT !.probing = @ \ {r}])

ProbeFailed(r) ==
    /\ r \in tab.probing
    /\ LET t == [tab EXCEPT !.probing = @ \ {r}]
       IN  Becomes(IF t.bot.known THEN Recover(t, TRUE) ELSE t)

-----------------------------------------------------------------------------
(* WebRtcConnection: the steps of connecting *)

\* initRtc's catch: no credentials, no signalling channel, or closed meanwhile.
Caught(t, r) ==
    IF t.rtc[r].settled THEN t
    ELSE NotBuilt(ClearRtc([Close(Settle(t, r), r) EXCEPT !.map = None], t.rtc[r].conn))

Creds(r, ok) ==
    /\ tab.rtc[r].step = "creds"
    /\ Becomes(IF ok THEN [tab EXCEPT !.rtc[r].step = "signal"]
               ELSE Caught([tab EXCEPT !.rtc[r].step = "done"], r))

\* __buildPeerConnection once ensureConnected is done, up to createOffer.
\* That the connection has been closed in the meantime goes unnoticed.
Signal(r, ok) ==
    /\ tab.rtc[r].step = "signal"
    /\ Becomes(IF ok
               THEN SetState([tab EXCEPT !.rtc[r].step = "offer", !.rtc[r].pc = "new",
                                         !.rtc[r].dc = "new"], r, "connecting")
               ELSE Caught([tab EXCEPT !.rtc[r].step = "done"], r))

Offer(r) ==
    /\ tab.rtc[r].step = "offer"
    /\ LET t == [tab EXCEPT !.rtc[r].step = "done"]
       IN  Becomes(IF t.rtc[r].pc = "none" THEN Caught(t, r) ELSE t)

\* initRtc's fallbackTimer
Fallback(r) ==
    /\ ~tab.rtc[r].settled
    /\ Becomes(Caught(tab, r))

-----------------------------------------------------------------------------
(* WebRtcConnection: events of the peer connection and its channel *)

PcConnected(r) ==
    /\ tab.rtc[r].step = "done" /\ tab.rtc[r].pc \in {"new", "disconnected"}
    /\ Becomes(SetState([tab EXCEPT !.rtc[r].pc = "connected", !.rtc[r].stats = TRUE], r, "connected"))

\* __resolveCandidateType
Stats(r) ==
    /\ tab.rtc[r].stats
    /\ LET t == [tab EXCEPT !.rtc[r].stats = FALSE]
       IN  Becomes(IF t.rtc[r].pc # "none" THEN OnStateChange(t, r) ELSE t)

PcDisconnected(r) ==
    /\ tab.rtc[r].pc = "connected"
    /\ Becomes([tab EXCEPT !.rtc[r].pc = "disconnected"])

\* The event, or disconnected for DISCONNECTED_TIMEOUT_MS: __onIceFailed.
PcFailed(r) ==
    /\ tab.rtc[r].step = "done"
    /\ \/ tab.rtc[r].pc \in {"new", "disconnected"}
          /\ Becomes(Refused(SetState([tab EXCEPT !.rtc[r].pc = "failed"], r, "failed"), r))
       \/ tab.rtc[r].pc = "disconnected"
          /\ Becomes(Refused(SetState(tab, r, "failed"), r))

\* setRtc: the conn of the instance has a channel.  And it is not told.
NotTold(t, r) == t
SetRtc(t, r) == [t EXCEPT !.rtcOf[t.rtc[r].conn] = r]

\* The channel is open: onReady.
DcOpen(r) ==
    /\ tab.rtc[r].pc = "connected" /\ tab.rtc[r].dc = "new"
    /\ LET t == [tab EXCEPT !.rtc[r].dc = "open"]
       IN  Becomes(IF t.rtc[r].settled THEN t ELSE Built(SetRtc(Settle(t, r), r)))

DcClosed(r) ==
    /\ tab.rtc[r].dc = "open"
    /\ Becomes(RejectPending([tab EXCEPT !.rtc[r].dc = "none"], tab.rtc[r].conn))

-----------------------------------------------------------------------------
StoreNext ==
    \/ \E on \in BOOLEAN : AddBot(on) \/ SnapshotWith(on)
    \/ RemoveBot \/ Logout \/ BotOffline \/ BotOnline \/ RetryFires
    \/ \E c \in Conns, ok \in BOOLEAN : VersionAnswered(c, ok)
    \/ \E longAgo \in BOOLEAN : ForegroundResume(longAgo)
RtcNext(r) ==
    \/ \E ok \in BOOLEAN : Creds(r, ok) \/ Signal(r, ok)
    \/ Offer(r) \/ Fallback(r) \/ Stats(r)
    \/ PcConnected(r) \/ PcDisconnected(r) \/ PcFailed(r) \/ DcOpen(r) \/ DcClosed(r)
    \/ ProbeAnswered(r) \/ ProbeFailed(r)
Next == StoreNext \/ \E r \in Rtcs : RtcNext(r)

Spec == Init /\ [][Next]_vars

-----------------------------------------------------------------------------
(* Properties *)

\* There is one peer connection at a time, the one in rtcInstances, but for
\* those that were closed before they had one and made it all the same.
PcOwned ==
    /\ TypeOK
    /\ \A r \in Rtcs : tab.rtc[r].pc # "none" => tab.map = r \/ tab.rtc[r].late

\* An online bot without a data channel is being connected or about to be,
\* until the retries are used up.  What leaves it alone otherwise: a snapshot
\* that finds it online, from which nothing follows, or a channel that has
\* closed without its peer connection, which __ensureRtc takes for healthy.
Abandoned(t) ==
    /\ t.bot.known /\ t.bot.online /\ ~t.bot.ready
    /\ t.run = None /\ ~t.retry.armed
Mute(t) == Healthy(t, CurrentRtc(t)) /\ ~IsReady(t, CurrentRtc(t))
NeverAbandoned ==
    [][(~Abandoned(tab) /\ Abandoned(tab'))
        => \/ tab.retry.count = MaxRetries /\ tab'.retry.count = 0
           \/ \E on \in BOOLEAN : SnapshotWith(on)
           \/ tab.bot.phase = "idle" /\ RetryFires
           \/ Mute(tab) /\ (BotOnline \/ RetryFires)]_vars

\* dcReady never holds of a bot whose conn has no RTC connection, unless an
\* __ensureRtc begun for the bot's former conn says so.
Hollow(t) == t.bot.ready /\ CurrentRtc(t) = None
HollowOnlyByStaleRun ==
    [][(~Hollow(tab) /\ Hollow(tab')) => tab.run # None /\ tab.run.conn # tab.conn]_vars

\* A live connection of a bot is lost by what happens to it, or given up
\* because a check of the tab found it dead, or taken down by one that came
\* late: never by the store's retries, snapshots and status events.
Live(t) ==
    LET r == CurrentRtc(t) IN t.bot.known /\ IsReady(t, r) /\ t.rtc[r].pc = "connected"
LostByItself ==
    [][(Live(tab) /\ tab'.conn = tab.conn /\ ~Live(tab'))
        => LET r == CurrentRtc(tab) IN
           \/ PcDisconnected(r) \/ DcClosed(r) \/ ProbeFailed(r) \/ ForegroundResume(TRUE)
           \/ \E q \in Rtcs : tab.rtc[q].late /\ (PcFailed(q) \/ Stats(q))]_vars
=============================================================================
