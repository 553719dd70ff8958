---------------------------- MODULE GatewayLink ----------------------------
(***************************************************************************)
(* The plugin's WebSocket to the gateway of its own machine, and the       *)
(* requests sent over it: src/plugins/openclaw/src/realtime-bridge.js.     *)
(*                                                                         *)
(* The bridge asks for itself (it makes sure on each connection that an    *)
(* agent has a session, and runs two-phase agent requests) and passes on   *)
(* what the tabs ask.  The gateway and the server link are the             *)
(* environment.  A step is one event handler with the continuations of the *)
(* promises it settles, which run before the next event.                   *)
(***************************************************************************)
EXTENDS Naturals, FiniteSets

CONSTANTS
    MaxSock,             \* bound: gateway sockets that matter at a time
    Ensures,             \* runs of __ensureAllAgentSessions, for one agent
    Agents,              \* two-phase agent requests
    Tabs,                \* requests of tabs
    None

Socks == 1..MaxSock
Own == Ensures \cup Agents             \* in gatewayPendingRequests while pending
Calls == Own \cup Tabs

ASSUME GatewayAssumption ==
    /\ MaxSock \in Nat \ {0} /\ None \notin Socks
    /\ Ensures \cap Agents = {} /\ Own \cap Tabs = {}

VARIABLES
    server,              \* serverWs; closing: its close event is to come
    link,                \* the sockets; closing: the close event is to come
    shaken,              \* what has become of the gateway's connect.challenge
    gatewayWs, gatewayReady,
    connectReq,          \* the socket gatewayConnectReqId was sent on
    call,                \* what each caller awaits
    job,                 \* what the gateway has been asked, and its answer
    session,             \* the gateway has a main session for the agent
    spared               \* observed: it had one ever since the ensure began

bridge == <<gatewayWs, gatewayReady, connectReq>>
vars == <<server, link, shaken, bridge, call, job, session, spared>>

Methods == {"list", "resolve", "reset", "agent", "tab"}
Call == [stage : {"idle", "waiting", "pending"}, method : Methods,
         ws : Socks \cup {None}, accepted : BOOLEAN]
Job == [state : {"none", "asked", "running", "accepted", "ok", "missing", "refused"},
        method : Methods, ws : Socks \cup {None}]

TypeOK ==
    /\ server \in {"none", "open", "closing"}
    /\ link \in [Socks -> {"none", "connecting", "open", "closing"}]
    /\ shaken \in [Socks -> {"no", "asked", "failed", "yes"}]
    /\ gatewayWs \in Socks \cup {None} /\ gatewayReady \in BOOLEAN
    /\ connectReq \in Socks \cup {None}
    /\ call \in [Calls -> Call] /\ job \in [Calls -> Job]
    /\ session \in BOOLEAN /\ spared \in [Ensures -> BOOLEAN]

Idle == [stage |-> "idle", method |-> "tab", ws |-> None, accepted |-> FALSE]
Waiting(m, s) == [Idle EXCEPT !.stage = "waiting", !.method = m, !.ws = s]
NoJob == [state |-> "none", method |-> "tab", ws |-> None]

Init ==
    /\ server = "none"
    /\ link = [s \in Socks |-> "none"] /\ shaken = [s \in Socks |-> "no"]
    /\ gatewayWs = None /\ gatewayReady = FALSE /\ connectReq = None
    /\ call = [c \in Calls |-> Idle] /\ job = [c \in Calls |-> NoJob]
    /\ session \in BOOLEAN /\ spared = [e \in Ensures |-> FALSE]

-----------------------------------------------------------------------------
(* __ensureGatewayConnection *)

Free(lk) ==
    {s \in Socks : lk[s] = "none" /\ \A c \in Calls : job[c].ws # s /\ call[c].ws # s}

\* There is a socket already.  And nobody looks.
NoSocket(w) == TRUE
Missing(w) == w = None

\* The bridge is left with w, ready and req, and the sockets with lk and sh; who
\* asks for a connection gets one unless it is there or the server's is not.
Connect(w, ready, req, lk, sh, asked) ==
    IF asked /\ server' = "open" /\ Missing(w)
    THEN \E s \in Free(lk) :
           /\ \A r \in Free(lk) : s <= r
           /\ gatewayWs' = s /\ gatewayReady' = FALSE /\ connectReq' = None
           /\ link' = [lk EXCEPT ![s] = "connecting"]
           /\ shaken' = [sh EXCEPT ![s] = "no"]
    ELSE /\ gatewayWs' = w /\ gatewayReady' = ready /\ connectReq' = req
         /\ link' = lk /\ shaken' = sh
Connected(asked) == Connect(gatewayWs, gatewayReady, connectReq, link, shaken, asked)

-----------------------------------------------------------------------------
(* Requests *)

\* ensureAgentSession: sessions.reset if the gateway has answered, and not with
\* a session.  And after any failure.
AnyFailure(outcome) == outcome # "ok"
SaysMissing(outcome) == outcome \in {"missing", "refused"}

\* What a caller does next, None if it is done.  The list of agents matters
\* little: without it there is the main agent.
NextMethod(m, outcome) ==
    CASE m = "list" -> "resolve"
      [] m = "resolve" /\ SaysMissing(outcome) -> "reset"
      [] OTHER -> None
GoesOn(C, outcome) == \E c \in C : NextMethod(call[c].method, outcome) # None

\* The calls in C are settled, and wait for the gateway once more if they go on.
CallsAfter(C, outcome) ==
    [c \in Calls |->
        LET m == NextMethod(call[c].method, outcome)
        IN  IF c \notin C THEN call[c]
            ELSE IF m = None \/ gatewayWs' = None THEN Idle ELSE Waiting(m, gatewayWs')]
Settle(C, outcome) ==
    /\ Connected(GoesOn(C, outcome))
    /\ call' = CallsAfter(C, outcome)

\* gatewayPendingRequests, each with its settle
Pending == {c \in Own : call[c].stage = "pending"}
\* The gateway is gone: so are the answers.  And they are awaited still.
NothingPending == {}
Abandoned == Pending

FirstMethod(c) == CASE c \in Ensures -> "list" [] c \in Agents -> "agent" [] OTHER -> "tab"

\* A caller has come: __waitGatewayReady.
Begins(c) ==
    /\ call' = [call EXCEPT ![c] = IF gatewayWs' = None THEN Idle
                                   ELSE Waiting(FirstMethod(c), gatewayWs')]
    /\ spared' = IF c \in Ensures THEN [spared EXCEPT ![c] = session] ELSE spared
Start(c) ==
    /\ call[c].stage = "idle" /\ job[c].state = "none"
    /\ UNCHANGED <<server, job, session>>
    /\ Connected(TRUE)
    /\ Begins(c)

\* The gateway is ready, or the poller has found it so: the request is sent.
Send(c) ==
    /\ call[c].stage = "waiting"
    /\ gatewayWs # None /\ gatewayWs = call[c].ws /\ gatewayReady /\ link[gatewayWs] = "open"
    /\ call' = [call EXCEPT ![c].stage = "pending"]
    /\ job' = [job EXCEPT ![c] = [state |-> "asked", method |-> call[c].method, ws |-> gatewayWs]]
    /\ UNCHANGED <<server, link, shaken, bridge, session, spared>>

\* It is not, in time; a tab is told GATEWAY_OFFLINE.
WaitFails(c) ==
    /\ call[c].stage = "waiting"
    /\ UNCHANGED <<server, job, session, spared>>
    /\ Settle({c}, "failed")

Timeout(c) ==
    /\ c \in Pending
    /\ UNCHANGED <<server, job, session, spared>>
    /\ Settle({c}, "failed")

-----------------------------------------------------------------------------
(* The gateway: it handles a request once, answers agent requests twice *)

Handle(c) ==
    /\ job[c].state \in {"asked", "running"}
    /\ LET s == job[c].ws
           m == job[c].method
           Says(a) == job' = [job EXCEPT ![c].state = a]
       IN  \/ /\ Says("refused")
              /\ spared' = [e \in Ensures |-> spared[e] /\ e # c] /\ UNCHANGED session
           \/ /\ shaken[s] = "yes" /\ UNCHANGED spared
              /\ Says(CASE m = "resolve" /\ ~session -> "missing"
                        [] m = "agent" /\ job[c].state = "asked" -> "accepted"
                        [] OTHER -> "ok")
              /\ session' = (session \/ m = "reset")
    /\ UNCHANGED <<server, link, shaken, bridge, call>>

\* The answer is lost with its socket.
AnswerLost(c) ==
    /\ job[c].state # "none" /\ link[job[c].ws] # "open"
    /\ job' = [job EXCEPT ![c] = NoJob]
    /\ call' = IF c \in Tabs THEN [call EXCEPT ![c] = Idle] ELSE call
    /\ UNCHANGED <<server, link, shaken, bridge, session, spared>>

\* 'message' with type res.  Nobody awaits it: it is for a tab, and passed on to
\* all of them if the gateway is ready.
Answer(c) ==
    /\ job[c].state \in {"accepted", "ok", "missing", "refused"}
    /\ link[job[c].ws] = "open"
    /\ job' = [job EXCEPT ![c] = IF @.state = "accepted" THEN [@ EXCEPT !.state = "running"] ELSE NoJob]
    /\ UNCHANGED <<server, session, spared>>
    /\ CASE c \notin Pending ->
              /\ Connected(FALSE)
              /\ call' = IF c \in Tabs /\ gatewayReady THEN [call EXCEPT ![c] = Idle] ELSE call
         [] c \in Pending /\ job[c].state = "accepted" /\ ~call[c].accepted ->
              /\ Connected(FALSE)
              /\ call' = [call EXCEPT ![c].accepted = TRUE]
         [] OTHER -> Settle({c}, job[c].state)

\* Others make sessions and delete them, too.
SessionChanges ==
    /\ session' = ~session
    /\ spared' = [e \in Ensures |-> spared[e] /\ session']
    /\ UNCHANGED <<server, link, shaken, bridge, call, job>>

\* A tab gives up.
TabGivesUp(c) ==
    /\ c \in Tabs /\ call[c].stage = "pending" /\ job[c].state = "none"
    /\ call' = [call EXCEPT ![c] = Idle]
    /\ UNCHANGED <<server, link, shaken, bridge, job, session, spared>>

-----------------------------------------------------------------------------
(* The sockets *)

\* The server link's 'open'
ServerUp ==
    /\ server = "none" /\ server' = "open"
    /\ UNCHANGED <<call, job, session, spared>>
    /\ Connected(TRUE)

\* A heartbeat missed, a close from the other end.
ServerCloses ==
    /\ server = "open" /\ server' = "closing"
    /\ UNCHANGED <<link, shaken, bridge, call, job, session, spared>>

\* Its end: __closeGatewayWs.
ServerDown ==
    /\ server # "none" /\ server' = "none"
    /\ UNCHANGED <<job, session, spared>>
    /\ IF gatewayWs = None THEN Connected(FALSE) /\ UNCHANGED call
       ELSE /\ Connect(None, FALSE, None, [link EXCEPT ![gatewayWs] = "closing"], shaken, FALSE)
            /\ call' = CallsAfter(Abandoned, "failed")

Opened(s) ==
    /\ link[s] = "connecting" /\ link' = [link EXCEPT ![s] = "open"]
    /\ UNCHANGED <<server, shaken, bridge, call, job, session, spared>>

\* connect.challenge: __sendGatewayConnectRequest, which may fail.  And with
\* the id of the request not kept.
NotKept(s, ok) == None
Requested(s, ok) == IF ok THEN s ELSE None
Challenge(s, ok) ==
    /\ link[s] = "open" /\ shaken[s] = "no"
    /\ shaken' = [shaken EXCEPT ![s] = IF ok THEN "asked" ELSE "failed"]
    /\ connectReq' = Requested(s, ok)
    /\ UNCHANGED <<server, link, gatewayWs, gatewayReady, call, job, session, spared>>

\* The answer to it, which counts if it is the one awaited.  A ready gateway is
\* asked for the agents at once; Idlers is bounded by Ensures.
Idlers == {e \in Ensures : call[e].stage = "idle" /\ job[e].state = "none"}
ConnectOk(s) ==
    /\ link[s] = "open" /\ shaken[s] = "asked"
    /\ UNCHANGED <<server, job, session>>
    /\ LET sh == [shaken EXCEPT ![s] = "yes"]
       IN  IF connectReq # s
           THEN /\ Connect(gatewayWs, gatewayReady, connectReq, link, sh, FALSE)
                /\ UNCHANGED <<call, spared>>
           ELSE /\ Connect(gatewayWs, TRUE, None, link, sh, Idlers # {})
                /\ \/ Idlers = {} /\ UNCHANGED <<call, spared>>
                   \/ \E e \in Idlers : Begins(e)

ConnectRefused(s) ==
    /\ link[s] = "open" /\ shaken[s] = "asked"
    /\ shaken' = [shaken EXCEPT ![s] = "failed"]
    /\ IF connectReq = s
       THEN /\ gatewayReady' = FALSE /\ connectReq' = None
            /\ link' = [link EXCEPT ![s] = "closing"]
       ELSE UNCHANGED <<gatewayReady, connectReq, link>>
    /\ UNCHANGED <<server, gatewayWs, call, job, session, spared>>

GatewayDrops(s) ==
    /\ link[s] \in {"connecting", "open"} /\ link' = [link EXCEPT ![s] = "closing"]
    /\ UNCHANGED <<server, shaken, bridge, call, job, session, spared>>

\* 'close': whichever socket it is of.
CloseEvent(s) ==
    /\ link[s] = "closing"
    /\ UNCHANGED <<server, job, session, spared>>
    /\ Connect(None, FALSE, None, [link EXCEPT ![s] = "none"], shaken, GoesOn(Abandoned, "failed"))
    /\ call' = CallsAfter(Abandoned, "failed")

Next ==
    \/ ServerUp \/ ServerCloses \/ ServerDown \/ SessionChanges
    \/ \E s \in Socks :
        \/ Opened(s) \/ ConnectOk(s) \/ ConnectRefused(s) \/ GatewayDrops(s) \/ CloseEvent(s)
        \/ \E ok \in BOOLEAN : Challenge(s, ok)
    \/ \E c \in Calls :
        \/ Start(c) \/ Send(c) \/ WaitFails(c) \/ Timeout(c)
        \/ Handle(c) \/ Answer(c) \/ AnswerLost(c) \/ TabGivesUp(c)

Spec == Init /\ [][Next]_vars

-----------------------------------------------------------------------------
(* Properties *)

\* What the bridge awaits was asked on the gateway socket it has: a request
\* never outlives its socket to wait for a timeout.
PendingOnCurrent == \A c \in Pending : gatewayWs # None /\ call[c].ws = gatewayWs

\* The bridge lets go of a socket that is not closing only when the close
\* event of a former one arrives, for its handler does not look.
GatewayKept ==
    [][(gatewayWs # None /\ gatewayWs' # gatewayWs)
        => \/ link[gatewayWs] = "closing" \/ link'[gatewayWs] = "closing"
           \/ \E s \in Socks \ {gatewayWs} : CloseEvent(s)]_vars

\* A session that was there all the time is not reset by an ensure that the
\* gateway has answered, however many requests fail or get lost.
NeverResetSpared ==
    [][\A e \in Ensures : Handle(e) /\ job[e].method = "reset" /\ session' => ~spared'[e]]_vars

\* Once the handshake on a socket is under way the bridge awaits its answer, and
\* then is ready, as long as the socket is open: but for a socket that it has
\* let go of and that does its handshake, too.
Deaf ==
    /\ gatewayWs # None /\ link[gatewayWs] = "open"
    /\ \/ shaken[gatewayWs] = "asked" /\ connectReq # gatewayWs
       \/ shaken[gatewayWs] = "yes" /\ ~gatewayReady
DeafOnlyByStray ==
    [][(~Deaf /\ Deaf') => \E s \in Socks \ {gatewayWs} : link[s] = "open"]_vars
=============================================================================
