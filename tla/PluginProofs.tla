---------------------------- MODULE PluginProofs ----------------------------
(***************************************************************************)
(* Proofs about the plugin's gateway link and its peer connections, for    *)
(* every bound on the sockets and connections and every set of callers,    *)
(* connIds and offers.                                                     *)
(*                                                                         *)
(* GatewayLink: PendingOnCurrent is inductive together with the types: a   *)
(* new socket is only made when there is none, and then nothing pends;     *)
(* whoever lets go of a socket settles what pends, all of it and at once.  *)
(*                                                                         *)
(* WebRtcPeer: what sessions holds is a connection of that connId that is  *)
(* neither closed nor of a dropped WebRtcPeer, and an offer in progress    *)
(* knows its connId and works on a connection nobody else has reused.      *)
(***************************************************************************)
EXTENDS MCPlugin, TLAPS

IInv == TypeOK /\ PendingOnCurrent

\* The gateway sockets and the bridge have their types.
BridgeOK ==
    /\ link \in [Socks -> {"none", "connecting", "open", "closing"}]
    /\ shaken \in [Socks -> {"no", "asked", "failed", "yes"}]
    /\ gatewayWs \in Socks \cup {None} /\ gatewayReady \in BOOLEAN
    /\ connectReq \in Socks \cup {None}

\* The invariant holds at the start.
LEMMA InitEstablishes == Init => IInv
<1> SUFFICES ASSUME Init PROVE IInv
  OBVIOUS
<1>1. Idle \in Call /\ NoJob \in Job
  BY DEF Idle, NoJob, Call, Job, Methods
<1>2. TypeOK
  BY <1>1 DEF Init, TypeOK
<1>3. PendingOnCurrent
  BY DEF Init, PendingOnCurrent, Pending, Own, Calls, Idle
<1>. QED BY <1>2, <1>3 DEF IInv

-----------------------------------------------------------------------------
(* Connecting and settling *)

\* Connecting leaves the bridge with the socket it is told, or with a new one if
\* it is told that there is none.
LEMMA ConnectLeaves ==
  ASSUME NEW w \in Socks \cup {None}, NEW ready \in BOOLEAN, NEW req \in Socks \cup {None},
         NEW lk \in [Socks -> {"none", "connecting", "open", "closing"}],
         NEW sh \in [Socks -> {"no", "asked", "failed", "yes"}],
         NEW asked \in BOOLEAN, Connect(w, ready, req, lk, sh, asked)
  PROVE  BridgeOK' /\ (w # None => gatewayWs' = w)
<1>1. CASE asked /\ server' = "open" /\ Missing(w)
  <2>1. PICK s \in Socks :
          /\ gatewayWs' = s /\ gatewayReady' = FALSE /\ connectReq' = None
          /\ link' = [lk EXCEPT ![s] = "connecting"]
          /\ shaken' = [sh EXCEPT ![s] = "no"]
    BY <1>1 DEF Connect, Free
  <2>. QED BY <1>1, <2>1 DEF BridgeOK, Missing
<1>2. CASE ~(asked /\ server' = "open" /\ Missing(w))
  BY <1>2 DEF Connect, BridgeOK
<1>. QED BY <1>1, <1>2

\* A call that goes on has a method of the bridge's own.
LEMMA NextMethodType ==
  ASSUME NEW m \in Methods, NEW o, NextMethod(m, o) # None
  PROVE  NextMethod(m, o) \in Methods
  BY DEF NextMethod, Methods

\* Settled calls do not pend, and the others are as they were.
LEMMA SettledCalls ==
  ASSUME call \in [Calls -> Call], gatewayWs' \in Socks \cup {None},
         NEW C \in SUBSET Calls, NEW o, call' = CallsAfter(C, o)
  PROVE  /\ call' \in [Calls -> Call]
         /\ \A c \in C : call'[c].stage # "pending"
         /\ \A c \in Calls \ C : call'[c] = call[c]
<1> DEFINE m(c) == NextMethod(call[c].method, o)
<1>1. \A c \in Calls :
        call'[c] = IF c \notin C THEN call[c]
                   ELSE IF m(c) = None \/ gatewayWs' = None THEN Idle ELSE Waiting(m(c), gatewayWs')
  BY DEF CallsAfter
<1>2. \A c \in Calls : call[c].method \in Methods
  BY DEF Call
<1>3. Idle \in Call /\ Idle.stage # "pending"
  BY DEF Idle, Call, Methods
<1>4. ASSUME NEW c \in C, m(c) # None, gatewayWs' # None
      PROVE  Waiting(m(c), gatewayWs') \in Call /\ Waiting(m(c), gatewayWs').stage # "pending"
  <2>1. m(c) \in Methods
    BY <1>2, <1>4, NextMethodType
  <2>. HIDE DEF m
  <2>. QED BY <1>4, <2>1 DEF Waiting, Idle, Call
<1>5. \A c \in Calls : call'[c] \in Call
  <2>. HIDE DEF m
  <2>. QED BY <1>1, <1>3, <1>4
<1>6. call' \in [Calls -> Call]
  <2>1. call' = [c \in Calls |-> call'[c]]
    BY DEF CallsAfter
  <2>. QED BY <1>5, <2>1
<1>7. \A c \in C : call'[c].stage # "pending"
  <2>. HIDE DEF m
  <2>. QED BY <1>1, <1>3, <1>4
<1>. QED BY <1>1, <1>6, <1>7

\* What is settled is settled: the calls that still pend do so on the socket
\* they were asked on.
LEMMA SettlingKeeps ==
  ASSUME IInv, BridgeOK', NEW C \in SUBSET Calls, NEW o, call' = CallsAfter(C, o),
         gatewayWs # None => gatewayWs' = gatewayWs \/ Pending \subseteq C
  PROVE  call' \in [Calls -> Call] /\ PendingOnCurrent'
<1>1. call \in [Calls -> Call] /\ gatewayWs' \in Socks \cup {None}
  BY DEF IInv, TypeOK, BridgeOK
<1>2. /\ call' \in [Calls -> Call]
      /\ \A c \in C : call'[c].stage # "pending"
      /\ \A c \in Calls \ C : call'[c] = call[c]
  BY <1>1, SettledCalls
<1>3. PendingOnCurrent'
  <2> SUFFICES ASSUME NEW c \in Own, call'[c].stage = "pending"
               PROVE  gatewayWs' # None /\ call'[c].ws = gatewayWs'
    BY DEF PendingOnCurrent, Pending
  <2>1. c \in Pending \ C /\ call'[c] = call[c]
    BY <1>2 DEF Calls, Pending
  <2>. QED BY <2>1 DEF IInv, PendingOnCurrent
<1>. QED BY <1>2, <1>3

\* A call that begins does not pend, and the others are as they were.
LEMMA BeginningKeeps ==
  ASSUME IInv, BridgeOK', gatewayWs # None => gatewayWs' = gatewayWs,
         NEW c \in Calls, Begins(c)
  PROVE  /\ call' \in [Calls -> Call] /\ PendingOnCurrent'
         /\ spared' \in [Ensures -> BOOLEAN]
<1> DEFINE new == IF gatewayWs' = None THEN Idle ELSE Waiting(FirstMethod(c), gatewayWs')
<1>1. FirstMethod(c) \in Methods
  BY DEF FirstMethod, Methods
<1>2. new \in Call /\ new.stage # "pending"
  BY <1>1 DEF Idle, Waiting, Call, Methods, BridgeOK
<1>3. call' = [call EXCEPT ![c] = new]
  BY DEF Begins
<1> HIDE DEF new
<1>4. call' \in [Calls -> Call]
  BY <1>2, <1>3 DEF IInv, TypeOK
<1>5. PendingOnCurrent'
  <2> SUFFICES ASSUME NEW d \in Own, call'[d].stage = "pending"
               PROVE  gatewayWs' # None /\ call'[d].ws = gatewayWs'
    BY DEF PendingOnCurrent, Pending
  <2>1. call'[d] = call[d] /\ d \in Pending
    BY <1>2, <1>3 DEF IInv, TypeOK, Calls, Pending
  <2>. QED BY <2>1 DEF IInv, PendingOnCurrent
<1>6. spared' \in [Ensures -> BOOLEAN]
  BY DEF Begins, IInv, TypeOK
<1>. QED BY <1>4, <1>5, <1>6

\* Connecting with what the bridge has keeps its socket.
LEMMA ConnectedKeeps ==
  ASSUME IInv, NEW asked \in BOOLEAN, Connected(asked)
  PROVE  BridgeOK' /\ (gatewayWs # None => gatewayWs' = gatewayWs)
<1>1. BridgeOK
  BY DEF IInv, TypeOK, BridgeOK
<1>2. Connect(gatewayWs, gatewayReady, connectReq, link, shaken, asked)
  BY DEF Connected
<1>3. /\ gatewayWs \in Socks \cup {None} /\ gatewayReady \in BOOLEAN
      /\ connectReq \in Socks \cup {None}
      /\ link \in [Socks -> {"none", "connecting", "open", "closing"}]
      /\ shaken \in [Socks -> {"no", "asked", "failed", "yes"}]
  BY <1>1 DEF BridgeOK
<1>. QED BY <1>2, <1>3, ConnectLeaves

\* A step that leaves the calls alone and keeps the socket.
LEMMA NobodySettled ==
  ASSUME IInv, BridgeOK', gatewayWs # None => gatewayWs' = gatewayWs, UNCHANGED call
  PROVE  call' \in [Calls -> Call] /\ PendingOnCurrent'
  BY DEF IInv, TypeOK, PendingOnCurrent, Pending

-----------------------------------------------------------------------------
(* One lemma per action, and one per kind of action *)

\* A caller that comes keeps the invariant.
LEMMA StartStep == ASSUME IInv, NEW c \in Calls, Start(c) PROVE IInv'
<1>1. BridgeOK' /\ (gatewayWs # None => gatewayWs' = gatewayWs)
  BY ConnectedKeeps DEF Start
<1>2. call' \in [Calls -> Call] /\ PendingOnCurrent' /\ spared' \in [Ensures -> BOOLEAN]
  BY <1>1, BeginningKeeps DEF Start
<1>. QED BY <1>1, <1>2 DEF IInv, TypeOK, BridgeOK, Start

\* A request is sent on the current socket.
LEMMA SendStep == ASSUME IInv, NEW c \in Calls, Send(c) PROVE IInv'
<1>1. /\ call' = [call EXCEPT ![c].stage = "pending"]
      /\ job' = [job EXCEPT ![c] = [state |-> "asked", method |-> call[c].method, ws |-> gatewayWs]]
      /\ call[c].ws = gatewayWs /\ gatewayWs # None
      /\ gatewayWs' = gatewayWs
  BY DEF Send, bridge
<1>2. call[c] \in Call /\ gatewayWs \in Socks \cup {None}
  BY DEF IInv, TypeOK
<1>3. [call[c] EXCEPT !.stage = "pending"] \in Call
  BY <1>2 DEF Call
<1>4. call' \in [Calls -> Call]
  BY <1>1, <1>3 DEF IInv, TypeOK
<1>5. [state |-> "asked", method |-> call[c].method, ws |-> gatewayWs] \in Job
  BY <1>2 DEF Call, Job
<1>6. job' \in [Calls -> Job]
  BY <1>1, <1>5 DEF IInv, TypeOK
<1>7. TypeOK'
  BY <1>4, <1>6 DEF IInv, TypeOK, Send, bridge
<1>8. PendingOnCurrent'
  BY <1>1 DEF IInv, TypeOK, PendingOnCurrent, Pending, Own, Calls
<1>. QED BY <1>7, <1>8 DEF IInv

\* One caller is settled, and goes on or not.
LEMMA SettleOne ==
  ASSUME IInv, NEW c \in Calls, NEW o, Settle({c}, o)
  PROVE  BridgeOK' /\ call' \in [Calls -> Call] /\ PendingOnCurrent'
<1>1. GoesOn({c}, o) \in BOOLEAN
  BY DEF GoesOn
<1>2. BridgeOK' /\ (gatewayWs # None => gatewayWs' = gatewayWs)
  BY <1>1, ConnectedKeeps DEF Settle
<1>. QED BY <1>2, SettlingKeeps DEF Settle

\* A wait that fails and a timeout.
LEMMA GivesUpStep ==
  ASSUME IInv, NEW c \in Calls, WaitFails(c) \/ Timeout(c)
  PROVE  IInv'
<1>1. BridgeOK' /\ call' \in [Calls -> Call] /\ PendingOnCurrent'
  BY SettleOne DEF WaitFails, Timeout
<1>. QED BY <1>1 DEF IInv, TypeOK, BridgeOK, WaitFails, Timeout

\* The gateway's own steps leave the bridge alone.
LEMMA HandleStep == ASSUME IInv, NEW c \in Calls, Handle(c) PROVE IInv'
<1>1. UNCHANGED <<server, link, shaken, bridge, call>>
  BY DEF Handle
<1>2. PICK a \in {"refused", "missing", "accepted", "ok"} : job' = [job EXCEPT ![c].state = a]
  BY DEF Handle
<1>3. job[c] \in Job
  BY DEF IInv, TypeOK
<1>4. [job[c] EXCEPT !.state = a] \in Job
  BY <1>2, <1>3 DEF Job
<1>5. job' \in [Calls -> Job]
  BY <1>2, <1>4 DEF IInv, TypeOK
<1>6. session' \in BOOLEAN /\ spared' \in [Ensures -> BOOLEAN]
  BY DEF Handle, IInv, TypeOK
<1>. QED BY <1>1, <1>5, <1>6 DEF IInv, TypeOK, bridge, PendingOnCurrent, Pending

\* An answer is awaited, or is for a tab, or comes too late.
LEMMA AnswerStep == ASSUME IInv, NEW c \in Calls, Answer(c) PROVE IInv'
<1>1. job' = [job EXCEPT ![c] = IF @.state = "accepted" THEN [@ EXCEPT !.state = "running"] ELSE NoJob]
  BY DEF Answer
<1>2. job[c] \in Job /\ call[c] \in Call
  BY DEF IInv, TypeOK
<1>3. [job[c] EXCEPT !.state = "running"] \in Job /\ NoJob \in Job
  BY <1>2 DEF Job, NoJob, Methods
<1>4. job' \in [Calls -> Job]
  BY <1>1, <1>3 DEF IInv, TypeOK
<1>5. BridgeOK' /\ call' \in [Calls -> Call] /\ PendingOnCurrent'
  <2>1. CASE c \notin Pending
    <3>1. BridgeOK' /\ (gatewayWs # None => gatewayWs' = gatewayWs)
      BY <2>1, ConnectedKeeps DEF Answer
    <3>2. Idle \in Call /\ Idle.stage # "pending"
      BY DEF Idle, Call, Methods
    <3>3. call' = call \/ call' = [call EXCEPT ![c] = Idle]
      BY <2>1 DEF Answer
    <3>. QED BY <3>1, <3>2, <3>3 DEF IInv, TypeOK, PendingOnCurrent, Pending, Own, Calls
  <2>2. CASE c \in Pending /\ job[c].state = "accepted" /\ ~call[c].accepted
    <3>1. BridgeOK' /\ (gatewayWs # None => gatewayWs' = gatewayWs)
      BY <2>2, ConnectedKeeps DEF Answer
    <3>2. call' = [call EXCEPT ![c].accepted = TRUE]
      BY <2>2 DEF Answer
    <3>3. [call[c] EXCEPT !.accepted = TRUE] \in Call
      BY <1>2 DEF Call
    <3>4. call' \in [Calls -> Call]
      BY <3>2, <3>3 DEF IInv, TypeOK
    <3>5. \A d \in Calls : call'[d].stage = call[d].stage /\ call'[d].ws = call[d].ws
      BY <1>2, <3>2 DEF IInv, TypeOK, Call
    <3>6. PendingOnCurrent'
      BY <3>1, <3>5 DEF IInv, PendingOnCurrent, Pending, Calls
    <3>. QED BY <3>1, <3>4, <3>6
  <2>3. CASE c \in Pending /\ ~(job[c].state = "accepted" /\ ~call[c].accepted)
    <3>1. Settle({c}, job[c].state)
      BY <2>3 DEF Answer
    <3>. QED BY <3>1, SettleOne
  <2>. QED BY <2>1, <2>2, <2>3
<1>. QED BY <1>4, <1>5 DEF IInv, TypeOK, BridgeOK, Answer

\* A tab's call is dropped, or a job is lost: what pends is not touched.
LEMMA LossStep ==
  ASSUME IInv, NEW c \in Calls, AnswerLost(c) \/ TabGivesUp(c)
  PROVE  IInv'
<1>1. Idle \in Call /\ NoJob \in Job /\ Idle.stage # "pending"
  BY DEF Idle, Call, Methods, NoJob, Job
<1>2. job' \in [Calls -> Job]
  BY <1>1 DEF AnswerLost, TabGivesUp, IInv, TypeOK
<1>3. call' = call \/ call' = [call EXCEPT ![c] = Idle]
  BY DEF AnswerLost, TabGivesUp
<1>4. call' \in [Calls -> Call]
  BY <1>1, <1>3 DEF IInv, TypeOK
<1>5. \A d \in Calls : call'[d] = call[d] \/ call'[d].stage # "pending"
  BY <1>1, <1>3 DEF IInv, TypeOK
<1>6. PendingOnCurrent'
  BY <1>5 DEF AnswerLost, TabGivesUp, bridge, IInv, PendingOnCurrent, Pending, Calls
<1>. QED BY <1>2, <1>4, <1>6 DEF AnswerLost, TabGivesUp, bridge, IInv, TypeOK

-----------------------------------------------------------------------------
(* The sockets *)

\* Whoever lets go of the socket, the server's end or a close event, settles all.
LEMMA LettingGoKeeps ==
  ASSUME IInv, NEW s \in Socks, NEW lk \in {"none", "closing"}, NEW asked \in BOOLEAN,
         Connect(None, FALSE, None, [link EXCEPT ![s] = lk], shaken, asked),
         call' = CallsAfter(Abandoned, "failed")
  PROVE  BridgeOK' /\ call' \in [Calls -> Call] /\ PendingOnCurrent'
<1> DEFINE after == [link EXCEPT ![s] = lk]
<1>1. /\ after \in [Socks -> {"none", "connecting", "open", "closing"}]
      /\ shaken \in [Socks -> {"no", "asked", "failed", "yes"}]
      /\ Connect(None, FALSE, None, after, shaken, asked)
  BY DEF IInv, TypeOK
<1> HIDE DEF after
<1>2. BridgeOK'
  <2>1. None \in Socks \cup {None} /\ FALSE \in BOOLEAN
    OBVIOUS
  <2>. QED BY <1>1, <2>1, ConnectLeaves
<1>3. Pending \subseteq Abandoned /\ Abandoned \in SUBSET Calls
  BY DEF Abandoned, Pending, Calls
<1>. QED BY <1>2, <1>3, SettlingKeeps

\* The server link comes, closes and ends.
LEMMA ServerStep == ASSUME IInv, ServerUp \/ ServerCloses \/ ServerDown PROVE IInv'
<1>1. BridgeOK' /\ call' \in [Calls -> Call] /\ PendingOnCurrent'
  <2>1. CASE ServerUp
    BY <2>1, ConnectedKeeps, NobodySettled DEF ServerUp
  <2>2. CASE ServerCloses
    BY <2>2 DEF ServerCloses, bridge, BridgeOK, IInv, TypeOK, PendingOnCurrent, Pending
  <2>3. CASE ServerDown /\ gatewayWs = None
    BY <2>3, ConnectedKeeps, NobodySettled DEF ServerDown
  <2>4. CASE ServerDown /\ gatewayWs # None
    <3>1. gatewayWs \in Socks
      BY <2>4 DEF IInv, TypeOK
    <3>. QED BY <2>4, <3>1, LettingGoKeeps DEF ServerDown
  <2>. QED BY <2>1, <2>2, <2>3, <2>4
<1>. QED BY <1>1 DEF ServerUp, ServerCloses, ServerDown, IInv, TypeOK, BridgeOK

\* The close event of any socket.
LEMMA CloseEventStep == ASSUME IInv, NEW s \in Socks, CloseEvent(s) PROVE IInv'
<1>1. GoesOn(Abandoned, "failed") \in BOOLEAN
  BY DEF GoesOn
<1>2. BridgeOK' /\ call' \in [Calls -> Call] /\ PendingOnCurrent'
  BY <1>1, LettingGoKeeps DEF CloseEvent
<1>. QED BY <1>2 DEF CloseEvent, IInv, TypeOK, BridgeOK

\* The handshake and the socket's own life, but for its close event.
LEMMA SocketStep ==
  ASSUME IInv, NEW s \in Socks,
         \/ Opened(s) \/ ConnectRefused(s) \/ GatewayDrops(s)
         \/ \E ok \in BOOLEAN : Challenge(s, ok)
  PROVE  IInv'
<1>1. UNCHANGED <<server, gatewayWs, call, job, session, spared>>
  BY DEF Opened, ConnectRefused, GatewayDrops, Challenge, bridge
<1>2. BridgeOK
  BY DEF IInv, TypeOK, BridgeOK
<1>3. CASE Opened(s) \/ GatewayDrops(s)
  BY <1>2, <1>3 DEF Opened, GatewayDrops, bridge, BridgeOK, IInv, TypeOK, PendingOnCurrent, Pending
<1>4. CASE ConnectRefused(s)
  <2>1. BridgeOK'
    BY <1>2, <1>4 DEF ConnectRefused, BridgeOK
  <2>. QED BY <1>1, <2>1 DEF BridgeOK, IInv, TypeOK, PendingOnCurrent, Pending
<1>5. ASSUME NEW ok \in BOOLEAN, Challenge(s, ok) PROVE IInv'
  <2>1. BridgeOK'
    BY <1>2, <1>5 DEF Challenge, Requested, BridgeOK
  <2>. QED BY <1>1, <2>1 DEF BridgeOK, IInv, TypeOK, PendingOnCurrent, Pending
<1>. QED BY <1>3, <1>4, <1>5

\* The answer to the handshake keeps the socket.
LEMMA ConnectOkKeeps ==
  ASSUME IInv, NEW s \in Socks, ConnectOk(s)
  PROVE  BridgeOK' /\ (gatewayWs # None => gatewayWs' = gatewayWs)
<1> DEFINE sh == [shaken EXCEPT ![s] = "yes"]
<1>1. /\ sh \in [Socks -> {"no", "asked", "failed", "yes"}]
      /\ link \in [Socks -> {"none", "connecting", "open", "closing"}]
      /\ gatewayWs \in Socks \cup {None} /\ gatewayReady \in BOOLEAN
      /\ connectReq \in Socks \cup {None}
  BY DEF IInv, TypeOK
<1>2. PICK ready \in BOOLEAN, req \in Socks \cup {None}, asked \in BOOLEAN :
        Connect(gatewayWs, ready, req, link, sh, asked)
  BY <1>1 DEF ConnectOk
<1> HIDE DEF sh
<1>. QED BY <1>1, <1>2, ConnectLeaves

\* The answer to the handshake: an ensure may begin.
LEMMA ConnectOkStep == ASSUME IInv, NEW s \in Socks, ConnectOk(s) PROVE IInv'
<1>1. BridgeOK' /\ (gatewayWs # None => gatewayWs' = gatewayWs)
  BY ConnectOkKeeps
<1>2. call' \in [Calls -> Call] /\ PendingOnCurrent' /\ spared' \in [Ensures -> BOOLEAN]
  <2>1. CASE UNCHANGED <<call, spared>>
    BY <1>1, <2>1, NobodySettled DEF IInv, TypeOK
  <2>2. ASSUME NEW e \in Idlers, Begins(e)
        PROVE  call' \in [Calls -> Call] /\ PendingOnCurrent' /\ spared' \in [Ensures -> BOOLEAN]
    <3>1. e \in Calls
      BY DEF Idlers, Calls, Own
    <3>. QED BY <1>1, <2>2, <3>1, BeginningKeeps
  <2>. QED BY <2>1, <2>2 DEF ConnectOk
<1>. QED BY <1>1, <1>2 DEF ConnectOk, IInv, TypeOK, BridgeOK

\* Every step keeps the invariant.
LEMMA StepKeeps == IInv /\ [Next]_vars => IInv'
<1> SUFFICES ASSUME IInv, [Next]_vars PROVE IInv'
  OBVIOUS
<1>1. CASE SessionChanges
  BY <1>1 DEF SessionChanges, bridge, IInv, TypeOK, PendingOnCurrent, Pending
<1>2. ASSUME NEW s \in Socks,
             \/ Opened(s) \/ ConnectOk(s) \/ ConnectRefused(s) \/ GatewayDrops(s) \/ CloseEvent(s)
             \/ \E ok \in BOOLEAN : Challenge(s, ok)
      PROVE  IInv'
  BY <1>2, SocketStep, ConnectOkStep, CloseEventStep
<1>3. ASSUME NEW c \in Calls,
             \/ Start(c) \/ Send(c) \/ WaitFails(c) \/ Timeout(c)
             \/ Handle(c) \/ Answer(c) \/ AnswerLost(c) \/ TabGivesUp(c)
      PROVE  IInv'
  BY <1>3, StartStep, SendStep, GivesUpStep, HandleStep, AnswerStep, LossStep
<1>4. CASE UNCHANGED vars
  BY <1>4 DEF vars, bridge, IInv, TypeOK, PendingOnCurrent, Pending
<1>. QED BY <1>1, <1>2, <1>3, <1>4, ServerStep DEF Next

-----------------------------------------------------------------------------
(* The theorems *)

\* The invariant holds in every reachable state.
THEOREM Invariance == Spec => []IInv
  BY InitEstablishes, StepKeeps, PTL DEF Spec

\* Every variable keeps its type.
THEOREM TypeCorrect == Spec => []TypeOK
<1>1. IInv => TypeOK
  BY DEF IInv
<1>. QED BY <1>1, Invariance, PTL

\* Whatever the bridge awaits was asked on the gateway socket it has, for any
\* number of sockets and callers.
THEOREM AwaitsOnItsSocket == Spec => []PendingOnCurrent
<1>1. IInv => PendingOnCurrent
  BY DEF IInv
<1>. QED BY <1>1, Invariance, PTL

-----------------------------------------------------------------------------
(* GatewayKept *)

\* Only the end of the server link and the close event of a socket make the
\* bridge let go of the one it has.
LEMMA KeepsItsSocket ==
  ASSUME IInv, [Next]_vars, gatewayWs # None, gatewayWs' # gatewayWs
  PROVE  \/ link'[gatewayWs] = "closing"
         \/ \E s \in Socks : CloseEvent(s)
<1> SUFFICES ASSUME ~ \E s \in Socks : CloseEvent(s)
             PROVE  link'[gatewayWs] = "closing"
  OBVIOUS
<1>1. ASSUME NEW asked \in BOOLEAN, Connected(asked) PROVE FALSE
  BY <1>1, ConnectedKeeps
<1>2. ASSUME NEW c \in Calls, NEW o, Settle({c}, o) PROVE FALSE
  <2>1. GoesOn({c}, o) \in BOOLEAN
    BY DEF GoesOn
  <2>. QED BY <1>1, <1>2, <2>1 DEF Settle
<1>3. CASE SessionChanges \/ ServerUp \/ ServerCloses
  BY <1>1, <1>3 DEF SessionChanges, ServerUp, ServerCloses, bridge
<1>4. CASE ServerDown
  <2>1. Connect(None, FALSE, None, [link EXCEPT ![gatewayWs] = "closing"], shaken, FALSE)
    BY <1>4 DEF ServerDown
  <2>2. link' = [link EXCEPT ![gatewayWs] = "closing"]
    BY <2>1 DEF Connect
  <2>. QED BY <2>2 DEF IInv, TypeOK
<1>5. ASSUME NEW s \in Socks,
             \/ Opened(s) \/ ConnectRefused(s) \/ GatewayDrops(s)
             \/ \E ok \in BOOLEAN : Challenge(s, ok)
      PROVE  FALSE
  BY <1>5 DEF Opened, ConnectRefused, GatewayDrops, Challenge, bridge
<1>6. ASSUME NEW s \in Socks, ConnectOk(s) PROVE FALSE
  BY <1>6, ConnectOkKeeps
<1>7. ASSUME NEW c \in Calls,
             \/ Start(c) \/ Send(c) \/ WaitFails(c) \/ Timeout(c)
             \/ Handle(c) \/ Answer(c) \/ AnswerLost(c) \/ TabGivesUp(c)
      PROVE  FALSE
  <2>1. CASE Start(c)
    BY <1>1, <2>1 DEF Start
  <2>2. CASE WaitFails(c) \/ Timeout(c)
    BY <1>2, <2>2 DEF WaitFails, Timeout
  <2>3. CASE Answer(c)
    BY <1>1, <1>2, <2>3 DEF Answer
  <2>4. CASE Send(c) \/ Handle(c) \/ AnswerLost(c) \/ TabGivesUp(c)
    BY <2>4 DEF Send, Handle, AnswerLost, TabGivesUp, bridge
  <2>. QED BY <1>7, <2>1, <2>2, <2>3, <2>4
<1>8. CASE UNCHANGED vars
  BY <1>8 DEF vars, bridge
<1>. QED BY <1>3, <1>4, <1>5, <1>6, <1>7, <1>8 DEF Next

\* The bridge lets go of a socket that is not closing by the close event of a
\* former one only.
THEOREM LeftOnlyByStray == Spec => GatewayKept
<1>1. IInv /\ [Next]_vars =>
        [(gatewayWs # None /\ gatewayWs' # gatewayWs)
          => \/ link[gatewayWs] = "closing" \/ link'[gatewayWs] = "closing"
             \/ \E s \in Socks \ {gatewayWs} : CloseEvent(s)]_vars
  BY KeepsItsSocket DEF CloseEvent
<1>. QED BY <1>1, Invariance, PTL DEF Spec, GatewayKept

-----------------------------------------------------------------------------
(* NeverResetSpared *)

\* An ensure whose agent has had its session since it began neither asks for a
\* reset nor is about to, nor is there an answer that would make it ask.
NoResetAhead(e) ==
    /\ spared[e] => session
    /\ spared[e] /\ call[e].stage # "idle" => call[e].method # "reset"
    /\ spared[e] /\ job[e].state # "none" => job[e].method # "reset"
    /\ SaysMissing(job[e].state) => ~spared[e]
ResetsUnspared == \A e \in Ensures : NoResetAhead(e)

SInv == IInv /\ ResetsUnspared

\* What the gateway has been asked is as it was, or done, or goes on.
SameJob(e) ==
    \/ job'[e] = job[e]
    \/ job'[e].state = "none"
    \/ /\ job[e].state # "none" /\ job'[e].state = "running"
       /\ job'[e].method = job[e].method

\* A settled call asks for a reset only if the gateway says that there is no
\* session.
LEMMA SettledMethods ==
  ASSUME NEW C \in SUBSET Calls, NEW o, call' = CallsAfter(C, o), NEW c \in Calls
  PROVE  \/ c \notin C /\ call'[c] = call[c]
         \/ c \in C /\ (call'[c].stage = "idle" \/ SaysMissing(o) \/ call'[c].method # "reset")
<1> DEFINE m == NextMethod(call[c].method, o)
<1>1. call'[c] = IF c \notin C THEN call[c]
                 ELSE IF m = None \/ gatewayWs' = None THEN Idle ELSE Waiting(m, gatewayWs')
  BY DEF CallsAfter
<1>2. Idle.stage = "idle" /\ Waiting(m, gatewayWs').method = m
  BY DEF Idle, Waiting
<1>3. m = None \/ SaysMissing(o) \/ m # "reset"
  BY DEF NextMethod
<1> HIDE DEF m
<1>. QED BY <1>1, <1>2, <1>3

\* Settling keeps the resets away from a session that is there.
LEMMA SettlingSpares ==
  ASSUME SInv, NEW C \in SUBSET Calls, NEW o, call' = CallsAfter(C, o),
         UNCHANGED <<session, spared>>, \A e \in Ensures : SameJob(e),
         \A e \in C \cap Ensures : SaysMissing(o) => ~spared[e]
  PROVE  ResetsUnspared'
<1> SUFFICES ASSUME NEW e \in Ensures PROVE NoResetAhead(e)'
  BY DEF ResetsUnspared
<1>1. e \in Calls /\ NoResetAhead(e) /\ SameJob(e)
  BY DEF SInv, ResetsUnspared, Calls, Own
<1>2. \/ e \notin C /\ call'[e] = call[e]
      \/ e \in C /\ (call'[e].stage = "idle" \/ SaysMissing(o) \/ call'[e].method # "reset")
  BY <1>1, SettledMethods
<1>. QED BY <1>1, <1>2 DEF NoResetAhead, SameJob, SaysMissing

\* A step that does not touch the calls but by ending them.
LEMMA IdlingSpares ==
  ASSUME SInv, UNCHANGED <<session, spared>>,
         \A e \in Ensures : SameJob(e) /\ (call'[e].stage = "idle"
              \/ (call'[e].stage = call[e].stage /\ call'[e].method = call[e].method)
              \/ (call[e].stage # "idle" /\ call'[e].method = call[e].method))
  PROVE  ResetsUnspared'
  BY DEF SInv, ResetsUnspared, NoResetAhead, SameJob, SaysMissing

\* An ensure that begins asks for the list first.
LEMMA BeginningSpares ==
  ASSUME SInv, UNCHANGED <<job, session>>, NEW c \in Calls, Begins(c), job[c].state = "none"
  PROVE  ResetsUnspared'
<1> SUFFICES ASSUME NEW e \in Ensures PROVE NoResetAhead(e)'
  BY DEF ResetsUnspared
<1>1. e \in Calls /\ NoResetAhead(e) /\ call \in [Calls -> Call] /\ spared \in [Ensures -> BOOLEAN]
  BY DEF SInv, IInv, TypeOK, ResetsUnspared, Calls, Own
<1>2. CASE e # c
  BY <1>1, <1>2 DEF Begins, NoResetAhead
<1>3. CASE e = c
  <2>1. call'[e].stage = "idle" \/ call'[e].method = "list"
    <3>1. call'[e] = IF gatewayWs' = None THEN Idle ELSE Waiting(FirstMethod(e), gatewayWs')
      BY <1>1, <1>3 DEF Begins
    <3>2. FirstMethod(e) = "list" /\ Idle.stage = "idle"
      BY GatewayAssumption DEF FirstMethod, Idle
    <3>3. Waiting("list", gatewayWs').method = "list"
      BY DEF Waiting, Idle
    <3>. QED BY <3>1, <3>2, <3>3
  <2>2. spared'[e] = session
    BY <1>1, <1>3 DEF Begins
  <2>. QED BY <1>1, <1>3, <2>1, <2>2 DEF NoResetAhead, SaysMissing
<1>. QED BY <1>2, <1>3

\* The gateway says that there is no session only if there is none.
LEMMA HandleSpares == ASSUME SInv, NEW c \in Calls, Handle(c) PROVE ResetsUnspared'
<1> SUFFICES ASSUME NEW e \in Ensures PROVE NoResetAhead(e)'
  BY DEF ResetsUnspared
<1>1. /\ e \in Calls /\ NoResetAhead(e)
      /\ job \in [Calls -> Job] /\ job[c] \in Job /\ spared \in [Ensures -> BOOLEAN]
  BY DEF SInv, IInv, TypeOK, ResetsUnspared, Calls, Own
<1>2. CASE job' = [job EXCEPT ![c].state = "refused"]
           /\ spared' = [d \in Ensures |-> spared[d] /\ d # c] /\ UNCHANGED session
  BY <1>1, <1>2 DEF Handle, NoResetAhead, SaysMissing, Job
<1>3. CASE /\ UNCHANGED spared
           /\ session' = (session \/ job[c].method = "reset")
           /\ job' = [job EXCEPT ![c].state =
                        CASE job[c].method = "resolve" /\ ~session -> "missing"
                          [] job[c].method = "agent" /\ job[c].state = "asked" -> "accepted"
                          [] OTHER -> "ok"]
  <2>1. call' = call /\ (spared[e] => session')
    BY <1>1, <1>3 DEF Handle, NoResetAhead
  <2>2. job[c].state # "none" /\ job'[e].method = job[e].method
    BY <1>1, <1>3 DEF Handle, Job
  <2>3. CASE e # c
    BY <1>1, <1>3, <2>1, <2>3 DEF NoResetAhead
  <2>4. CASE e = c
    <3>1. SaysMissing(job'[e].state) => ~session
      BY <1>1, <1>3, <2>4 DEF SaysMissing, Job
    <3>. QED BY <1>1, <1>3, <2>1, <2>2, <2>4, <3>1 DEF NoResetAhead
  <2>. QED BY <2>3, <2>4
<1>. QED BY <1>2, <1>3 DEF Handle

\* A request for a reset is sent by a call that is to ask for one.
LEMMA SendSpares == ASSUME SInv, NEW c \in Calls, Send(c) PROVE ResetsUnspared'
<1> SUFFICES ASSUME NEW e \in Ensures PROVE NoResetAhead(e)'
  BY DEF ResetsUnspared
<1>1. /\ e \in Calls /\ NoResetAhead(e)
      /\ job \in [Calls -> Job] /\ call \in [Calls -> Call] /\ call[c] \in Call
  BY DEF SInv, IInv, TypeOK, ResetsUnspared, Calls, Own
<1>. QED BY <1>1 DEF Send, NoResetAhead, SaysMissing, Call

\* An answer leads to a reset only if it says that there is no session.
LEMMA AnswerSpares == ASSUME SInv, NEW c \in Calls, Answer(c) PROVE ResetsUnspared'
<1>1. job[c] \in Job /\ job \in [Calls -> Job] /\ call \in [Calls -> Call] /\ call[c] \in Call
  BY DEF SInv, IInv, TypeOK
<1>2. \A e \in Ensures : e \in Calls /\ SameJob(e)
  <2>1. NoJob.state = "none"
    BY DEF NoJob
  <2>. QED BY <1>1, <2>1 DEF Answer, SameJob, Calls, Own, Job
<1>3. CASE c \notin Pending
  <2>1. call' = call \/ call' = [call EXCEPT ![c] = Idle]
    BY <1>3 DEF Answer
  <2>2. Idle.stage = "idle"
    BY DEF Idle
  <2>. QED BY <1>1, <1>2, <2>1, <2>2, IdlingSpares DEF Answer
<1>4. CASE c \in Pending /\ job[c].state = "accepted" /\ ~call[c].accepted
  <2>1. call' = [call EXCEPT ![c].accepted = TRUE]
    BY <1>4 DEF Answer
  <2>2. \A e \in Calls : call'[e].stage = call[e].stage /\ call'[e].method = call[e].method
    BY <1>1, <2>1 DEF Call
  <2>. QED BY <1>2, <2>2, IdlingSpares DEF Answer
<1>5. CASE c \in Pending /\ ~(job[c].state = "accepted" /\ ~call[c].accepted)
  <2>1. call' = CallsAfter({c}, job[c].state)
    BY <1>5 DEF Answer, Settle
  <2>2. \A e \in {c} \cap Ensures : SaysMissing(job[c].state) => ~spared[e]
    BY DEF SInv, ResetsUnspared, NoResetAhead
  <2>. QED BY <1>2, <2>1, <2>2, SettlingSpares DEF Answer
<1>. QED BY <1>3, <1>4, <1>5

\* What fails or gets lost leads to no reset.
LEMMA FailureSpares ==
  ASSUME SInv, UNCHANGED <<job, session, spared>>, NEW C \in SUBSET Calls,
         call' = CallsAfter(C, "failed")
  PROVE  ResetsUnspared'
  BY SettlingSpares DEF SameJob, SaysMissing

\* Every step keeps resets away from a session that is there.
LEMMA StepSpares == SInv /\ [Next]_vars => SInv'
<1> SUFFICES ASSUME SInv, [Next]_vars PROVE ResetsUnspared'
  BY StepKeeps DEF SInv
<1>1. Abandoned \in SUBSET Calls
  BY DEF Abandoned, Pending, Calls
<1>2. CASE UNCHANGED <<call, job, session, spared>>
  BY <1>2 DEF SInv, ResetsUnspared, NoResetAhead
<1>3. CASE SessionChanges
  BY <1>3 DEF SessionChanges, SInv, IInv, TypeOK, ResetsUnspared, NoResetAhead
<1>4. CASE ServerUp \/ ServerCloses
  BY <1>2, <1>4 DEF ServerUp, ServerCloses
<1>5. CASE ServerDown
  BY <1>1, <1>2, <1>5, FailureSpares DEF ServerDown
<1>6. ASSUME NEW s \in Socks,
             \/ Opened(s) \/ ConnectRefused(s) \/ GatewayDrops(s)
             \/ \E ok \in BOOLEAN : Challenge(s, ok)
      PROVE  ResetsUnspared'
  BY <1>2, <1>6 DEF Opened, ConnectRefused, GatewayDrops, Challenge
<1>7. ASSUME NEW s \in Socks, CloseEvent(s) PROVE ResetsUnspared'
  BY <1>1, <1>7, FailureSpares DEF CloseEvent
<1>8. ASSUME NEW s \in Socks, ConnectOk(s) PROVE ResetsUnspared'
  <2>1. CASE UNCHANGED <<call, spared>>
    BY <1>2, <1>8, <2>1 DEF ConnectOk
  <2>2. ASSUME NEW e \in Idlers, Begins(e) PROVE ResetsUnspared'
    BY <1>8, <2>2, BeginningSpares DEF ConnectOk, Idlers, Calls, Own
  <2>. QED BY <1>8, <2>1, <2>2 DEF ConnectOk
<1>9. ASSUME NEW c \in Calls,
             \/ Start(c) \/ Send(c) \/ WaitFails(c) \/ Timeout(c)
             \/ Handle(c) \/ Answer(c) \/ AnswerLost(c) \/ TabGivesUp(c)
      PROVE  ResetsUnspared'
  <2>1. CASE Start(c)
    BY <2>1, BeginningSpares DEF Start
  <2>2. CASE WaitFails(c) \/ Timeout(c)
    BY <2>2, FailureSpares DEF WaitFails, Timeout, Settle
  <2>3. CASE AnswerLost(c) \/ TabGivesUp(c)
    <3>1. Idle.stage = "idle" /\ NoJob.state = "none"
      BY DEF Idle, NoJob
    <3>2. call' = call \/ call' = [call EXCEPT ![c] = Idle]
      BY <2>3 DEF AnswerLost, TabGivesUp
    <3>3. job' = job \/ job' = [job EXCEPT ![c] = NoJob]
      BY <2>3 DEF AnswerLost, TabGivesUp
    <3>4. \A e \in Ensures : SameJob(e) /\ (call'[e].stage = "idle" \/ call'[e] = call[e])
      BY <3>1, <3>2, <3>3 DEF SameJob, SInv, IInv, TypeOK, Calls, Own
    <3>. QED BY <2>3, <3>4, IdlingSpares DEF AnswerLost, TabGivesUp
  <2>. QED BY <1>9, <2>1, <2>2, <2>3, SendSpares, HandleSpares, AnswerSpares
<1>10. CASE UNCHANGED vars
  BY <1>2, <1>10 DEF vars
<1>. QED BY <1>3, <1>4, <1>5, <1>6, <1>7, <1>8, <1>9, <1>10 DEF Next

\* No ensure that the gateway has answered throughout resets a session that was
\* there all the time.
THEOREM SparedForEver == Spec => NeverResetSpared
<1>1. Init => SInv
  BY InitEstablishes DEF SInv, ResetsUnspared, NoResetAhead, Init, SaysMissing, NoJob, Idle,
     Calls, Own
<1>2. SInv /\ [Next]_vars =>
        [\A e \in Ensures : Handle(e) /\ job[e].method = "reset" /\ session' => ~spared'[e]]_vars
  <2> SUFFICES ASSUME SInv, NEW e \in Ensures, Handle(e), job[e].method = "reset"
               PROVE  ~spared'[e]
    OBVIOUS
  <2>1. job[e].state # "none"
    BY DEF Handle
  <2>2. spared' = spared \/ spared' = [d \in Ensures |-> spared[d] /\ d # e]
    BY DEF Handle
  <2>. QED BY <2>1, <2>2 DEF SInv, ResetsUnspared, NoResetAhead
<1>. QED BY <1>1, <1>2, StepSpares, PTL DEF Spec, NeverResetSpared

-----------------------------------------------------------------------------
(* DeafOnlyByStray *)

\* There is no handshake before there is a connection.
Unshaken == \A s \in Socks : link[s] = "connecting" => shaken[s] = "no"

DInv == IInv /\ Unshaken

\* Connecting makes a socket of its own, or leaves all as it is told.
LEMMA ConnectMakes ==
  ASSUME NEW w, NEW ready, NEW req, NEW lk, NEW sh, NEW asked,
         Connect(w, ready, req, lk, sh, asked)
  PROVE  \/ /\ w = None /\ gatewayWs' \in Socks
            /\ link' = [lk EXCEPT ![gatewayWs'] = "connecting"]
            /\ shaken' = [sh EXCEPT ![gatewayWs'] = "no"]
         \/ /\ gatewayWs' = w /\ gatewayReady' = ready /\ connectReq' = req
            /\ link' = lk /\ shaken' = sh
  BY DEF Connect, Missing, Free

\* Connecting with a handshake that was not there before it was connected.
LEMMA ConnectUnshaken ==
  ASSUME NEW w, NEW ready, NEW req, NEW asked,
         NEW lk \in [Socks -> {"none", "connecting", "open", "closing"}],
         NEW sh \in [Socks -> {"no", "asked", "failed", "yes"}],
         \A s \in Socks : lk[s] = "connecting" => sh[s] = "no",
         Connect(w, ready, req, lk, sh, asked)
  PROVE  Unshaken'
  BY ConnectMakes DEF Unshaken

\* A step that connects at most, with what the bridge has.
LEMMA ConnectedHears ==
  ASSUME DInv, NEW asked, Connected(asked)
  PROVE  Unshaken' /\ (Deaf' => Deaf)
<1>1. Connect(gatewayWs, gatewayReady, connectReq, link, shaken, asked)
  BY DEF Connected
<1>2. Unshaken'
  BY <1>1, ConnectUnshaken DEF DInv, IInv, TypeOK, Unshaken
<1>3. ASSUME Deaf' PROVE Deaf
  BY <1>1, <1>3, ConnectMakes DEF DInv, IInv, TypeOK, Deaf
<1>. QED BY <1>2, <1>3

\* The bridge that has let go of its socket has none, or one that connects.
LEMMA LettingGoHears ==
  ASSUME DInv, NEW s \in Socks, NEW lk \in {"none", "closing"}, NEW asked,
         Connect(None, FALSE, None, [link EXCEPT ![s] = lk], shaken, asked)
  PROVE  Unshaken' /\ ~Deaf'
<1> DEFINE after == [link EXCEPT ![s] = lk]
<1>1. /\ after \in [Socks -> {"none", "connecting", "open", "closing"}]
      /\ \A r \in Socks : after[r] = "connecting" => shaken[r] = "no"
      /\ shaken \in [Socks -> {"no", "asked", "failed", "yes"}]
      /\ Connect(None, FALSE, None, after, shaken, asked)
  BY DEF DInv, IInv, TypeOK, Unshaken
<1> HIDE DEF after
<1>2. Unshaken'
  BY <1>1, ConnectUnshaken
<1>3. gatewayWs' = None \/ (gatewayWs' \in Socks /\ link' = [after EXCEPT ![gatewayWs'] = "connecting"])
  BY <1>1, ConnectMakes
<1>. QED BY <1>1, <1>2, <1>3 DEF Deaf

\* The handshake of a socket: the bridge is deaf to its own by that of another.
LEMMA HandshakeHears ==
  ASSUME DInv, NEW s \in Socks,
         \/ Opened(s) \/ ConnectRefused(s) \/ GatewayDrops(s)
         \/ \E ok \in BOOLEAN : Challenge(s, ok)
  PROVE  Unshaken' /\ (Deaf' => Deaf \/ (s # gatewayWs /\ link[s] = "open"))
<1>1. CASE Opened(s) \/ GatewayDrops(s)
  BY <1>1 DEF Opened, GatewayDrops, bridge, DInv, IInv, TypeOK, Unshaken, Deaf
<1>2. CASE ConnectRefused(s)
  BY <1>2 DEF ConnectRefused, DInv, IInv, TypeOK, Unshaken, Deaf
<1>3. CASE \E ok \in BOOLEAN : Challenge(s, ok)
  BY <1>3 DEF Challenge, Requested, DInv, IInv, TypeOK, Unshaken, Deaf
<1>. QED BY <1>1, <1>2, <1>3

\* The answer to the handshake makes the bridge ready, if it awaits it.
LEMMA ConnectOkHears ==
  ASSUME DInv, NEW s \in Socks, ConnectOk(s)
  PROVE  Unshaken' /\ (Deaf' => Deaf \/ (s # gatewayWs /\ link[s] = "open"))
<1> DEFINE sh == [shaken EXCEPT ![s] = "yes"]
<1>1. PICK ready \in BOOLEAN, req \in Socks \cup {None}, asked \in BOOLEAN :
        /\ Connect(gatewayWs, ready, req, link, sh, asked)
        /\ connectReq = s => ready
        /\ connectReq # s => ready = gatewayReady /\ req = connectReq
  BY DEF ConnectOk, DInv, IInv, TypeOK
<1>2. /\ sh \in [Socks -> {"no", "asked", "failed", "yes"}]
      /\ link \in [Socks -> {"none", "connecting", "open", "closing"}]
      /\ sh[s] = "yes" /\ (\A r \in Socks \ {s} : sh[r] = shaken[r])
      /\ link[s] = "open" /\ shaken[s] = "asked"
  BY DEF ConnectOk, DInv, IInv, TypeOK
<1> HIDE DEF sh
<1>3. Unshaken'
  BY <1>1, <1>2, ConnectUnshaken DEF DInv, Unshaken
<1>4. CASE s # gatewayWs
  BY <1>2, <1>3, <1>4
<1>5. CASE s = gatewayWs /\ connectReq # s
  BY <1>2, <1>3, <1>5, GatewayAssumption DEF Deaf
<1>6. CASE s = gatewayWs /\ connectReq = s
  <2>1. gatewayWs' = gatewayWs /\ gatewayReady' = ready /\ link' = link /\ shaken' = sh
    BY <1>1, <1>6, ConnectMakes, GatewayAssumption
  <2>. QED BY <1>1, <1>2, <1>3, <1>6, <2>1 DEF Deaf
<1>. QED BY <1>4, <1>5, <1>6

\* Every step keeps the handshakes apart from the connecting, and makes the
\* bridge deaf only by another socket that is open.
LEMMA StepHears ==
  DInv /\ [Next]_vars => DInv' /\ (Deaf' => Deaf \/ \E s \in Socks \ {gatewayWs} : link[s] = "open")
<1> SUFFICES ASSUME DInv, [Next]_vars
             PROVE  /\ Unshaken'
                    /\ Deaf' => Deaf \/ \E s \in Socks \ {gatewayWs} : link[s] = "open"
  BY StepKeeps DEF DInv
<1>1. ASSUME UNCHANGED <<link, shaken, bridge>> PROVE Unshaken' /\ (Deaf' => Deaf)
  BY <1>1 DEF bridge, DInv, Unshaken, Deaf
<1>2. CASE SessionChanges \/ ServerCloses \/ UNCHANGED vars
  BY <1>1, <1>2 DEF SessionChanges, ServerCloses, vars
<1>3. CASE ServerUp
  BY <1>3, ConnectedHears DEF ServerUp
<1>4. CASE ServerDown
  <2>1. CASE gatewayWs = None
    BY <1>4, <2>1, ConnectedHears DEF ServerDown
  <2>2. CASE gatewayWs # None
    <3>1. gatewayWs \in Socks
      BY <2>2 DEF DInv, IInv, TypeOK
    <3>. QED BY <1>4, <2>2, <3>1, LettingGoHears DEF ServerDown
  <2>. QED BY <2>1, <2>2
<1>5. ASSUME NEW s \in Socks, CloseEvent(s) PROVE Unshaken' /\ ~Deaf'
  BY <1>5, LettingGoHears DEF CloseEvent
<1>6. ASSUME NEW s \in Socks,
             \/ Opened(s) \/ ConnectOk(s) \/ ConnectRefused(s) \/ GatewayDrops(s)
             \/ \E ok \in BOOLEAN : Challenge(s, ok)
      PROVE  Unshaken' /\ (Deaf' => Deaf \/ (s # gatewayWs /\ link[s] = "open"))
  BY <1>6, HandshakeHears, ConnectOkHears
<1>7. ASSUME NEW c \in Calls,
             \/ Start(c) \/ Send(c) \/ WaitFails(c) \/ Timeout(c)
             \/ Handle(c) \/ Answer(c) \/ AnswerLost(c) \/ TabGivesUp(c)
      PROVE  Unshaken' /\ (Deaf' => Deaf)
  <2>1. CASE Send(c) \/ Handle(c) \/ AnswerLost(c) \/ TabGivesUp(c)
    BY <1>1, <2>1 DEF Send, Handle, AnswerLost, TabGivesUp
  <2>2. CASE Start(c) \/ WaitFails(c) \/ Timeout(c)
    BY <2>2, ConnectedHears DEF Start, WaitFails, Timeout, Settle
  <2>3. CASE Answer(c)
    BY <2>3, ConnectedHears DEF Answer, Settle
  <2>. QED BY <1>7, <2>1, <2>2, <2>3
<1>. QED BY <1>2, <1>3, <1>4, <1>5, <1>6, <1>7 DEF Next

\* The bridge hears out a handshake under way and is ready then, as long as
\* there is no socket open but its own.
THEOREM DeafByAnother == Spec => DeafOnlyByStray
<1>1. Init => DInv
  BY InitEstablishes DEF DInv, Unshaken, Init
<1>2. DInv /\ [Next]_vars =>
        [(~Deaf /\ Deaf') => \E s \in Socks \ {gatewayWs} : link[s] = "open"]_vars
  BY StepHears
<1>. QED BY <1>1, <1>2, StepHears, PTL DEF Spec, DeafOnlyByStray

-----------------------------------------------------------------------------
(* WebRtcPeer: the invariant *)

\* A connection that is not forgotten has its connId, and no channel before it
\* is up.
PcWhole ==
    \A p \in Peer!Pcs :
        /\ pc[p] # Peer!NoPc => pc[p].conn \in Conns /\ pc[p].state # "none"
        /\ pc[p].channel = "open" => pc[p].state # "new"

\* A session's connection is its own, and neither closed nor of a former
\* WebRtcPeer.
Held ==
    \A c \in Conns : sessions[c] # None =>
        /\ pc[sessions[c]].conn = c /\ ~pc[sessions[c]].former
        /\ pc[sessions[c]].state \in {"new", "up"}

\* An offer in progress: the connection that it has built is its own and not
\* up yet, or is forgotten.
Tasked ==
    \A t \in Tasks :
        /\ task[t].step # "idle" => task[t].conn \in Conns
        /\ task[t].step = "idle" => ~task[t].former
        /\ task[t].step \in {"restart", "sdp"} => task[t].pc \in Peer!Pcs
        /\ task[t].step = "sdp" =>
             \/ pc[task[t].pc] = Peer!NoPc
             \/ pc[task[t].pc].conn = task[t].conn /\ pc[task[t].pc].state = "new"

PeerInv == Peer!TypeOK /\ PcWhole /\ Held /\ Tasked

\* At the start there is nothing.
LEMMA PeerInit == Peer!Init => PeerInv
<1> SUFFICES ASSUME Peer!Init PROVE PeerInv
  OBVIOUS
<1>1. Peer!NoPc \in Peer!Pc /\ Peer!Idle \in Peer!Task
  BY DEF Peer!NoPc, Peer!Pc, Peer!Idle, Peer!Task
<1>2. Peer!TypeOK
  BY <1>1 DEF Peer!Init, Peer!TypeOK
<1>. QED BY <1>2 DEF Peer!Init, Peer!NoPc, Peer!Idle, PeerInv, PcWhole, Held, Tasked

\* Closing a session closes its connection, and changes nothing else.
LEMMA CloseKeeps ==
  ASSUME PeerInv, NEW c \in Conns, Peer!CloseSession(c)
  PROVE  /\ sessions' = [sessions EXCEPT ![c] = None]
         /\ pc' \in [Peer!Pcs -> Peer!Pc]
         /\ \A p \in Peer!Pcs :
              \/ pc'[p] = pc[p] /\ p # sessions[c]
              \/ p = sessions[c] /\ (pc'[p] = Peer!NoPc
                                       \/ (pc'[p] = [pc[p] EXCEPT !.state = "closed"] /\ pc[p].channel = "open"))
<1>1. Peer!NoPc \in Peer!Pc
  BY DEF Peer!NoPc, Peer!Pc
<1>2. \A p \in Peer!Pcs : pc[p] \in Peer!Pc /\ [pc[p] EXCEPT !.state = "closed"] \in Peer!Pc
  BY DEF PeerInv, Peer!TypeOK, Peer!Pc
<1>3. sessions[c] \in Peer!Pcs \cup {None} /\ None \notin Peer!Pcs
  BY PeerAssumption DEF PeerInv, Peer!TypeOK
<1>. QED BY <1>1, <1>2, <1>3 DEF Peer!CloseSession, Peer!ClosedPc, Peer!Ended, PeerInv, Peer!TypeOK

\* A task that goes on as it was does so with a connection that is forgotten,
\* or new still; and one without a connection does as well.
LEMMA TaskedGoesOn ==
  ASSUME PeerInv,
         \A p \in Peer!Pcs :
           /\ pc[p] = Peer!NoPc => pc'[p] = Peer!NoPc
           /\ pc[p].state = "new" =>
                pc'[p] = Peer!NoPc \/ (pc'[p].state = "new" /\ pc'[p].conn = pc[p].conn),
         \A t \in Tasks :
           \/ /\ task'[t].step = task[t].step /\ task'[t].conn = task[t].conn
              /\ task'[t].pc = task[t].pc /\ (task[t].step = "idle" => ~task'[t].former)
           \/ task'[t].step \in {"close", "reclose"} /\ task'[t].conn \in Conns
           \/ task'[t] = Peer!Idle
  PROVE  Tasked'
<1> SUFFICES ASSUME NEW t \in Tasks
             PROVE  /\ task'[t].step # "idle" => task'[t].conn \in Conns
                    /\ task'[t].step = "idle" => ~task'[t].former
                    /\ task'[t].step \in {"restart", "sdp"} => task'[t].pc \in Peer!Pcs
                    /\ task'[t].step = "sdp" =>
                         \/ pc'[task'[t].pc] = Peer!NoPc
                         \/ pc'[task'[t].pc].conn = task'[t].conn /\ pc'[task'[t].pc].state = "new"
  BY DEF Tasked
<1>1. /\ task[t].step # "idle" => task[t].conn \in Conns
      /\ task[t].step \in {"restart", "sdp"} => task[t].pc \in Peer!Pcs
      /\ task[t].step = "sdp" =>
           \/ pc[task[t].pc] = Peer!NoPc
           \/ pc[task[t].pc].conn = task[t].conn /\ pc[task[t].pc].state = "new"
  BY DEF PeerInv, Tasked
<1>2. CASE /\ task'[t].step = task[t].step /\ task'[t].conn = task[t].conn
           /\ task'[t].pc = task[t].pc /\ (task[t].step = "idle" => ~task'[t].former)
  BY <1>1, <1>2
<1>3. CASE task'[t].step \in {"close", "reclose"} /\ task'[t].conn \in Conns
  BY <1>3
<1>4. CASE task'[t] = Peer!Idle
  BY <1>4 DEF Peer!Idle
<1>. QED BY <1>2, <1>3, <1>4

\* Tasks of which none is new, but for a change of its step.
LEMMA ClosingInv ==
  ASSUME PeerInv, NEW c \in Conns, Peer!CloseSession(c),
         task' \in [Tasks -> Peer!Task],
         \A t \in Tasks :
           \/ task'[t] = task[t]
           \/ task'[t].step \in {"close", "reclose"} /\ task'[t].conn \in Conns
  PROVE  PeerInv'
<1>1. /\ sessions' = [sessions EXCEPT ![c] = None]
      /\ pc' \in [Peer!Pcs -> Peer!Pc]
      /\ \A p \in Peer!Pcs :
           \/ pc'[p] = pc[p] /\ p # sessions[c]
           \/ p = sessions[c] /\ (pc'[p] = Peer!NoPc
                                    \/ (pc'[p] = [pc[p] EXCEPT !.state = "closed"] /\ pc[p].channel = "open"))
  BY CloseKeeps
<1>2. /\ sessions \in [Conns -> Peer!Pcs \cup {None}] /\ pc \in [Peer!Pcs -> Peer!Pc]
      /\ None \notin Peer!Pcs
  BY PeerAssumption DEF PeerInv, Peer!TypeOK
<1>3. Peer!TypeOK'
  BY <1>1, <1>2 DEF Peer!TypeOK
<1>4. PcWhole'
  BY <1>1, <1>2 DEF PeerInv, PcWhole, Peer!NoPc, Peer!Pc
<1>5. Held'
  BY <1>1, <1>2 DEF PeerInv, Held
<1>6. Tasked'
  <2>1. \A p \in Peer!Pcs :
           /\ pc[p] = Peer!NoPc => pc'[p] = Peer!NoPc
           /\ pc[p].state = "new" => pc'[p] = Peer!NoPc \/ pc'[p] = pc[p]
    BY <1>1 DEF PeerInv, PcWhole, Peer!NoPc
  <2>2. \A t \in Tasks : task[t].step = "idle" => ~task[t].former
    BY DEF PeerInv, Tasked
  <2>. QED BY <2>1, <2>2, TaskedGoesOn
<1>. QED BY <1>3, <1>4, <1>5, <1>6 DEF PeerInv

\* A new connection takes the place of one that is forgotten.
LEMMA BuildKeeps ==
  ASSUME PeerInv, NEW t \in Tasks, NEW c \in Conns, Peer!Build(t, c)
  PROVE  \E p \in Peer!Pcs, new \in Peer!Pc, todo \in Peer!Task :
           /\ pc[p] = Peer!NoPc /\ \A u \in Tasks : task[u].pc # p
           /\ pc' = [pc EXCEPT ![p] = new] /\ task' = [task EXCEPT ![t] = todo]
           /\ sessions' = IF task[t].former THEN sessions ELSE [sessions EXCEPT ![c] = p]
           /\ new.conn = c /\ new.state = "new" /\ new.channel = "none"
           /\ new.former = task[t].former
           /\ todo.step = "sdp" /\ todo.conn = c /\ todo.pc = p /\ todo.former = task[t].former
<1>1. task[t].former \in BOOLEAN
  BY DEF PeerInv, Peer!TypeOK, Peer!Task
<1>2. PICK p \in Peer!Pcs :
        /\ Peer!Free(p)
        /\ pc' = [pc EXCEPT ![p] = [Peer!NoPc EXCEPT !.conn = c, !.state = "new", !.former = task[t].former]]
        /\ sessions' = IF task[t].former THEN sessions ELSE [sessions EXCEPT ![c] = p]
        /\ task' = [task EXCEPT ![t] = [Peer!Awaits("sdp", c, p) EXCEPT !.former = task[t].former]]
  BY DEF Peer!Build
<1> DEFINE new == [Peer!NoPc EXCEPT !.conn = c, !.state = "new", !.former = task[t].former]
           todo == [Peer!Awaits("sdp", c, p) EXCEPT !.former = task[t].former]
<1>3. /\ new \in Peer!Pc /\ new.conn = c /\ new.state = "new" /\ new.channel = "none"
      /\ new.former = task[t].former
  BY <1>1 DEF Peer!NoPc, Peer!Pc
<1>4. /\ todo \in Peer!Task /\ todo.step = "sdp" /\ todo.conn = c /\ todo.pc = p
      /\ todo.former = task[t].former
  BY <1>1 DEF Peer!Awaits, Peer!Idle, Peer!Task
<1> HIDE DEF new, todo
<1>. QED BY <1>2, <1>3, <1>4 DEF new, todo, Peer!Free

LEMMA BuildInv ==
  ASSUME PeerInv, NEW t \in Tasks, NEW c \in Conns, Peer!Build(t, c)
  PROVE  PeerInv'
<1>1. PICK p \in Peer!Pcs, new \in Peer!Pc, todo \in Peer!Task :
        /\ pc[p] = Peer!NoPc /\ \A u \in Tasks : task[u].pc # p
        /\ pc' = [pc EXCEPT ![p] = new] /\ task' = [task EXCEPT ![t] = todo]
        /\ sessions' = IF task[t].former THEN sessions ELSE [sessions EXCEPT ![c] = p]
        /\ new.conn = c /\ new.state = "new" /\ new.channel = "none"
        /\ new.former = task[t].former
        /\ todo.step = "sdp" /\ todo.conn = c /\ todo.pc = p /\ todo.former = task[t].former
  BY BuildKeeps
<1>2. /\ sessions \in [Conns -> Peer!Pcs \cup {None}] /\ pc \in [Peer!Pcs -> Peer!Pc]
      /\ task \in [Tasks -> Peer!Task] /\ None \notin Peer!Pcs
      /\ task[t].former \in BOOLEAN
  BY PeerAssumption DEF PeerInv, Peer!TypeOK, Peer!Task
<1>5. Peer!TypeOK'
  BY <1>1, <1>2 DEF Peer!TypeOK
<1>6. PcWhole'
  BY <1>1, <1>2 DEF PeerInv, PcWhole
<1>7. Held'
  <2>1. \A d \in Conns : sessions[d] # p
    BY <1>1, <1>2, PeerAssumption DEF PeerInv, Held, Peer!NoPc
  <2>. QED BY <1>1, <1>2, <2>1 DEF PeerInv, Held
<1>8. Tasked'
  BY <1>1, <1>2 DEF PeerInv, Tasked
<1>. QED BY <1>5, <1>6, <1>7, <1>8 DEF PeerInv

\* A step of the tasks that leaves the connections alone, and goes on with none.
LEMMA TaskInv ==
  ASSUME PeerInv, UNCHANGED <<sessions, pc>>, task' \in [Tasks -> Peer!Task],
         \A t \in Tasks :
           \/ task'[t] = task[t]
           \/ task'[t] = Peer!Idle
           \/ task'[t].step \in {"reclose", "restart"} /\ task'[t].conn \in Conns
                /\ (task'[t].step = "restart" => task'[t].pc \in Peer!Pcs)
  PROVE  PeerInv'
  BY DEF PeerInv, Peer!TypeOK, PcWhole, Held, Tasked, Peer!Idle

\* An offer that begins to wait.
LEMMA AwaitsTask ==
  ASSUME NEW c \in Conns, NEW p \in Peer!Pcs \cup {None},
         NEW step \in {"restart", "reclose", "close", "sdp"}
  PROVE  LET todo == Peer!Awaits(step, c, p)
         IN  todo \in Peer!Task /\ todo.step = step /\ todo.conn = c /\ todo.pc = p
  BY DEF Peer!Awaits, Peer!Idle, Peer!Task

\* An offer comes, or goes on after a close.
LEMMA AnewInv ==
  ASSUME PeerInv, NEW t \in Tasks, NEW c \in Conns, Peer!BuildAnew(t, c)
  PROVE  PeerInv'
<1>1. CASE Peer!NoSession(t, c)
  BY <1>1, BuildInv DEF Peer!BuildAnew
<1>2. CASE ~Peer!NoSession(t, c)
  <2>1. Peer!CloseSession(c) /\ task' = [task EXCEPT ![t] = Peer!Awaits("close", c, None)]
    BY <1>2 DEF Peer!BuildAnew
  <2>2. LET todo == Peer!Awaits("close", c, None)
        IN  todo \in Peer!Task /\ todo.step = "close" /\ todo.conn = c
    BY AwaitsTask
  <2>4. task' \in [Tasks -> Peer!Task]
    BY <2>1, <2>2 DEF PeerInv, Peer!TypeOK
  <2>5. \A u \in Tasks : task'[u] = task[u] \/ (task'[u].step = "close" /\ task'[u].conn \in Conns)
    BY <2>1, <2>2 DEF PeerInv, Peer!TypeOK
  <2>. QED BY <2>1, <2>4, <2>5, ClosingInv
<1>. QED BY <1>1, <1>2

\* The steps of an offer.
LEMMA OfferInv ==
  ASSUME PeerInv, NEW t \in Tasks,
         \/ \E c \in Conns : Peer!Offer(t, c) \/ Peer!RestartOffer(t, c)
         \/ Peer!Renegotiated(t) \/ Peer!NotRenegotiated(t) \/ Peer!Reclosed(t)
         \/ Peer!Closed(t) \/ Peer!Answered(t) \/ Peer!NotAnswered(t)
  PROVE  PeerInv'
<1>1. /\ task \in [Tasks -> Peer!Task] /\ task[t] \in Peer!Task /\ None \notin Peer!Pcs
      /\ Peer!Idle \in Peer!Task
      /\ sessions \in [Conns -> Peer!Pcs \cup {None}] /\ pc \in [Peer!Pcs -> Peer!Pc]
  BY PeerAssumption DEF PeerInv, Peer!TypeOK, Peer!Idle, Peer!Task
<1>2. ASSUME NEW c \in Conns, Peer!Offer(t, c) PROVE PeerInv'
  BY <1>2, AnewInv DEF Peer!Offer
<1>3. ASSUME NEW c \in Conns, Peer!RestartOffer(t, c) PROVE PeerInv'
  <2> DEFINE new == Peer!Awaits("restart", c, sessions[c])
  <2>1. task' = [task EXCEPT ![t] = new]
    BY <1>3 DEF Peer!RestartOffer
  <2>2. sessions[c] \in Peer!Pcs
    BY <1>1, <1>3 DEF Peer!RestartOffer
  <2>3. new \in Peer!Task /\ new.step = "restart" /\ new.conn = c /\ new.pc = sessions[c]
    BY <2>2, AwaitsTask
  <2> HIDE DEF new
  <2>4. task' \in [Tasks -> Peer!Task] /\ \A u \in Tasks : task'[u] = task[u] \/ task'[u] = new
    BY <1>1, <2>1, <2>3
  <2>. QED BY <1>3, <2>2, <2>3, <2>4, TaskInv DEF Peer!RestartOffer
<1>4. CASE Peer!Renegotiated(t) \/ Peer!Answered(t)
  BY <1>1, <1>4, TaskInv DEF Peer!Renegotiated, Peer!Answered
<1>5. CASE Peer!NotRenegotiated(t)
  <2> DEFINE new == [task[t] EXCEPT !.step = "reclose", !.pc = None]
  <2>1. task' = [task EXCEPT ![t] = new]
    BY <1>1, <1>5 DEF Peer!NotRenegotiated
  <2>2. task[t].conn \in Conns
    BY <1>5 DEF Peer!NotRenegotiated, PeerInv, Tasked
  <2>3. new \in Peer!Task /\ new.step = "reclose" /\ new.conn \in Conns
    BY <1>1, <2>2 DEF Peer!Task
  <2> HIDE DEF new
  <2>4. task' \in [Tasks -> Peer!Task] /\ \A u \in Tasks : task'[u] = task[u] \/ task'[u] = new
    BY <1>1, <2>1, <2>3
  <2>5. CASE task[t].former
    BY <1>5, <2>3, <2>4, <2>5, TaskInv DEF Peer!NotRenegotiated
  <2>6. CASE ~task[t].former
    BY <1>5, <2>2, <2>3, <2>4, <2>6, ClosingInv DEF Peer!NotRenegotiated
  <2>. QED BY <2>5, <2>6
<1>6. CASE Peer!Reclosed(t)
  BY <1>6, AnewInv DEF Peer!Reclosed, PeerInv, Tasked
<1>7. CASE Peer!Closed(t)
  BY <1>7, BuildInv DEF Peer!Closed, PeerInv, Tasked
<1>8. CASE Peer!NotAnswered(t)
  <2> DEFINE p == task[t].pc
             c == task[t].conn
  <2>0. /\ p \in Peer!Pcs /\ c \in Conns
        /\ pc[p] = Peer!NoPc \/ (pc[p].conn = c /\ pc[p].state = "new")
    BY <1>8 DEF Peer!NotAnswered, PeerInv, Tasked
  <2>1. /\ p \in Peer!Pcs /\ c \in Conns
        /\ pc[p] = Peer!NoPc \/ (pc[p].conn = c /\ pc[p].state = "new")
        /\ pc[p].channel = "none"
    <3> HIDE DEF p, c
    <3>1. pc[p] \in Peer!Pc /\ (pc[p].channel = "open" => pc[p].state # "new")
      BY <1>1, <2>0 DEF PeerInv, PcWhole
    <3>2. pc[p].channel \in {"none", "open"} /\ (pc[p] = Peer!NoPc => pc[p].channel = "none")
      BY <3>1 DEF Peer!Pc, Peer!NoPc
    <3>. QED BY <2>0, <3>1, <3>2
  <2>2. /\ task' = [task EXCEPT ![t] = Peer!Idle]
        /\ pc' = [pc EXCEPT ![p] = Peer!NoPc]
        /\ sessions' = IF sessions[c] = p /\ ~pc[p].former THEN [sessions EXCEPT ![c] = None] ELSE sessions
    BY <1>8, <2>1 DEF Peer!NotAnswered, Peer!ClosedPc, Peer!Ended, Peer!Forget, Peer!IsSession
  <2> HIDE DEF p, c
  <2>3. Peer!TypeOK'
    <3>1. Peer!NoPc \in Peer!Pc
      BY DEF Peer!NoPc, Peer!Pc
    <3>. QED BY <1>1, <2>1, <2>2, <3>1 DEF Peer!TypeOK
  <2>4. PcWhole'
    BY <1>1, <2>1, <2>2 DEF PeerInv, PcWhole, Peer!NoPc
  <2>5. Held'
    BY <1>1, <2>1, <2>2 DEF PeerInv, Held, Peer!NoPc
  <2>6. Tasked'
    BY <1>1, <2>1, <2>2 DEF PeerInv, Tasked, Peer!Idle
  <2>. QED BY <2>3, <2>4, <2>5, <2>6 DEF PeerInv
<1>. QED BY <1>2, <1>3, <1>4, <1>5, <1>6, <1>7, <1>8

\* The server link is lost: the sessions are closed, the rest is former.
LEMMA ServerLostInv == ASSUME PeerInv, Peer!ServerLost PROVE PeerInv'
<1> DEFINE q(p) == IF \E c \in Conns : sessions[c] = p THEN Peer!ClosedPc(p) ELSE pc[p]
<1>1. /\ task \in [Tasks -> Peer!Task] /\ pc \in [Peer!Pcs -> Peer!Pc]
      /\ sessions \in [Conns -> Peer!Pcs \cup {None}] /\ None \notin Peer!Pcs
  BY PeerAssumption DEF PeerInv, Peer!TypeOK
<1>2. /\ sessions' = [c \in Conns |-> None]
      /\ pc' = [p \in Peer!Pcs |-> [q(p) EXCEPT !.former = q(p) # Peer!NoPc]]
      /\ task' = [t \in Tasks |-> [task[t] EXCEPT !.former = task[t].step # "idle"]]
  BY DEF Peer!ServerLost
<1>3. \A p \in Peer!Pcs :
        \/ q(p) = pc[p]
        \/ q(p) = Peer!NoPc /\ pc[p].channel = "none"
        \/ q(p) = [pc[p] EXCEPT !.state = "closed"] /\ pc[p].channel = "open"
  BY <1>1 DEF Peer!ClosedPc, Peer!Ended, Peer!Pc
<1>4. \A p \in Peer!Pcs : q(p) \in Peer!Pc
  <2>1. Peer!NoPc \in Peer!Pc
    BY DEF Peer!NoPc, Peer!Pc
  <2>2. \A p \in Peer!Pcs : [pc[p] EXCEPT !.state = "closed"] \in Peer!Pc
    BY <1>1 DEF Peer!Pc
  <2> HIDE DEF q
  <2>. QED BY <1>1, <1>3, <2>1, <2>2
<1> HIDE DEF q
<1>5. \A p \in Peer!Pcs :
        /\ pc'[p] \in Peer!Pc
        /\ pc'[p].conn = q(p).conn /\ pc'[p].state = q(p).state /\ pc'[p].channel = q(p).channel
        /\ q(p) = Peer!NoPc => pc'[p] = Peer!NoPc
  <2> SUFFICES ASSUME NEW p \in Peer!Pcs
               PROVE  /\ pc'[p] \in Peer!Pc
                      /\ pc'[p].conn = q(p).conn /\ pc'[p].state = q(p).state
                      /\ pc'[p].channel = q(p).channel
                      /\ q(p) = Peer!NoPc => pc'[p] = Peer!NoPc
    OBVIOUS
  <2>1. pc'[p] = [q(p) EXCEPT !.former = q(p) # Peer!NoPc] /\ q(p) \in Peer!Pc
    BY <1>2, <1>4
  <2>2. /\ pc'[p] \in Peer!Pc
        /\ pc'[p].conn = q(p).conn /\ pc'[p].state = q(p).state
        /\ pc'[p].channel = q(p).channel
    BY <2>1 DEF Peer!Pc
  <2>3. ASSUME q(p) = Peer!NoPc PROVE pc'[p] = Peer!NoPc
    <3>1. pc'[p] = [Peer!NoPc EXCEPT !.former = FALSE]
      BY <2>1, <2>3
    <3>. QED BY <3>1 DEF Peer!NoPc
  <2>. QED BY <2>2, <2>3
<1>6. \A t \in Tasks :
        /\ task'[t] \in Peer!Task
        /\ task'[t].step = task[t].step /\ task'[t].conn = task[t].conn /\ task'[t].pc = task[t].pc
        /\ task'[t].former = (task[t].step # "idle")
  BY <1>1, <1>2 DEF Peer!Task
<1>7. Peer!TypeOK'
  <2>1. pc' \in [Peer!Pcs -> Peer!Pc]
    BY <1>2, <1>5
  <2>2. task' \in [Tasks -> Peer!Task]
    BY <1>2, <1>6
  <2>. QED BY <1>2, <2>1, <2>2 DEF Peer!TypeOK
<1>8. PcWhole'
  <2> SUFFICES ASSUME NEW p \in Peer!Pcs
               PROVE  /\ pc'[p] # Peer!NoPc => pc'[p].conn \in Conns /\ pc'[p].state # "none"
                      /\ pc'[p].channel = "open" => pc'[p].state # "new"
    BY DEF PcWhole
  <2>1. /\ pc[p] # Peer!NoPc => pc[p].conn \in Conns /\ pc[p].state # "none"
        /\ pc[p].channel = "open" => pc[p].state # "new"
    BY DEF PeerInv, PcWhole
  <2>2. q(p) # Peer!NoPc => q(p).conn \in Conns /\ q(p).state # "none"
    BY <1>1, <1>3, <2>1 DEF Peer!NoPc, Peer!Pc
  <2>3. q(p).channel = "open" => q(p).state # "new"
    BY <1>1, <1>3, <2>1 DEF Peer!NoPc, Peer!Pc
  <2>. QED BY <1>5, <2>2, <2>3
<1>9. Held'
  BY <1>2 DEF Held
<1>10. Tasked'
  <2>1. \A p \in Peer!Pcs : q(p) = pc[p] \/ q(p) = Peer!NoPc \/ (pc[p] # Peer!NoPc /\ pc[p].state # "new")
    BY <1>3 DEF PeerInv, PcWhole, Peer!NoPc
  <2>. QED BY <1>5, <1>6, <2>1, TaskedGoesOn
<1>. QED BY <1>7, <1>8, <1>9, <1>10 DEF PeerInv

\* A connection comes up, and its channel.
LEMMA UpInv ==
  ASSUME PeerInv, NEW p \in Peer!Pcs, Peer!PcConnected(p) \/ Peer!ChannelOpen(p)
  PROVE  PeerInv'
<1>1. /\ task \in [Tasks -> Peer!Task] /\ pc \in [Peer!Pcs -> Peer!Pc] /\ pc[p] \in Peer!Pc
      /\ sessions \in [Conns -> Peer!Pcs \cup {None}] /\ None \notin Peer!Pcs
      /\ UNCHANGED <<sessions, task>>
  BY PeerAssumption DEF PeerInv, Peer!TypeOK, Peer!PcConnected, Peer!ChannelOpen
<1>2. PICK new \in Peer!Pc :
        /\ pc' = [pc EXCEPT ![p] = new] /\ new.conn = pc[p].conn /\ new.former = pc[p].former
        /\ new.state = "up" /\ new # Peer!NoPc /\ pc[p] # Peer!NoPc /\ pc[p].state \in {"new", "up"}
  <2>1. CASE Peer!PcConnected(p)
    <3> DEFINE new == [pc[p] EXCEPT !.state = "up"]
    <3>1. new \in Peer!Pc /\ new.state = "up" /\ new.conn = pc[p].conn /\ new.former = pc[p].former
      BY <1>1 DEF Peer!Pc
    <3>2. pc' = [pc EXCEPT ![p] = new] /\ pc[p].state = "new"
      BY <2>1 DEF Peer!PcConnected
    <3>3. Peer!NoPc.state = "none"
      BY DEF Peer!NoPc
    <3> HIDE DEF new
    <3>4. new # Peer!NoPc /\ pc[p] # Peer!NoPc
      BY <3>1, <3>2, <3>3
    <3> USE <3>1
    <3> WITNESS new \in Peer!Pc
    <3>. QED BY <3>2, <3>4
  <2>2. CASE Peer!ChannelOpen(p)
    <3> DEFINE new == [pc[p] EXCEPT !.channel = "open", !.rpc = TRUE]
    <3>1. /\ new \in Peer!Pc /\ new.state = pc[p].state /\ new.conn = pc[p].conn
          /\ new.former = pc[p].former
      BY <1>1 DEF Peer!Pc
    <3>2. pc' = [pc EXCEPT ![p] = new] /\ pc[p].state = "up"
      BY <1>1, <2>2 DEF Peer!ChannelOpen
    <3>3. Peer!NoPc.state = "none"
      BY DEF Peer!NoPc
    <3> HIDE DEF new
    <3>4. new # Peer!NoPc /\ pc[p] # Peer!NoPc
      BY <3>1, <3>2, <3>3
    <3> USE <3>1
    <3> WITNESS new \in Peer!Pc
    <3>. QED BY <3>2, <3>4
  <2>. QED BY <2>1, <2>2
<1>3. \A t \in Tasks : task[t].step = "sdp" => task[t].pc # p
  BY <1>1 DEF Peer!PcConnected, Peer!ChannelOpen, PeerInv, Tasked, Peer!NoPc
<1>4. Peer!TypeOK'
  BY <1>1, <1>2 DEF Peer!TypeOK
<1>5. PcWhole'
  BY <1>1, <1>2 DEF PeerInv, PcWhole
<1>6. Held'
  BY <1>1, <1>2 DEF PeerInv, Held
<1>7. Tasked'
  BY <1>1, <1>2, <1>3 DEF PeerInv, Tasked
<1>. QED BY <1>4, <1>5, <1>6, <1>7 DEF PeerInv

\* A connection fails: it is no session any more.
LEMMA FailedInv == ASSUME PeerInv, NEW p \in Peer!Pcs, Peer!PcFailed(p) PROVE PeerInv'
<1> DEFINE c == pc[p].conn
<1>1. /\ task \in [Tasks -> Peer!Task] /\ pc \in [Peer!Pcs -> Peer!Pc] /\ pc[p] \in Peer!Pc
      /\ sessions \in [Conns -> Peer!Pcs \cup {None}] /\ None \notin Peer!Pcs
      /\ UNCHANGED task /\ Peer!NoPc \in Peer!Pc
  BY PeerAssumption DEF PeerInv, Peer!TypeOK, Peer!PcFailed, Peer!NoPc, Peer!Pc
<1>2. c \in Conns /\ pc[p] # Peer!NoPc /\ (pc[p].state = "new" => pc[p].channel = "none")
  BY <1>1 DEF PeerInv, PcWhole, Peer!PcFailed, Peer!NoPc, Peer!Pc
<1>3. PICK new \in Peer!Pc :
        /\ pc' = [pc EXCEPT ![p] = new]
        /\ \/ new = Peer!NoPc
           \/ /\ pc[p].state = "up" /\ new.conn = c /\ new.state = "failed"
              /\ new # Peer!NoPc
  <2>1. [pc[p] EXCEPT !.state = "failed"] \in Peer!Pc
    BY <1>1 DEF Peer!Pc
  <2>. QED BY <1>1, <1>2, <2>1 DEF Peer!PcFailed, Peer!Ended, Peer!NoPc, Peer!Pc
<1>4. sessions' = IF sessions[c] = p /\ ~pc[p].former THEN [sessions EXCEPT ![c] = None] ELSE sessions
  BY DEF Peer!PcFailed, Peer!Forget, Peer!IsSession
<1> HIDE DEF c
<1>5. Peer!TypeOK'
  BY <1>1, <1>2, <1>3, <1>4 DEF Peer!TypeOK
<1>6. PcWhole'
  <2>1. Peer!NoPc.channel = "none"
    BY DEF Peer!NoPc
  <2>. QED BY <1>1, <1>2, <1>3, <2>1 DEF PeerInv, PcWhole
<1>7. Held'
  BY <1>1, <1>2, <1>3, <1>4 DEF PeerInv, Held, c
<1>8. Tasked'
  BY <1>1, <1>2, <1>3 DEF PeerInv, Tasked, Peer!NoPc
<1>. QED BY <1>5, <1>6, <1>7, <1>8 DEF PeerInv

\* A channel closes: the connection stays if it is up, and the session of the
\* connId loses its rpcChannel.
LEMMA ChannelInv == ASSUME PeerInv, NEW p \in Peer!Pcs, Peer!ChannelClosed(p) PROVE PeerInv'
<1> DEFINE c == pc[p].conn
           new == IF pc[p].state = "up" THEN [pc[p] EXCEPT !.channel = "none"] ELSE Peer!NoPc
           u == [pc EXCEPT ![p] = new]
<1>1. /\ task \in [Tasks -> Peer!Task] /\ pc \in [Peer!Pcs -> Peer!Pc] /\ pc[p] \in Peer!Pc
      /\ sessions \in [Conns -> Peer!Pcs \cup {None}] /\ None \notin Peer!Pcs
      /\ UNCHANGED <<sessions, task>> /\ Peer!NoPc \in Peer!Pc
  BY PeerAssumption DEF PeerInv, Peer!TypeOK, Peer!ChannelClosed, Peer!NoPc, Peer!Pc
<1>2. c \in Conns /\ pc[p].channel = "open" /\ pc[p].state \notin {"new", "none"} /\ pc[p] # Peer!NoPc
  BY <1>1 DEF PeerInv, PcWhole, Peer!ChannelClosed, Peer!NoPc
<1>3. /\ new \in Peer!Pc
      /\ \/ /\ new.conn = pc[p].conn /\ new.state = "up" /\ pc[p].state = "up"
            /\ new.former = pc[p].former
         \/ new = Peer!NoPc /\ pc[p].state # "up"
  BY <1>1 DEF Peer!Pc
<1>4. pc' = IF sessions[c] = None \/ pc[p].former THEN u ELSE [u EXCEPT ![sessions[c]].rpc = FALSE]
  BY <1>1 DEF Peer!ChannelClosed
<1> HIDE DEF new, c
<1>5. u \in [Peer!Pcs -> Peer!Pc] /\ u[p] = new /\ \A q \in Peer!Pcs \ {p} : u[q] = pc[q]
  BY <1>1, <1>3
<1> HIDE DEF u
<1>6. /\ pc' \in [Peer!Pcs -> Peer!Pc]
      /\ \A q \in Peer!Pcs : /\ pc'[q].conn = u[q].conn /\ pc'[q].state = u[q].state
                             /\ pc'[q].former = u[q].former /\ pc'[q].channel = u[q].channel
                             /\ pc'[q] = u[q] \/ (q = sessions[c] /\ q # p)
                                              \/ (q = sessions[c] /\ u[q].state = "up")
  <2>1. CASE sessions[c] = None \/ pc[p].former
    BY <1>4, <1>5, <2>1
  <2>2. CASE ~(sessions[c] = None \/ pc[p].former)
    <3>1. sessions[c] \in Peer!Pcs
      BY <1>1, <1>2, <2>2
    <3>2. [u[sessions[c]] EXCEPT !.rpc = FALSE] \in Peer!Pc
      BY <1>5, <3>1 DEF Peer!Pc
    <3>3. pc' = [u EXCEPT ![sessions[c]] = [u[sessions[c]] EXCEPT !.rpc = FALSE]]
      BY <1>4, <1>5, <2>2, <3>1
    <3>4. sessions[c] = p => u[p].state = "up"
      BY <1>2, <1>3, <1>5, <2>2 DEF PeerInv, Held
    <3>. QED BY <1>5, <3>1, <3>2, <3>3, <3>4 DEF Peer!Pc
  <2>. QED BY <2>1, <2>2
<1>7. Peer!TypeOK'
  BY <1>1, <1>6 DEF Peer!TypeOK
<1>8. PcWhole'
  <2> SUFFICES ASSUME NEW q \in Peer!Pcs
               PROVE  /\ pc'[q] # Peer!NoPc => pc'[q].conn \in Conns /\ pc'[q].state # "none"
                      /\ pc'[q].channel = "open" => pc'[q].state # "new"
    BY DEF PcWhole
  <2>1. sessions[c] # None => pc[sessions[c]].state \in {"new", "up"}
    BY <1>2 DEF PeerInv, Held
  <2>2. /\ pc[q] # Peer!NoPc => pc[q].conn \in Conns /\ pc[q].state # "none"
        /\ pc[q].channel = "open" => pc[q].state # "new"
    BY DEF PeerInv, PcWhole
  <2>. QED BY <1>1, <1>2, <1>3, <1>5, <1>6, <2>1, <2>2 DEF Peer!NoPc, c
<1>9. Held'
  BY <1>1, <1>2, <1>3, <1>5, <1>6 DEF PeerInv, Held
<1>10. Tasked'
  <2>2. sessions[c] # None => pc[sessions[c]].state \in {"new", "up"}
    BY <1>2 DEF PeerInv, Held
  <2>3. \A q \in Peer!Pcs :
           /\ pc[q] = Peer!NoPc => pc'[q] = Peer!NoPc
           /\ pc[q].state = "new" => pc'[q].state = "new" /\ pc'[q].conn = pc[q].conn
    <3>1. Peer!NoPc.state = "none"
      BY DEF Peer!NoPc
    <3>. QED BY <1>1, <1>2, <1>5, <1>6, <2>2, <3>1
  <2>4. \A t \in Tasks : task[t].step = "idle" => ~task[t].former
    BY DEF PeerInv, Tasked
  <2>. QED BY <1>1, <2>3, <2>4, TaskedGoesOn
<1>. QED BY <1>7, <1>8, <1>9, <1>10 DEF PeerInv

\* Every step keeps the invariant.
LEMMA PeerKeeps == PeerInv /\ [Peer!Next]_<<sessions, pc, task>> => PeerInv'
<1> SUFFICES ASSUME PeerInv, [Peer!Next]_<<sessions, pc, task>> PROVE PeerInv'
  OBVIOUS
<1>1. ASSUME NEW c \in Conns, Peer!RtcClosed(c) PROVE PeerInv'
  <2>1. Peer!CloseSession(c) /\ task' = task /\ task' \in [Tasks -> Peer!Task]
    BY <1>1 DEF Peer!RtcClosed, PeerInv, Peer!TypeOK
  <2>. QED BY <2>1, ClosingInv
<1>2. CASE UNCHANGED <<sessions, pc, task>>
  BY <1>2 DEF PeerInv, Peer!TypeOK, PcWhole, Held, Tasked
<1>. QED BY <1>1, <1>2, OfferInv, ServerLostInv, UpInv, FailedInv, ChannelInv DEF Peer!Next

-----------------------------------------------------------------------------
(* WebRtcPeer: what its steps may do *)

\* What makes a connection stray: an offer that goes on after a close.
Overlaps(p) ==
    \E t \in Tasks : /\ Peer!Closed(t) \/ Peer!Reclosed(t)
                     /\ task[t].former \/ sessions[task[t].conn] = p

\* What may end the service of a tab.
Ends(c) ==
    \/ Peer!PcFailed(sessions[c]) \/ Peer!RtcClosed(c) \/ Peer!ServerLost
    \/ \E t \in Tasks : task'[t].conn = c /\ task'[t].step # "idle"
    \/ \E p \in Peer!Pcs : pc[p].conn = c /\ Peer!ChannelClosed(p)

Kept(c) == Peer!Served(c)' /\ sessions'[c] = sessions[c]

\* Connections of different sessions are different.
LEMMA OwnConnections ==
  ASSUME PeerInv, NEW c \in Conns, NEW d \in Conns, sessions[c] # None, sessions[c] = sessions[d]
  PROVE  c = d
  BY DEF PeerInv, Held

\* To close one session makes no connection stray, and ends no other's service.
LEMMA CloseSpares ==
  ASSUME PeerInv, NEW c \in Conns, Peer!CloseSession(c)
  PROVE  /\ \A p \in Peer!Pcs : Peer!Stray(p)' => Peer!Stray(p)
         /\ \A d \in Conns \ {c} : Peer!Served(d) => Kept(d)
<1>1. /\ sessions' = [sessions EXCEPT ![c] = None]
      /\ pc' \in [Peer!Pcs -> Peer!Pc]
      /\ \A p \in Peer!Pcs :
           \/ pc'[p] = pc[p] /\ p # sessions[c]
           \/ p = sessions[c] /\ (pc'[p] = Peer!NoPc
                                    \/ (pc'[p] = [pc[p] EXCEPT !.state = "closed"] /\ pc[p].channel = "open"))
  BY CloseKeeps
<1>2. /\ sessions \in [Conns -> Peer!Pcs \cup {None}] /\ pc \in [Peer!Pcs -> Peer!Pc]
      /\ None \notin Peer!Pcs
  BY PeerAssumption DEF PeerInv, Peer!TypeOK
<1>3. ASSUME NEW p \in Peer!Pcs, Peer!Stray(p)' PROVE Peer!Stray(p)
  <2>1. p # sessions[c] /\ pc'[p] = pc[p]
    <3>1. pc'[p].state \in {"new", "up"}
      BY <1>3 DEF Peer!Stray
    <3>2. [pc[p] EXCEPT !.state = "closed"].state = "closed" /\ Peer!NoPc.state = "none"
      BY <1>2 DEF Peer!Pc, Peer!NoPc
    <3>. QED BY <1>1, <3>1, <3>2
  <2>2. pc[p].conn \in Conns
    BY <1>3, <2>1 DEF Peer!Stray, PeerInv, PcWhole, Peer!NoPc
  <2>. QED BY <1>1, <1>2, <1>3, <2>1, <2>2 DEF Peer!Stray
<1>4. ASSUME NEW d \in Conns \ {c}, Peer!Served(d) PROVE Kept(d)
  <2>1. sessions'[d] = sessions[d] /\ sessions[d] \in Peer!Pcs /\ sessions[d] # sessions[c]
    BY <1>1, <1>2, <1>4, OwnConnections DEF Peer!Served
  <2>. QED BY <1>1, <1>4, <2>1 DEF Peer!Served, Kept
<1>. QED BY <1>3, <1>4

\* To build makes the former session stray, if there is one, or what is built,
\* if it is for a former WebRtcPeer.
LEMMA BuildSpares ==
  ASSUME PeerInv, NEW t \in Tasks, NEW c \in Conns, Peer!Build(t, c)
  PROVE  /\ \A p \in Peer!Pcs : Peer!Stray(p)' => Peer!Stray(p) \/ task[t].former \/ sessions[c] = p
         /\ \A d \in Conns : Peer!Served(d) => Kept(d) \/ Ends(d)
<1>1. PICK p \in Peer!Pcs, new \in Peer!Pc, todo \in Peer!Task :
        /\ pc[p] = Peer!NoPc /\ \A u \in Tasks : task[u].pc # p
        /\ pc' = [pc EXCEPT ![p] = new] /\ task' = [task EXCEPT ![t] = todo]
        /\ sessions' = IF task[t].former THEN sessions ELSE [sessions EXCEPT ![c] = p]
        /\ new.conn = c /\ new.state = "new" /\ new.channel = "none"
        /\ new.former = task[t].former
        /\ todo.step = "sdp" /\ todo.conn = c /\ todo.pc = p /\ todo.former = task[t].former
  BY BuildKeeps
<1>2. /\ sessions \in [Conns -> Peer!Pcs \cup {None}] /\ pc \in [Peer!Pcs -> Peer!Pc]
      /\ task \in [Tasks -> Peer!Task] /\ None \notin Peer!Pcs
  BY PeerAssumption DEF PeerInv, Peer!TypeOK
<1>3. ASSUME NEW q \in Peer!Pcs, Peer!Stray(q)'
      PROVE  Peer!Stray(q) \/ task[t].former \/ sessions[c] = q
  <2>1. CASE q = p
    BY <1>1, <1>2, <1>3, <2>1 DEF Peer!Stray
  <2>2. CASE q # p
    <3>1. pc'[q] = pc[q]
      BY <1>1, <1>2, <2>2
    <3>2. pc[q].conn \in Conns
      BY <1>3, <3>1 DEF Peer!Stray, PeerInv, PcWhole, Peer!NoPc
    <3>. QED BY <1>1, <1>2, <1>3, <3>1, <3>2 DEF Peer!Stray
  <2>. QED BY <2>1, <2>2
<1>4. ASSUME NEW d \in Conns, Peer!Served(d), ~Ends(d) PROVE Kept(d)
  <2>1. d # c
    BY <1>1, <1>2, <1>4 DEF Ends
  <2>2. sessions'[d] = sessions[d]
    BY <1>1, <1>2, <2>1
  <2>3. sessions[d] # p /\ sessions[d] \in Peer!Pcs
    BY <1>1, <1>2, <1>4 DEF Peer!Served, Peer!NoPc
  <2>4. pc'[sessions[d]] = pc[sessions[d]]
    BY <1>1, <1>2, <2>3
  <2>. QED BY <1>4, <2>2, <2>4 DEF Peer!Served, Kept
<1>. QED BY <1>3, <1>4

\* An offer that comes finds no session to displace, or closes it first.
LEMMA AnewSpares ==
  ASSUME PeerInv, NEW t \in Tasks, NEW c \in Conns, Peer!BuildAnew(t, c)
  PROVE  /\ \A p \in Peer!Pcs : Peer!Stray(p)' => Peer!Stray(p) \/ task[t].former
         /\ \A d \in Conns : Peer!Served(d) => Kept(d) \/ Ends(d)
<1>1. CASE Peer!NoSession(t, c)
  <2>1. sessions[c] = None \/ task[t].former
    BY <1>1 DEF Peer!NoSession
  <2>2. Peer!Build(t, c)
    BY <1>1 DEF Peer!BuildAnew
  <2>. QED BY <2>1, <2>2, BuildSpares, PeerAssumption
<1>2. CASE ~Peer!NoSession(t, c)
  <2>1. Peer!CloseSession(c) /\ task' = [task EXCEPT ![t] = Peer!Awaits("close", c, None)]
    BY <1>2 DEF Peer!BuildAnew
  <2>2. Peer!Awaits("close", c, None).step = "close" /\ Peer!Awaits("close", c, None).conn = c
    BY DEF Peer!Awaits, Peer!Idle
  <2>3. Ends(c)
    BY <2>1, <2>2 DEF Ends, PeerInv, Peer!TypeOK
  <2>. QED BY <2>1, <2>3, CloseSpares
<1>. QED BY <1>1, <1>2

\* The steps of an offer.
LEMMA OfferSpares ==
  ASSUME PeerInv, NEW t \in Tasks,
         \/ \E c \in Conns : Peer!Offer(t, c) \/ Peer!RestartOffer(t, c)
         \/ Peer!Renegotiated(t) \/ Peer!NotRenegotiated(t) \/ Peer!Reclosed(t)
         \/ Peer!Closed(t) \/ Peer!Answered(t) \/ Peer!NotAnswered(t)
  PROVE  /\ \A p \in Peer!Pcs : Peer!Stray(p)' => Peer!Stray(p) \/ Overlaps(p)
         /\ \A d \in Conns : Peer!Served(d) => Kept(d) \/ Ends(d)
<1>1. CASE UNCHANGED <<sessions, pc>>
  BY <1>1 DEF Peer!Stray, Peer!Served, Kept
<1>2. CASE \E c \in Conns : Peer!Offer(t, c)
  <2>1. PICK c \in Conns : Peer!Offer(t, c)
    BY <1>2
  <2>2. ~task[t].former
    BY <2>1 DEF Peer!Offer, PeerInv, Tasked
  <2>. QED BY <2>1, <2>2, AnewSpares DEF Peer!Offer
<1>3. CASE (\E c \in Conns : Peer!RestartOffer(t, c)) \/ Peer!Renegotiated(t) \/ Peer!Answered(t)
  BY <1>1, <1>3 DEF Peer!RestartOffer, Peer!Renegotiated, Peer!Answered
<1>4. CASE Peer!NotRenegotiated(t)
  <2>1. /\ task[t].conn \in Conns
        /\ task' = [task EXCEPT ![t].step = "reclose", ![t].pc = None]
        /\ task[t] \in Peer!Task /\ task \in [Tasks -> Peer!Task]
    BY <1>4 DEF Peer!NotRenegotiated, PeerInv, Tasked, Peer!TypeOK
  <2>2. task'[t].step = "reclose" /\ task'[t].conn = task[t].conn
    BY <2>1 DEF Peer!Task
  <2>3. Ends(task[t].conn)
    BY <2>1, <2>2 DEF Ends
  <2>4. CASE ~task[t].former
    BY <1>4, <2>1, <2>3, <2>4, CloseSpares DEF Peer!NotRenegotiated
  <2>. QED BY <1>1, <1>4, <2>4 DEF Peer!NotRenegotiated
<1>5. CASE Peer!Reclosed(t)
  <2>1. task[t].conn \in Conns /\ Peer!BuildAnew(t, task[t].conn)
    BY <1>5 DEF Peer!Reclosed, PeerInv, Tasked
  <2>. QED BY <1>5, <2>1, AnewSpares DEF Overlaps
<1>6. CASE Peer!Closed(t)
  <2>1. task[t].conn \in Conns /\ Peer!Build(t, task[t].conn)
    BY <1>6 DEF Peer!Closed, PeerInv, Tasked
  <2>. QED BY <1>6, <2>1, BuildSpares DEF Overlaps
<1>7. CASE Peer!NotAnswered(t)
  <2> DEFINE q == task[t].pc
             c == task[t].conn
  <2>1. /\ q \in Peer!Pcs /\ c \in Conns
        /\ pc[q] = Peer!NoPc \/ (pc[q].conn = c /\ pc[q].state = "new")
    BY <1>7 DEF Peer!NotAnswered, PeerInv, Tasked
  <2>2. /\ sessions' = IF sessions[c] = q /\ ~pc[q].former THEN [sessions EXCEPT ![c] = None] ELSE sessions
        /\ pc' = [pc EXCEPT ![q] = Peer!ClosedPc(q)]
    BY <1>7 DEF Peer!NotAnswered, Peer!Forget, Peer!IsSession
  <2> HIDE DEF q, c
  <2>3. /\ sessions \in [Conns -> Peer!Pcs \cup {None}] /\ pc \in [Peer!Pcs -> Peer!Pc]
        /\ pc[q] \in Peer!Pc
    BY <2>1 DEF PeerInv, Peer!TypeOK
  <2>4. Peer!NoPc.channel = "none" /\ Peer!NoPc.state = "none"
    BY DEF Peer!NoPc
  <2>5. pc[q].channel # "open" /\ Peer!ClosedPc(q).state \notin {"new", "up"}
    <3>1. pc[q].channel # "open"
      BY <2>1, <2>4 DEF PeerInv, PcWhole
    <3>. QED BY <2>4, <3>1 DEF Peer!ClosedPc, Peer!Ended
  <2>6. ASSUME NEW p \in Peer!Pcs, Peer!Stray(p)' PROVE Peer!Stray(p)
    <3>1. p # q
      BY <2>1, <2>2, <2>3, <2>5, <2>6 DEF Peer!Stray
    <3>2. pc'[p] = pc[p]
      BY <2>2, <2>3, <3>1
    <3>3. pc[p].conn \in Conns
      BY <2>4, <2>6, <3>2 DEF Peer!Stray, PeerInv, PcWhole
    <3>. QED BY <2>1, <2>2, <2>3, <2>6, <3>1, <3>2, <3>3 DEF Peer!Stray
  <2>7. ASSUME NEW d \in Conns, Peer!Served(d) PROVE Kept(d)
    <3>1. sessions[d] # q /\ sessions[d] \in Peer!Pcs
      BY <2>3, <2>5, <2>7 DEF Peer!Served
    <3>2. pc'[sessions[d]] = pc[sessions[d]] /\ sessions'[d] = sessions[d]
      BY <2>1, <2>2, <2>3, <3>1
    <3>. QED BY <2>7, <3>2 DEF Peer!Served, Kept
  <2>. QED BY <2>6, <2>7
<1>. QED BY <1>2, <1>3, <1>4, <1>5, <1>6, <1>7

\* The steps of a connection and its channel.
LEMMA PcSpares ==
  ASSUME PeerInv, NEW q \in Peer!Pcs,
         \/ Peer!PcConnected(q) \/ Peer!PcFailed(q) \/ Peer!ChannelOpen(q) \/ Peer!ChannelClosed(q)
  PROVE  /\ \A p \in Peer!Pcs : Peer!Stray(p)' => Peer!Stray(p)
         /\ \A d \in Conns : Peer!Served(d) => Kept(d) \/ Ends(d)
<1>1. /\ sessions \in [Conns -> Peer!Pcs \cup {None}] /\ pc \in [Peer!Pcs -> Peer!Pc]
      /\ pc[q] \in Peer!Pc /\ None \notin Peer!Pcs
      /\ Peer!NoPc.channel = "none" /\ Peer!NoPc.state = "none"
      /\ \A p \in Peer!Pcs : pc[p].state \in {"new", "up"} => pc[p].conn \in Conns
  BY PeerAssumption DEF PeerInv, Peer!TypeOK, PcWhole, Peer!NoPc
<1>2. CASE Peer!PcConnected(q) \/ Peer!ChannelOpen(q)
  <2>1. /\ sessions' = sessions
        /\ \A p \in Peer!Pcs \ {q} : pc'[p] = pc[p]
        /\ pc[q].state \in {"new", "up"} /\ pc[q].channel # "open"
        /\ pc'[q].conn = pc[q].conn /\ pc'[q].former = pc[q].former
    <3>1. CASE Peer!PcConnected(q)
      <4>1. pc[q].channel # "open"
        BY <3>1 DEF Peer!PcConnected, PeerInv, PcWhole
      <4>. QED BY <1>1, <3>1, <4>1 DEF Peer!PcConnected, Peer!Pc
    <3>2. CASE Peer!ChannelOpen(q)
      BY <1>1, <3>2 DEF Peer!ChannelOpen, Peer!Pc
    <3>. QED BY <1>2, <3>1, <3>2
  <2>2. ASSUME NEW p \in Peer!Pcs, Peer!Stray(p)' PROVE Peer!Stray(p)
    BY <2>1, <2>2 DEF Peer!Stray
  <2>3. ASSUME NEW d \in Conns, Peer!Served(d) PROVE Kept(d)
    BY <1>1, <2>1, <2>3 DEF Peer!Served, Kept
  <2>. QED BY <2>2, <2>3
<1>3. CASE Peer!PcFailed(q)
  <2>1. /\ \A p \in Peer!Pcs \ {q} : pc'[p] = pc[p]
        /\ pc'[q].state \notin {"new", "up"}
        /\ \A d \in Conns : sessions'[d] = sessions[d] \/ sessions[d] = q
    <3>1. pc'[q] = Peer!Ended(q, "failed") /\ \A p \in Peer!Pcs \ {q} : pc'[p] = pc[p]
      BY <1>1, <1>3 DEF Peer!PcFailed
    <3>2. [pc[q] EXCEPT !.state = "failed"].state = "failed"
      BY <1>1 DEF Peer!Pc
    <3>3. \A d \in Conns : sessions'[d] = sessions[d] \/ sessions[d] = q
      BY <1>1, <1>3 DEF Peer!PcFailed, Peer!Forget, Peer!IsSession
    <3>. QED BY <1>1, <3>1, <3>2, <3>3 DEF Peer!Ended
  <2>2. ASSUME NEW p \in Peer!Pcs, Peer!Stray(p)' PROVE Peer!Stray(p)
    BY <1>1, <2>1, <2>2 DEF Peer!Stray
  <2>3. ASSUME NEW d \in Conns, Peer!Served(d) PROVE Kept(d) \/ Ends(d)
    BY <1>1, <1>3, <2>1, <2>3 DEF Peer!Served, Kept, Ends
  <2>. QED BY <2>2, <2>3
<1>4. CASE Peer!ChannelClosed(q)
  <2> DEFINE c == pc[q].conn
             new == IF pc[q].state = "up" THEN [pc[q] EXCEPT !.channel = "none"] ELSE Peer!NoPc
             u == [pc EXCEPT ![q] = new]
  <2>1. c \in Conns /\ sessions' = sessions
    BY <1>1, <1>4 DEF Peer!ChannelClosed, PeerInv, PcWhole, Peer!NoPc
  <2>2. pc' = IF sessions[c] = None \/ pc[q].former THEN u ELSE [u EXCEPT ![sessions[c]].rpc = FALSE]
    BY <1>1, <1>4 DEF Peer!ChannelClosed
  <2>3. new.state \in {"new", "up"} => /\ pc[q].state = "up"
                                       /\ new.conn = pc[q].conn /\ new.former = pc[q].former
    BY <1>1 DEF Peer!Pc
  <2>4. new \in Peer!Pc
    BY <1>1 DEF Peer!Pc, Peer!NoPc
  <2>5. u \in [Peer!Pcs -> Peer!Pc] /\ u[q] = new /\ \A p \in Peer!Pcs \ {q} : u[p] = pc[p]
    <3> HIDE DEF new
    <3>. QED BY <1>1, <2>4
  <2> HIDE DEF new, u
  <2>6. \A p \in Peer!Pcs : /\ pc'[p].conn = u[p].conn /\ pc'[p].state = u[p].state
                            /\ pc'[p].former = u[p].former
                            /\ p # sessions[c] => pc'[p] = u[p]
    <3> HIDE DEF c
    <3>1. CASE sessions[c] = None \/ pc[q].former
      BY <2>2, <3>1
    <3>2. CASE ~(sessions[c] = None \/ pc[q].former)
      <4>1. sessions[c] \in Peer!Pcs
        BY <1>1, <2>1, <3>2
      <4>2. pc' = [u EXCEPT ![sessions[c]] = [u[sessions[c]] EXCEPT !.rpc = FALSE]]
        BY <2>2, <2>5, <3>2, <4>1
      <4>. QED BY <2>5, <4>1, <4>2 DEF Peer!Pc
    <3>. QED BY <3>1, <3>2
  <2>7. ASSUME NEW p \in Peer!Pcs, Peer!Stray(p)' PROVE Peer!Stray(p)
    BY <1>1, <2>1, <2>3, <2>5, <2>6, <2>7 DEF Peer!Stray
  <2>8. ASSUME NEW d \in Conns, Peer!Served(d), ~Ends(d) PROVE Kept(d)
    <3>1. c # d
      BY <1>4, <2>8 DEF Ends
    <3>2. sessions[d] # sessions[c] /\ sessions[d] # q /\ sessions[d] \in Peer!Pcs
      BY <1>1, <2>1, <2>8, <3>1 DEF Peer!Served, PeerInv, Held
    <3>. QED BY <2>1, <2>5, <2>6, <2>8, <3>2 DEF Peer!Served, Kept
  <2>. QED BY <2>7, <2>8
<1>. QED BY <1>2, <1>3, <1>4

\* The loss of the server link makes no connection stray: it closes all that
\* are sessions.
LEMMA ServerLostSpares ==
  ASSUME PeerInv, Peer!ServerLost, NEW p \in Peer!Pcs, Peer!Stray(p)'
  PROVE  Peer!Stray(p)
<1> DEFINE q == IF \E c \in Conns : sessions[c] = p THEN Peer!ClosedPc(p) ELSE pc[p]
<1>1. pc'[p] = [q EXCEPT !.former = q # Peer!NoPc]
  BY DEF Peer!ServerLost
<1>2. pc[p] \in Peer!Pc /\ Peer!NoPc \in Peer!Pc /\ [pc[p] EXCEPT !.state = "closed"] \in Peer!Pc
  BY DEF PeerInv, Peer!TypeOK, Peer!Pc, Peer!NoPc
<1>3. q \in Peer!Pc /\ (q = pc[p] \/ q.state \notin {"new", "up"})
  BY <1>2 DEF Peer!ClosedPc, Peer!Ended, Peer!NoPc, Peer!Pc
<1>4. (\E c \in Conns : sessions[c] = p) => q.state \notin {"new", "up"}
  BY <1>2 DEF Peer!ClosedPc, Peer!Ended, Peer!NoPc, Peer!Pc
<1> HIDE DEF q
<1>5. pc'[p].state = q.state /\ pc'[p].state \in {"new", "up"}
  BY <1>1, <1>3 DEF Peer!Pc, Peer!Stray
<1>6. pc[p].state \in {"new", "up"} /\ \A c \in Conns : sessions[c] # p
  BY <1>3, <1>4, <1>5
<1>7. pc[p].conn \in Conns
  BY <1>6 DEF PeerInv, PcWhole, Peer!NoPc
<1>. QED BY <1>6, <1>7 DEF Peer!Stray

\* What any step may do.
LEMMA PeerSpares ==
  ASSUME PeerInv, [Peer!Next]_<<sessions, pc, task>>
  PROVE  /\ \A p \in Peer!Pcs : Peer!Stray(p)' => Peer!Stray(p) \/ Overlaps(p)
         /\ \A d \in Conns : Peer!Served(d) => Kept(d) \/ Ends(d)
<1>1. CASE Peer!ServerLost
  BY <1>1, ServerLostSpares DEF Ends
<1>2. ASSUME NEW c \in Conns, Peer!RtcClosed(c)
      PROVE  /\ \A p \in Peer!Pcs : Peer!Stray(p)' => Peer!Stray(p) \/ Overlaps(p)
             /\ \A d \in Conns : Peer!Served(d) => Kept(d) \/ Ends(d)
  <2>1. Ends(c)
    BY <1>2 DEF Ends
  <2>. QED BY <1>2, <2>1, CloseSpares DEF Peer!RtcClosed
<1>3. CASE UNCHANGED <<sessions, pc, task>>
  BY <1>3 DEF Peer!Stray, Peer!Served, Kept
<1>. QED BY <1>1, <1>2, <1>3, OfferSpares, PcSpares DEF Peer!Next

\* The plugin's peer connections: none is stray but by offers that overlap, and
\* a tab is served until one of those events that may end it.
THEOREM PeersAreServed == PluginSpec => PeersServed
<1>1. PluginInit => PeerInv
  BY PeerInit DEF PluginInit
<1>2. [PluginNext]_<<part, vars, sessions, pc, task>> => [Peer!Next]_<<sessions, pc, task>>
  BY DEF PluginNext
<1>3. PeerInv /\ [PluginNext]_<<part, vars, sessions, pc, task>> => PeerInv'
  BY <1>2, PeerKeeps
<1>4. PeerInv => Peer!TypeOK
  BY DEF PeerInv
<1>5. PeerInv /\ [PluginNext]_<<part, vars, sessions, pc, task>> =>
        [\A p \in Peer!Pcs : (~Peer!Stray(p) /\ Peer!Stray(p)')
          => \E t \in Tasks : /\ Peer!Closed(t) \/ Peer!Reclosed(t)
                              /\ task[t].former \/ sessions[task[t].conn] = p]_Peer!vars
  BY <1>2, PeerSpares DEF Overlaps
<1>6. PeerInv /\ [PluginNext]_<<part, vars, sessions, pc, task>> =>
        [\A c \in Conns : (Peer!Served(c) /\ ~(Peer!Served(c)' /\ sessions'[c] = sessions[c]))
          => \/ Peer!PcFailed(sessions[c]) \/ Peer!RtcClosed(c) \/ Peer!ServerLost
             \/ \E t \in Tasks : task'[t].conn = c /\ task'[t].step # "idle"
             \/ \E p \in Peer!Pcs : pc[p].conn = c /\ Peer!ChannelClosed(p)]_Peer!vars
  BY <1>2, PeerSpares DEF Kept, Ends
<1>. QED BY <1>1, <1>3, <1>4, <1>5, <1>6, PTL
     DEF PluginSpec, PeersServed, Peer!StrayOnlyByOverlap, Peer!ServedUntilItsEnd

=============================================================================
