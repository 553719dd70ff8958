----------------------------- MODULE WebRtcPeer -----------------------------
(***************************************************************************)
(* The plugin's end of the peer connections, one session per connId of a   *)
(* tab: src/plugins/openclaw/src/webrtc-peer.js, and what                  *)
(* realtime-bridge.js does with it when the server link is lost.           *)
(*                                                                         *)
(* Signalling messages are handled as they come, each by a handler that    *)
(* awaits in between; a task is an offer that is being handled.  The peer  *)
(* connections and the tabs are the environment.                           *)
(***************************************************************************)
EXTENDS Naturals, FiniteSets

CONSTANTS
    Conns,               \* connIds
    Tasks,               \* bound: offers handled at a time
    MaxPc,               \* bound: peer connections that matter at a time
    None

Pcs == 1..MaxPc

VARIABLES
    sessions,            \* __sessions
    pc,                  \* rpc: session.rpcChannel is the channel of this connection
    task                 \* awaiting: renegotiation, its close, the old close, the answer

vars == <<sessions, pc, task>>

\* former: of a WebRtcPeer that the bridge has dropped.
Pc == [conn : Conns \cup {None}, state : {"none", "new", "up", "failed", "closed"},
       channel : {"none", "open"}, rpc : BOOLEAN, former : BOOLEAN]
Task == [step : {"idle", "restart", "reclose", "close", "sdp"},
         conn : Conns \cup {None}, pc : Pcs \cup {None}, former : BOOLEAN]

TypeOK ==
    /\ sessions \in [Conns -> Pcs \cup {None}]
    /\ pc \in [Pcs -> Pc]
    /\ task \in [Tasks -> Task]

NoPc == [conn |-> None, state |-> "none", channel |-> "none", rpc |-> FALSE, former |-> FALSE]
Idle == [step |-> "idle", conn |-> None, pc |-> None, former |-> FALSE]
Awaits(step, c, p) == [Idle EXCEPT !.step = step, !.conn = c, !.pc = p]

Init ==
    /\ sessions = [c \in Conns |-> None]
    /\ pc = [p \in Pcs |-> NoPc]
    /\ task = [t \in Tasks |-> Idle]

-----------------------------------------------------------------------------
(* closeByConnId *)

\* A connection that has failed or been closed may have its channel's close
\* event to come; without it, it is forgotten.
Ended(p, state) == IF pc[p].channel = "open" THEN [pc[p] EXCEPT !.state = state] ELSE NoPc
ClosedPc(p) == Ended(p, "closed")

CloseSession(c) ==
    /\ sessions' = [sessions EXCEPT ![c] = None]
    /\ pc' = IF sessions[c] = None THEN pc
             ELSE [pc EXCEPT ![sessions[c]] = ClosedPc(sessions[c])]

Free(p) == pc[p] = NoPc /\ \A t \in Tasks : task[t].pc # p

-----------------------------------------------------------------------------
(* __handleOffer *)

\* A new connection for c, the session from now on; of a dropped WebRtcPeer
\* nobody looks at the sessions.
Build(t, c) ==
    \E p \in Pcs :
        /\ Free(p) /\ \A q \in 1..p - 1 : ~Free(q)
        /\ pc' = [pc EXCEPT ![p] = [NoPc EXCEPT !.conn = c, !.state = "new", !.former = task[t].former]]
        /\ sessions' = IF task[t].former THEN sessions ELSE [sessions EXCEPT ![c] = p]
        /\ task' = [task EXCEPT ![t] = [Awaits("sdp", c, p) EXCEPT !.former = task[t].former]]

\* A repeated offer closes the connection there is.  And one that does not.
NothingToClose(t, c) == TRUE
NoSession(t, c) == sessions[c] = None \/ task[t].former

BuildAnew(t, c) ==
    IF NoSession(t, c) THEN Build(t, c)
    ELSE /\ CloseSession(c)
         /\ task' = [task EXCEPT ![t] = Awaits("close", c, None)]

Offer(t, c) == task[t].step = "idle" /\ BuildAnew(t, c)

\* With iceRestart: renegotiate on the connection there is.
RestartOffer(t, c) ==
    /\ task[t].step = "idle" /\ sessions[c] # None
    /\ task' = [task EXCEPT ![t] = Awaits("restart", c, sessions[c])]
    /\ UNCHANGED <<sessions, pc>>

Renegotiated(t) ==
    /\ task[t].step = "restart" /\ pc[task[t].pc].state \in {"new", "up"}
    /\ task' = [task EXCEPT ![t] = Idle]
    /\ UNCHANGED <<sessions, pc>>

\* It failed: whatever the session is by now, it is closed.
NotRenegotiated(t) ==
    /\ task[t].step = "restart"
    /\ task' = [task EXCEPT ![t].step = "reclose", ![t].pc = None]
    /\ IF task[t].former THEN UNCHANGED <<sessions, pc>> ELSE CloseSession(task[t].conn)

\* The connection is closed.  That there may be another is looked at after a
\* failed restart only.
Reclosed(t) == task[t].step = "reclose" /\ BuildAnew(t, task[t].conn)
Closed(t) == task[t].step = "close" /\ Build(t, task[t].conn)

Answered(t) ==
    /\ task[t].step = "sdp" /\ pc[task[t].pc].state \in {"new", "up"}
    /\ task' = [task EXCEPT ![t] = Idle]
    /\ UNCHANGED <<sessions, pc>>

\* Only the session that is still this connection is given up with it.  And
\* any.
AnySession(c, p) == TRUE
IsSession(c, p) == sessions[c] = p /\ ~pc[p].former
Forget(c, p) == IF IsSession(c, p) THEN [sessions EXCEPT ![c] = None] ELSE sessions

NotAnswered(t) ==
    /\ task[t].step = "sdp"
    /\ LET p == task[t].pc
       IN  /\ sessions' = Forget(task[t].conn, p)
           /\ pc' = [pc EXCEPT ![p] = ClosedPc(p)]
    /\ task' = [task EXCEPT ![t] = Idle]

-----------------------------------------------------------------------------
(* Messages and events *)

RtcClosed(c) == CloseSession(c) /\ UNCHANGED task

\* The server link is lost: closeAll, and the WebRtcPeer is dropped.
ServerLost ==
    /\ sessions' = [c \in Conns |-> None]
    /\ pc' = [p \in Pcs |->
                LET q == IF \E c \in Conns : sessions[c] = p THEN ClosedPc(p) ELSE pc[p]
                IN  [q EXCEPT !.former = q # NoPc]]
    /\ task' = [t \in Tasks |-> [task[t] EXCEPT !.former = task[t].step # "idle"]]

PcConnected(p) ==
    /\ pc[p].state = "new" /\ \A t \in Tasks : task[t].pc = p => task[t].step # "sdp"
    /\ pc' = [pc EXCEPT ![p].state = "up"]
    /\ UNCHANGED <<sessions, task>>

\* onconnectionstatechange: failed, or closed by the other end
PcFailed(p) ==
    /\ pc[p].state \in {"new", "up"}
    /\ sessions' = Forget(pc[p].conn, p)
    /\ pc' = [pc EXCEPT ![p] = Ended(p, "failed")]
    /\ UNCHANGED task

\* ondatachannel with label rpc
ChannelOpen(p) ==
    /\ pc[p].state = "up" /\ pc[p].channel = "none"
    /\ pc' = [pc EXCEPT ![p].channel = "open", ![p].rpc = TRUE]
    /\ UNCHANGED <<sessions, task>>

\* dc.onclose: the session of the connId loses its rpcChannel, whose ever it is.
ChannelClosed(p) ==
    /\ pc[p].channel = "open"
    /\ LET c == pc[p].conn
           u == [pc EXCEPT ![p] = IF @.state = "up" THEN [@ EXCEPT !.channel = "none"] ELSE NoPc]
       IN  pc' = IF sessions[c] = None \/ pc[p].former THEN u
                 ELSE [u EXCEPT ![sessions[c]].rpc = FALSE]
    /\ UNCHANGED <<sessions, task>>

Next ==
    \/ ServerLost
    \/ \E c \in Conns : RtcClosed(c) \/ \E t \in Tasks : Offer(t, c) \/ RestartOffer(t, c)
    \/ \E t \in Tasks :
        \/ Renegotiated(t) \/ NotRenegotiated(t) \/ Reclosed(t) \/ Closed(t)
        \/ Answered(t) \/ NotAnswered(t)
    \/ \E p \in Pcs : PcConnected(p) \/ PcFailed(p) \/ ChannelOpen(p) \/ ChannelClosed(p)

Spec == Init /\ [][Next]_vars

-----------------------------------------------------------------------------
(* Properties *)

\* A connection that is neither closed nor failed is some session's, so that
\* it can be closed.  An offer that goes on after it has closed the former
\* session may displace one that has come in the meantime, or build for a
\* WebRtcPeer that was dropped.
Stray(p) == pc[p].state \in {"new", "up"} /\ (pc[p].former \/ sessions[pc[p].conn] # p)
StrayOnlyByOverlap ==
    [][\A p \in Pcs : (~Stray(p) /\ Stray(p)')
        => \E t \in Tasks : /\ Closed(t) \/ Reclosed(t)
                            /\ task[t].former \/ sessions[task[t].conn] = p]_vars

\* A tab whose session has its channel gets all answers until the connection or
\* the channel ends, the tab starts anew or the server link is lost: but for
\* the close event of a former connection's channel.
Served(c) == sessions[c] # None /\ pc[sessions[c]].channel = "open" /\ pc[sessions[c]].rpc
ServedUntilItsEnd ==
    [][\A c \in Conns : (Served(c) /\ ~(Served(c)' /\ sessions'[c] = sessions[c]))
        => \/ PcFailed(sessions[c]) \/ RtcClosed(c) \/ ServerLost
           \/ \E t \in Tasks : task'[t].conn = c /\ task'[t].step # "idle"
           \/ \E p \in Pcs : pc[p].conn = c /\ ChannelClosed(p)]_vars
=============================================================================
