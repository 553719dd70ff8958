------------------------------ MODULE MCPlugin ------------------------------
(***************************************************************************)
(* The plugin's gateway link and its peer connections for TLC.  They share *)
(* no state, so that each is explored by itself.  To bound the states, one *)
(* agent request or one tab keeps silent on the gateway link, and without  *)
(* the tab there never is a session.                                       *)
(***************************************************************************)
EXTENDS GatewayLink

CONSTANTS Conns, Tasks, MaxPc
VARIABLES part, sessions, pc, task

Peer == INSTANCE WebRtcPeer

ASSUME PeerAssumption == MaxPc \in Nat /\ None \notin Peer!Pcs \cup Conns

Silent == Agents \cup Tabs
PluginInit ==
    /\ part \in Silent \cup {"peer"} /\ Init /\ Peer!Init
    /\ part \notin Agents => ~session
PluginNext ==
    \/ /\ part \in Silent /\ Next /\ call'[part] = call[part]
       /\ part \notin Agents => ~session'
       /\ UNCHANGED <<part, sessions, pc, task>>
    \/ part = "peer" /\ Peer!Next /\ UNCHANGED <<part, vars>>
PluginSpec == PluginInit /\ [][PluginNext]_<<part, vars, sessions, pc, task>>

\* See WebRtcPeer: a peer connection that no session holds comes of overlapping
\* offers of one connId only, and a tab with its channel is served until one of
\* them ends.
PeersServed == []Peer!TypeOK /\ Peer!StrayOnlyByOverlap /\ Peer!ServedUntilItsEnd
=============================================================================
