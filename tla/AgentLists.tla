----------------------------- MODULE AgentLists -----------------------------
(***************************************************************************)
(* The agents and the dashboard of one bot in the app:                     *)
(* src/ui/src/stores/{agents,dashboard}.store.js.  Both keep an entry per  *)
(* bot that their loads fill, even when it has been removed meanwhile.     *)
(***************************************************************************)
EXTENDS Naturals

VARIABLES
    channel,             \* the bot's channel is ready
    agents,              \* the agents' entry
    agentLoad,           \* _loadingByBot: a load that fills the entry, or an orphan
    dash,                \* the dashboard's entry
    dashLoads            \* the loads that are on: own is whether they fill the entry

vars == <<channel, agents, agentLoad, dash, dashLoads>>

Entry == [is : {"none", "empty", "error", "filled"}, loading : BOOLEAN]
NoEntry == [is |-> "none", loading |-> FALSE]

TypeOK ==
    /\ channel \in BOOLEAN
    /\ agents \in Entry /\ agentLoad \in {"none", "own", "orphan"}
    /\ dash \in Entry
    /\ dashLoads \subseteq [step : {"agents", "rpc"}, own : BOOLEAN]

Init ==
    /\ channel = FALSE /\ agents = NoEntry /\ agentLoad = "none"
    /\ dash = NoEntry /\ dashLoads = {}

Loading(e) == [is |-> IF e.is = "none" THEN "empty" ELSE e.is, loading |-> TRUE]

\* The end of a load: loading is reset whatever has happened.  And if it has not.
ResetIfFilled(e, is) == [is |-> is, loading |-> e.loading /\ is # "filled"]
Finally(e, is) == [is |-> is, loading |-> FALSE]

-----------------------------------------------------------------------------

\* loadAgents: one that is on is waited for, be its entry there or not.
LoadAgents ==
    /\ agentLoad = "none" /\ channel
    /\ agents' = Loading(agents) /\ agentLoad' = "own"
    /\ UNCHANGED <<channel, dash, dashLoads>>

\* The loads of the dashboard that have waited go on, with the agents there are.
GoOn == {[d EXCEPT !.step = "rpc"] : d \in dashLoads}

AgentsEnd(is) ==
    /\ agentLoad # "none" /\ agentLoad' = "none"
    /\ agents' = IF agentLoad = "own" THEN Finally(agents, is) ELSE agents
    /\ dashLoads' = GoOn
    /\ UNCHANGED <<channel, dash>>
AgentsAnswered == channel /\ AgentsEnd("filled")
AgentsFail == AgentsEnd(agents.is)

\* loadDashboard: the agents first, and then all requests at once
LoadDashboard ==
    /\ channel
    /\ dash' = Loading(dash)
    /\ dashLoads' = dashLoads \cup
         {[step |-> IF agents.is = "filled" THEN "rpc" ELSE "agents", own |-> TRUE]}
    /\ IF agents.is = "filled" THEN UNCHANGED <<agents, agentLoad>>
       ELSE /\ agentLoad' = IF agentLoad = "none" THEN "own" ELSE agentLoad
            /\ agents' = IF agentLoad = "none" THEN Loading(agents) ELSE agents
    /\ UNCHANGED channel

\* What has failed is left out; an answer that makes no sense is an error.
DashboardEnds(d) ==
    /\ d \in dashLoads /\ d.step = "rpc"
    /\ dashLoads' = dashLoads \ {d}
    /\ \E is \in {"filled", "error"} : dash' = IF d.own THEN Finally(dash, is) ELSE dash
    /\ UNCHANGED <<channel, agents, agentLoad>>

ChannelReady == channel' = TRUE /\ UNCHANGED <<agents, agentLoad, dash, dashLoads>>
ChannelLost == channel' = FALSE /\ UNCHANGED <<agents, agentLoad, dash, dashLoads>>

\* clearDashboard
DropDash == dash' = NoEntry /\ dashLoads' = {[d EXCEPT !.own = FALSE] : d \in dashLoads}

\* setBotOnline, applySnapshot: removeByBot, and the entries are gone.
Offline ==
    /\ agents' = NoEntry
    /\ agentLoad' = IF agentLoad = "own" THEN "orphan" ELSE agentLoad
    /\ DropDash
    /\ channel' = FALSE

\* removeBotById keeps the agents.
RemoveBot == channel' = FALSE /\ DropDash /\ UNCHANGED <<agents, agentLoad>>

Next ==
    \/ LoadAgents \/ AgentsAnswered \/ AgentsFail
    \/ LoadDashboard \/ \E d \in dashLoads : DashboardEnds(d)
    \/ ChannelReady \/ ChannelLost \/ Offline \/ RemoveBot

Spec == Init /\ [][Next]_vars

-----------------------------------------------------------------------------
(* Properties *)

\* An entry is marked as loading only while a load is on that will end in it:
\* one that was removed while it was loaded and is there again is not filled by
\* the former load, nor is it left in the hands of that one.
NeverStuck ==
    /\ TypeOK
    /\ agents.loading => agentLoad = "own"
    /\ dash.loading => \E d \in dashLoads : d.own
=============================================================================
