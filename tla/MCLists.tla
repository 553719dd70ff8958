------------------------------ MODULE MCLists -------------------------------
(***************************************************************************)
(* What a tab of the app lists, for TLC: its bots by the status stream,    *)
(* topics and sessions, agents, drafts, the stores of its chats, and the   *)
(* messages of a chat.  The parts share no state, so that each is explored *)
(* by itself: part says which one it is, and x1, x2, ... are its           *)
(* variables, if it is not the status stream.                              *)
(***************************************************************************)
EXTENDS StatusStream, TLC

CONSTANTS
    ListBots, ListTopics, OwnerOf,
    Users, Nobody, Topics, MaxTopic, MaxStore, MaxSession, Opened, MaxMessage, MaxBlock, MaxCall

VARIABLES part, x1, x2, x3, x4, x5, x6, x7, x8, x9, x10, x11, x12, x13

\* One topic, of the first of two bots.
FirstBots == [t \in ListTopics |-> t]
ASSUME OwnerAssumption == OwnerOf \in [ListTopics -> ListBots]

Lists == INSTANCE TopicLists WITH
    Bots <- ListBots, Topics <- ListTopics, Owner <- OwnerOf, bots <- x1,
    topicsAt <- x2, topics <- x3, topicLoad <- x4, sessions <- x5, sessionLoad <- x6,
    heard <- x7, overtaken <- x8, late <- x9
Agents == INSTANCE AgentLists WITH
    channel <- x1, agents <- x2, agentLoad <- x3, dash <- x4, dashLoads <- x5
Drafts == INSTANCE UserDrafts WITH
    user <- x1, draft <- x2, stored <- x3, refresh <- x4, crossed <- x5
Stores == INSTANCE ChatStores WITH
    instances <- x1, topicLru <- x2, running <- x3, page <- x4, ahead <- x5, made <- x6,
    crowded <- x7, asked <- x8, blocked <- x9, late <- x10
Chat == INSTANCE ChatLoad WITH
    cur <- x1, shows <- x2, curId <- x3, load <- x4, slash <- x5, then <- x6, ids <- x7,
    count <- x8, exhausted <- x9, list <- x10, next <- x11, segs <- x12, passed <- x13
Turn == INSTANCE AgentTurn WITH
    shown <- x1, saved <- x2, msg <- x3

\* The bounds are numbers; a chat is opened in one of its sessions.
ASSUME TabAssumption ==
    /\ MaxTopic \in Nat /\ MaxStore \in Nat /\ 0 \notin Topics
    /\ MaxSession \in Nat /\ Opened \in 1..MaxSession
    /\ MaxMessage \in Nat \ {0} /\ MaxBlock \in Nat /\ MaxCall \in Nat

\* A part that has n variables leaves the others alone.
Unused(n) ==
    /\ IF n < 1 THEN x1 = 0 ELSE TRUE
    /\ IF n < 2 THEN x2 = 0 ELSE TRUE
    /\ IF n < 3 THEN x3 = 0 ELSE TRUE
    /\ IF n < 4 THEN x4 = 0 ELSE TRUE
    /\ IF n < 5 THEN x5 = 0 ELSE TRUE
    /\ IF n < 6 THEN x6 = 0 ELSE TRUE
    /\ IF n < 7 THEN x7 = 0 ELSE TRUE
    /\ IF n < 8 THEN x8 = 0 ELSE TRUE
    /\ IF n < 9 THEN x9 = 0 ELSE TRUE
    /\ IF n < 10 THEN x10 = 0 ELSE TRUE
    /\ IF n < 11 THEN x11 = 0 ELSE TRUE
    /\ IF n < 12 THEN x12 = 0 ELSE TRUE
    /\ IF n < 13 THEN x13 = 0 ELSE TRUE
Still(n) ==
    /\ IF n < 1 THEN UNCHANGED x1 ELSE TRUE
    /\ IF n < 2 THEN UNCHANGED x2 ELSE TRUE
    /\ IF n < 3 THEN UNCHANGED x3 ELSE TRUE
    /\ IF n < 4 THEN UNCHANGED x4 ELSE TRUE
    /\ IF n < 5 THEN UNCHANGED x5 ELSE TRUE
    /\ IF n < 6 THEN UNCHANGED x6 ELSE TRUE
    /\ IF n < 7 THEN UNCHANGED x7 ELSE TRUE
    /\ IF n < 8 THEN UNCHANGED x8 ELSE TRUE
    /\ IF n < 9 THEN UNCHANGED x9 ELSE TRUE
    /\ IF n < 10 THEN UNCHANGED x10 ELSE TRUE
    /\ IF n < 11 THEN UNCHANGED x11 ELSE TRUE
    /\ IF n < 12 THEN UNCHANGED x12 ELSE TRUE
    /\ IF n < 13 THEN UNCHANGED x13 ELSE TRUE

TabInit ==
    /\ Init
    /\ \/ part = "stream" /\ Unused(0)
       \/ part = "lists" /\ Lists!Init /\ Unused(9) /\ bound = {}
       \/ part = "agents" /\ Agents!Init /\ Unused(5) /\ bound = {}
       \/ part = "drafts" /\ Drafts!Init /\ Unused(5) /\ bound = {}
       \/ part = "stores" /\ Stores!Init /\ Unused(10) /\ bound = {}
       \/ part = "chat" /\ Chat!Init /\ Unused(13) /\ bound = {}
       \/ part = "turn" /\ Turn!Init /\ Unused(3) /\ bound = {}

TabNext ==
    /\ UNCHANGED part
    /\ IF part = "stream" THEN Next /\ Still(0) ELSE UNCHANGED vars
    /\ \/ part = "stream"
       \/ part = "lists" /\ Lists!Next /\ Still(9)
       \/ part = "agents" /\ Agents!Next /\ Still(5)
       \/ part = "drafts" /\ Drafts!Next /\ Still(5)
       \/ part = "stores" /\ Stores!Next /\ Still(10)
       \/ part = "chat" /\ Chat!Next /\ Still(13)
       \/ part = "turn" /\ Turn!Next /\ Still(3)

allVars == <<part, vars, x1, x2, x3, x4, x5, x6, x7, x8, x9, x10, x11, x12, x13>>
TabSpec == TabInit /\ [][TabNext]_allVars

Symmetry == Permutations(Streams) \cup Permutations(Bots)

-----------------------------------------------------------------------------
(* Properties: each is stated and explained in the module of its part *)

\* The tab's lists agree with what it was told, and nothing of one user, bot or
\* topic is shown for another.  See TopicLists for topics and sessions, AgentLists
\* for agents and the dashboard, UserDrafts for drafts.
ListsAgree ==
    CASE part = "lists" -> Lists!ListedAsHeard
      [] part = "agents" -> Agents!NeverStuck
      [] part = "drafts" -> Drafts!DraftsOwn
      [] OTHER -> TRUE

\* What the page shows of a chat is all there is, once and in order.  See ChatLoad
\* for former sessions, AgentTurn for a turn that was streamed, which is shown as it
\* is when it is loaded, and ChatStores for the store on the screen, which is the
\* one the manager has.
ChatShown ==
    CASE part = "chat" -> Chat!Timeline
      [] part = "turn" -> Turn!ShownAsSaved
      [] part = "stores" -> Stores!StoresKept
      [] OTHER -> TRUE
=============================================================================
