------------------------------ MODULE TopicLists -----------------------------
(***************************************************************************)
(* The topics and the sessions the app lists of its bots:                  *)
(* src/ui/src/stores/{topics,sessions}.store.js.  A load of either asks    *)
(* all bots whose channel is ready and is ended by the last answer.        *)
(*                                                                         *)
(* A bot answers on an ordered channel, so that an answer is taken as it   *)
(* is given; who asks, and when, is left open.                             *)
(***************************************************************************)
EXTENDS Naturals, FiniteSets

CONSTANTS
    Bots,
    Topics,
    Owner                \* of a topic: its bot

VARIABLES
    bots,                \* [listed, ready: botsStore.byId, those with a channel]
    topicsAt,            \* at the bots: what there is of a topic
    topics,              \* the topics store's byId: what is listed of it
    topicLoad,           \* [asked, got, failed: bots; snap: what they answered]
    sessions,            \* the bots whose sessions are listed
    sessionLoad,
    heard,               \* what the tab has last heard of a topic
    overtaken,           \* topics it has heard of since the load has their bot's answer
    late                 \* unlisted bots that were asked for their sessions before

listing == <<topicsAt, topics, topicLoad, heard, overtaken>>
others == <<sessions, sessionLoad, late>>
vars == <<bots, listing, others>>

What == {"no", "plain", "titled"}
Load == [asked : SUBSET Bots, got : SUBSET Bots, failed : SUBSET Bots]
NoLoad == [asked |-> {}, got |-> {}, failed |-> {}]
Nothing == [t \in Topics |-> "no"]

TypeOK ==
    /\ bots \in [listed : SUBSET Bots, ready : SUBSET Bots]
    /\ topicsAt \in [Topics -> What \cup {"deleted"}]
    /\ topics \in [Topics -> What] /\ heard \in [Topics -> What]
    /\ topicLoad \in [load : Load, snap : [Topics -> What]]
    /\ sessions \subseteq Bots /\ sessionLoad \in Load
    /\ overtaken \subseteq Topics /\ late \subseteq Bots

Init ==
    /\ bots = [listed |-> {}, ready |-> {}]
    /\ topicsAt = Nothing /\ topics = Nothing /\ heard = Nothing
    /\ topicLoad = [load |-> NoLoad, snap |-> Nothing]
    /\ sessions = {} /\ sessionLoad = NoLoad
    /\ overtaken = {} /\ late = {}

Asks(l) == l.asked \ (l.got \cup l.failed)
Ended(l) == l.asked # {} /\ Asks(l) = {}
Fail(l, lost) == [l EXCEPT !.failed = @ \cup (Asks(l) \cap lost)]

-----------------------------------------------------------------------------
(* Topics *)

\* The topics of the bots that have answered are replaced, those of the bots that
\* are not listed any more are dropped, and all others are kept.  And those of
\* all bots that were asked are replaced.
ReplaceAsked(l) == l.asked
Replaced(l) == l.got

Merged(l, snap, old, listed) ==
    [t \in Topics |-> IF Owner[t] \in l.got THEN snap[t]
                      ELSE IF Owner[t] \in Replaced(l) \/ Owner[t] \notin listed THEN "no"
                      ELSE old[t]]

\* __doLoadAll, when a bot has answered or failed: the last one ends it.
TopicsSettled(l, snap, old, listed) ==
    IF Ended(l)
    THEN /\ topics' = Merged(l, snap, old, listed)
         /\ topicLoad' = [load |-> NoLoad, snap |-> Nothing]
    ELSE topics' = old /\ topicLoad' = [load |-> l, snap |-> snap]

Unheard(l, listed) ==
    [t \in Topics |-> IF Ended(l) /\ Owner[t] \notin listed \cup l.got THEN "no" ELSE heard[t]]

\* loadAllTopics: with a load on its way it is waited for instead.
LoadTopics ==
    /\ topicLoad.load = NoLoad /\ bots.ready # {}
    /\ topicLoad' = [topicLoad EXCEPT !.load.asked = bots.ready]
    /\ UNCHANGED <<bots, topicsAt, topics, heard, overtaken, others>>

LoadTopicsOfNone ==
    /\ topicLoad.load = NoLoad /\ bots.listed = {}
    /\ topics' = Nothing /\ heard' = Nothing /\ overtaken' = {}
    /\ UNCHANGED <<bots, topicsAt, topicLoad, others>>

There(t) == IF topicsAt[t] = "deleted" THEN "no" ELSE topicsAt[t]
TopicsAnswered(b) ==
    /\ b \in Asks(topicLoad.load)
    /\ LET l == [topicLoad.load EXCEPT !.got = @ \cup {b}]
           mine == {t \in Topics : Owner[t] = b}
       IN  /\ TopicsSettled(l, [t \in Topics |-> IF t \in mine THEN There(t) ELSE topicLoad.snap[t]],
                            topics, bots.listed)
           /\ heard' = [t \in Topics |-> IF t \in mine THEN There(t) ELSE Unheard(l, bots.listed)[t]]
           /\ overtaken' = overtaken \ mine
    /\ UNCHANGED <<bots, topicsAt, others>>

TopicsRefused(b) ==
    /\ b \in Asks(topicLoad.load)
    /\ LET l == Fail(topicLoad.load, {b})
       IN  /\ TopicsSettled(l, topicLoad.snap, topics, bots.listed)
           /\ heard' = Unheard(l, bots.listed)
    /\ UNCHANGED <<bots, topicsAt, overtaken, others>>

\* createTopic, deleteTopic, updateTopic, generateTitle: here, or in another tab
\* or with an answer that is lost.
Change(t, now, here) ==
    /\ Owner[t] \in bots.ready
    /\ topicsAt' = [topicsAt EXCEPT ![t] = now]
    /\ IF here THEN /\ topics' = [topics EXCEPT ![t] = There(t)']
                    /\ heard' = [heard EXCEPT ![t] = There(t)']
                    /\ overtaken' = IF Owner[t] \in topicLoad.load.got
                                    THEN overtaken \cup {t} ELSE overtaken \ {t}
       ELSE UNCHANGED <<topics, heard, overtaken>>
    /\ UNCHANGED <<bots, topicLoad, others>>

Create(t, here) == topicsAt[t] = "no" /\ Change(t, "plain", here)
Delete(t, here) == There(t) # "no" /\ (here => topics[t] # "no") /\ Change(t, "deleted", here)
Update(t, here) == topicsAt[t] = "plain" /\ (here => topics[t] # "no") /\ Change(t, "titled", here)

-----------------------------------------------------------------------------
(* Sessions.  Whatever fails of a bot's requests, the bot has answered. *)

LoadSessions ==
    /\ sessionLoad = NoLoad /\ bots.ready # {}
    /\ sessionLoad' = [NoLoad EXCEPT !.asked = bots.ready]
    /\ UNCHANGED <<bots, listing, sessions, late>>

LoadSessionsOfNone ==
    /\ sessionLoad = NoLoad /\ bots.listed = {}
    /\ sessions' = {}
    /\ UNCHANGED <<bots, listing, sessionLoad, late>>

\* failed: the bots of which no session is known
SessionsSettled(l, old, listed) ==
    IF Ended(l)
    THEN /\ sessions' = l.got \cup ((old \cap listed) \ l.asked)
         /\ sessionLoad' = NoLoad
    ELSE sessions' = old /\ sessionLoad' = l

SessionsAnswered(b) ==
    /\ b \in Asks(sessionLoad)
    /\ \/ SessionsSettled([sessionLoad EXCEPT !.got = @ \cup {b}], sessions, bots.listed)
       \/ SessionsSettled(Fail(sessionLoad, {b}), sessions, bots.listed)
    /\ UNCHANGED <<bots, listing, late>>

-----------------------------------------------------------------------------
(* Bots that come and go *)

BotListed(b) ==
    /\ b \notin bots.listed
    /\ bots' = [bots EXCEPT !.listed = @ \cup {b}]
    /\ late' = late \ {b}
    /\ UNCHANGED <<listing, sessions, sessionLoad>>

ChannelReady(b) ==
    /\ b \in bots.listed \ bots.ready
    /\ bots' = [bots EXCEPT !.ready = @ \cup {b}]
    /\ UNCHANGED <<listing, others>>

\* The channel is lost or the bot is offline; the requests fail by and by.
ChannelLost(b) ==
    /\ b \in bots.ready
    /\ bots' = [bots EXCEPT !.ready = @ \ {b}]
    /\ UNCHANGED <<listing, others>>

\* removeBotById, applySnapshot: the topics are left.
BotGone(b) ==
    /\ b \in bots.listed
    /\ bots' = [listed |-> bots.listed \ {b}, ready |-> bots.ready \ {b}]
    /\ sessions' = sessions \ {b}
    /\ late' = late \cup ({b} \cap sessionLoad.asked)
    /\ UNCHANGED <<listing, sessionLoad>>

\* logout: what is asked fails, and loads that are on end on empty stores.
Logout ==
    /\ bots.listed # {}
    /\ bots' = [listed |-> {}, ready |-> {}]
    /\ LET l == Fail(topicLoad.load, Bots)
       IN  TopicsSettled(l, topicLoad.snap, Nothing, {})
    /\ heard' = [t \in Topics |-> IF Owner[t] \in topicLoad.load.got THEN heard[t] ELSE "no"]
    /\ SessionsSettled(Fail(sessionLoad, Bots), {}, {})
    /\ late' = late \cup sessionLoad.asked
    /\ UNCHANGED <<topicsAt, overtaken>>

Next ==
    \/ LoadTopics \/ LoadTopicsOfNone \/ LoadSessions \/ LoadSessionsOfNone \/ Logout
    \/ \E b \in Bots :
        \/ TopicsAnswered(b) \/ TopicsRefused(b) \/ SessionsAnswered(b)
        \/ BotListed(b) \/ ChannelReady(b) \/ ChannelLost(b) \/ BotGone(b)
    \/ \E t \in Topics, here \in BOOLEAN : Create(t, here) \/ Delete(t, here) \/ Update(t, here)

Spec == Init /\ [][Next]_vars

-----------------------------------------------------------------------------
(* Properties *)

\* A topic is listed as the tab has last heard of it, whatever bots fail or go
\* while the topics are loaded; but for one it has heard of when the load had its
\* bot's answer and waited for another's.  Sessions of a bot that is not listed
\* are of a load that had asked it before.
ListedAsHeard ==
    /\ TypeOK
    /\ \A t \in Topics : topics[t] = heard[t] \/ Owner[t] \in topicLoad.load.got \/ t \in overtaken
    /\ sessions \subseteq bots.listed \cup late
=============================================================================
