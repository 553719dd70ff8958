----------------------------- MODULE ChatStores -----------------------------
(***************************************************************************)
(* The stores of the topics of a tab,                                      *)
(* src/ui/src/stores/chat-store-manager.js, with the page that shows one:  *)
(* chatStore and __handleNewTopicSend of src/ui/src/views/ChatPage.vue.    *)
(* A store is made when it is first asked for; the one that was longest    *)
(* not asked for goes when there are too many, unless its agent is running.*)
(* A run is registered when the agent has accepted the message, which may  *)
(* be after the page went elsewhere or the store that sent it has gone:    *)
(* disposing of a store rejects what sendMessage waits for, the request    *)
(* with its onAccepted stays.                                              *)
(***************************************************************************)
EXTENDS Naturals, Sequences, SequencesExt

CONSTANTS
    Topics,
    MaxTopic,            \* MAX_TOPIC_INSTANCES
    MaxStore             \* bound: stores made

VARIABLES
    instances,           \* topic -> its store, or 0
    topicLru,            \* the topics, the last one asked for at the end
    asked,               \* the topics a message was sent in
    running,             \* the topics whose run is active
    page,                \* the topic and the store on the screen
    ahead,               \* a new topic and the store made for it, before the page is at it
    made,                \* stores made so far
    crowded,             \* a store was made while too few others were idle
    blocked,             \* when the last one was made, all that stayed had a run
    late                 \* running topics without a store, whose run was accepted
                         \* when it had none

ghosts == <<crowded, blocked, late>>
vars   == <<instances, topicLru, asked, running, page, ahead, made, ghosts>>

Nothing == [topic |-> 0, store |-> 0]
Place == [topic : Topics, store : 1..MaxStore] \cup {Nothing}

TypeOK ==
    /\ instances \in [Topics -> 0..MaxStore] /\ topicLru \in Seq(Topics)
    /\ asked \subseteq Topics /\ running \subseteq Topics
    /\ page \in Place /\ ahead \in Place /\ made \in 0..MaxStore
    /\ crowded \in BOOLEAN /\ blocked \in BOOLEAN /\ late \subseteq Topics

Init ==
    /\ instances = [t \in Topics |-> 0] /\ topicLru = <<>>
    /\ asked = {} /\ running = {}
    /\ page = Nothing /\ ahead = Nothing /\ made = 0
    /\ crowded = FALSE /\ blocked = FALSE /\ late = {}

-----------------------------------------------------------------------------
(* The manager *)

\* What a list has of some topics, in its order
Only(lru, of) == FoldLeft(LAMBDA kept, t : IF t \in of THEN Append(kept, t) ELSE kept, <<>>, lru)

\* __touchTopic, and a manager that leaves the order alone
LeaveTopic(t) == topicLru
TouchTopic(t) == Append(Only(topicLru, Topics \ {t}), t)

\* __evictTopics: the topics that go, of the order it is given.  When there are
\* not enough that are idle, it is blocked and leaves the rest.  And a manager
\* that evicts one topic for each that is made.
Over(lru) == IF Len(lru) > MaxTopic THEN Len(lru) - MaxTopic ELSE 0
Idle(lru) == Only(lru, Topics \ running)
Evicted(lru) ==
    {Idle(lru)[i] : i \in 1..(IF Over(lru) < Len(Idle(lru)) THEN Over(lru) ELSE Len(Idle(lru)))}
EvictedOne(lru) == IF Over(lru) > 0 /\ Idle(lru) # <<>> THEN {Idle(lru)[1]} ELSE {}

\* get; its result is the store of t, though it may be gone already
Result(t) == IF instances[t] # 0 THEN instances[t] ELSE made + 1
Get(t) ==
    IF instances[t] # 0
    THEN topicLru' = TouchTopic(t) /\ UNCHANGED <<instances, made, ghosts>>
    ELSE LET gone == Evicted(Append(topicLru, t))
         IN /\ made < MaxStore /\ made' = made + 1
            /\ topicLru' = Only(Append(topicLru, t), Topics \ gone)
            /\ instances' = [x \in Topics |-> IF x \in gone THEN 0 ELSE IF x = t THEN made + 1 ELSE instances[x]]
            /\ crowded' = (crowded \/ Over(Append(topicLru, t)) >
                             Len(Only(topicLru, Topics \ (running \cup {page.topic}))))
            /\ blocked' = (ToSet(topicLru') \subseteq running)
            /\ late' = late \ {t}

-----------------------------------------------------------------------------
(* The page *)

\* chatStore: it is worked out anew when the route or the topic's data change.
ChatStore(t) == Get(t) /\ page' = [topic |-> t, store |-> Result(t)]

Open(t) == ahead = Nothing /\ ChatStore(t) /\ UNCHANGED <<asked, running, ahead>>

\* __handleNewTopicSend: a store of the new topic is made and marked as loaded, ...
NewTopic(t) ==
    /\ ahead = Nothing /\ instances[t] = 0 /\ t # page.topic
    /\ Get(t) /\ ahead' = [topic |-> t, store |-> Result(t)]
    /\ UNCHANGED <<asked, running, page>>

\* ... then the route is replaced, and the message sent in the store of the page.
Replaced ==
    /\ ahead # Nothing
    /\ ChatStore(ahead.topic) /\ ahead' = Nothing
    /\ UNCHANGED <<asked, running>>

-----------------------------------------------------------------------------
(* Messages and their runs *)

\* sendMessage of the store on the screen, whether or not the manager has it.
Send ==
    /\ page # Nothing
    /\ asked' = asked \cup {page.topic}
    /\ UNCHANGED <<instances, topicLru, running, page, ahead, made, ghosts>>

\* onAccepted registers the run, whenever that comes.  A topic stays asked: its
\* store may have sent another message when the first was cancelled.
Accepted(t) ==
    /\ t \in asked
    /\ running' = running \cup {t}
    /\ late' = IF instances[t] = 0 THEN late \cup {t} ELSE late
    /\ UNCHANGED <<instances, topicLru, asked, page, ahead, made, crowded, blocked>>

RunEnds(t) ==
    /\ running' = running \ {t} /\ late' = late \ {t}
    /\ UNCHANGED <<instances, topicLru, asked, page, ahead, made, crowded, blocked>>

Next ==
    \/ \E t \in Topics : Open(t) \/ NewTopic(t) \/ Accepted(t) \/ RunEnds(t)
    \/ Replaced \/ Send

Spec == Init /\ [][Next]_vars

-----------------------------------------------------------------------------
(* Properties *)

\* The store on the screen, and the one prepared for a new topic, is the one the
\* manager has, unless one was made while fewer others were idle than had to go.
\* There are too many only if all that stayed had a run when the last one was
\* made.  None goes while its agent runs: a topic with a run and no store had
\* none when its message was accepted.
Held(place) == place = Nothing \/ instances[place.topic] = place.store
StoresKept ==
    /\ TypeOK
    /\ crowded \/ (Held(page) /\ Held(ahead))
    /\ ToSet(topicLru) = {t \in Topics : instances[t] # 0}
    /\ Len(topicLru) > MaxTopic => blocked
    /\ running \ ToSet(topicLru) = late
=============================================================================
