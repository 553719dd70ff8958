------------------------------ MODULE ChatLoad ------------------------------
(***************************************************************************)
(* What one chat of the app shows: the messages of its session, the        *)
(* segments of former sessions above them that are loaded one by one, and  *)
(* the slash command /new, which ends a session:                           *)
(* src/ui/src/stores/chat.store.js.  Of the other commands the store only  *)
(* loads the messages silently, as it does at any time.                    *)
(*                                                                         *)
(* Sessions are numbered in the order they begin at the gateway.  What a   *)
(* request is answered is of some time since it was made.                  *)
(***************************************************************************)
EXTENDS Naturals, Sequences, SequencesExt

CONSTANTS
    MaxSession,          \* bound: sessions of the chat
    Opened               \* the session there is when the chat is opened

None == 0
Sessions == 1..MaxSession

VARIABLES
    cur,                 \* at the gateway: the session there is
    shows,               \* there are messages of a session
    curId,               \* currentSessionId
    load,                \* per kind of load: [step, asked: cur when the id was]
    slash,               \* the slash command that is pending
    then,                \* the id that waits for the silent load after /new
    ids,                 \* historySessionIds, the latest first
    count,               \* __historyLoadedCount
    exhausted,           \* historyExhausted
    list,                \* __historyListPromise: cur when it was asked
    next,                \* loadNextHistorySession: the session it awaits
    segs,                \* historySegments
    passed               \* the sessions that the count has passed without a segment

vars == <<cur, shows, curId, load, slash, then, ids, count, exhausted, list, next, segs, passed>>
loads == <<shows, curId, load>>
history == <<ids, count, exhausted, list, next, passed>>

Kinds == {"first", "silent"}
TypeOK ==
    /\ cur \in Sessions /\ shows \in BOOLEAN /\ curId \in Sessions \cup {None}
    /\ load \in [Kinds -> [step : {"none", "get", "hist"}, asked : Sessions \cup {None}]]
    /\ slash \in {"none", "new", "new done"}
    /\ then \in [id : Sessions \cup {None}, on : BOOLEAN]
    /\ ids \in Seq(Sessions) /\ count \in 0..MaxSession /\ exhausted \in BOOLEAN
    /\ list \in Sessions \cup {None} /\ next \in Sessions \cup {None}
    /\ segs \in Seq(Sessions) /\ passed \subseteq Sessions

NoLoad == [step |-> "none", asked |-> None]
Nothing == [id |-> None, on |-> FALSE]

Init ==
    /\ cur = Opened /\ shows = FALSE /\ curId = None
    /\ load = [k \in Kinds |-> NoLoad] /\ slash = "none" /\ then = Nothing
    /\ ids = <<>> /\ count = 0 /\ exhausted = FALSE
    /\ list = None /\ next = None /\ segs = <<>> /\ passed = {}

-----------------------------------------------------------------------------
(* loadMessages *)

\* A load of its kind that is on its way is waited for instead.
Begin(k) ==
    load' = IF load[k].step # "none" THEN load
            ELSE [load EXCEPT ![k] = [step |-> "get", asked |-> None]]

Load(k) ==
    /\ load[k].step = "none" /\ (k = "first" => ~shows)
    /\ Begin(k)
    /\ UNCHANGED <<cur, shows, curId, slash, then, segs, history>>

\* sessions.get, and then chat.history for the id
GotMessages(k) ==
    /\ load[k].step = "get"
    /\ shows' = TRUE
    /\ load' = [load EXCEPT ![k] = [step |-> "hist", asked |-> cur]]
    /\ UNCHANGED <<cur, curId, slash, then, segs, history>>

\* After /new: the messages of the session before are kept as a segment.
HasSegment(s) == Contains(segs, s)
Archive(id) ==
    /\ segs' = IF then.id \notin {None, id} /\ ~HasSegment(then.id)
               THEN Append(segs, then.id) ELSE segs
    /\ then' = Nothing

\* __loadChatHistory, once at a time
Listed == list' = IF list # None THEN list ELSE cur

Finished(k, id) ==
    /\ load' = [load EXCEPT ![k] = NoLoad]
    /\ curId' = id
    /\ IF k = "silent" /\ then.on THEN Archive(id) /\ Listed
       ELSE IF k = "first" THEN Listed /\ UNCHANGED <<then, segs>>
       ELSE UNCHANGED <<then, segs, list>>
    /\ UNCHANGED <<cur, slash, ids, count, exhausted, next, passed>>

GotId(k) ==
    /\ load[k].step = "hist"
    /\ \E id \in load[k].asked..cur : Finished(k, id)
    /\ UNCHANGED shows

\* Only a first load that fails takes the messages away.
LoadFails(k) ==
    /\ load[k].step # "none"
    /\ shows' = IF k = "first" THEN FALSE ELSE shows
    /\ Finished(k, curId)

-----------------------------------------------------------------------------
(* Slash commands *)

\* One /new at a time has its load to wait for, to bound the states.
SendNew ==
    /\ slash = "none" /\ ~then.on /\ shows
    /\ slash' = "new"
    /\ UNCHANGED <<cur, loads, then, segs, history>>

\* The gateway has begun a new session.
Done ==
    /\ slash = "new" /\ cur < MaxSession
    /\ slash' = "new done" /\ cur' = cur + 1
    /\ UNCHANGED <<loads, then, segs, history>>

\* event:chat: final, and a silent load
FinalNew ==
    /\ slash = "new done"
    /\ slash' = "none"
    /\ then' = [id |-> IF shows THEN curId ELSE None, on |-> TRUE]
    /\ Begin("silent")
    /\ UNCHANGED <<cur, shows, curId, segs, history>>

\* error, timeout, a failure of the request, or the page is left
SlashFails ==
    /\ slash # "none"
    /\ slash' = "none"
    /\ UNCHANGED <<cur, loads, then, segs, history>>

\* __reconcileSlashCommand: after a reconnect it is taken for done, whatever has
\* become of it, and the page loads the messages and the list.
ReconcileSlash ==
    /\ slash # "none"
    /\ slash' = "none" /\ Begin("silent")
    /\ Listed
    /\ UNCHANGED <<cur, shows, curId, then, segs, ids, count, exhausted, next, passed>>

\* The session is reset by another tab, or by resetChat of the topics' page.
OtherReset ==
    /\ cur < MaxSession /\ cur' = cur + 1
    /\ UNCHANGED <<loads, slash, then, segs, history>>

-----------------------------------------------------------------------------
(* The history *)

Former(s) == [i \in 1..s - 1 |-> s - i]

ListAnswered ==
    /\ list # None
    /\ \E s \in list..cur : ids' = Former(s) /\ exhausted' = (s = 1)
    /\ count' = 0 /\ list' = None
    /\ UNCHANGED <<cur, loads, slash, then, segs, next, passed>>

ListFails ==
    /\ list # None
    /\ ids' = <<>> /\ exhausted' = TRUE /\ list' = None
    /\ UNCHANGED <<cur, loads, slash, then, segs, count, next, passed>>

\* Sessions that have their segment are passed over.  And none are.
NotSkipped == count
Skipped ==
    LET left == {i \in count..Len(ids) - 1 : ~HasSegment(ids[i + 1])}
    IN  IF left = {} THEN Len(ids) ELSE CHOOSE i \in left : \A j \in left : i <= j

\* No ids yet, before the messages are there, does not mean that there are no
\* more.  Without a connection none is asked for.
LoadNext ==
    /\ ~exhausted /\ next = None /\ (ids = <<>> => shows)
    /\ count' = Skipped
    /\ IF Skipped >= Len(ids) THEN exhausted' = TRUE /\ UNCHANGED next
       ELSE next' \in {ids[Skipped + 1], None} /\ UNCHANGED exhausted
    /\ UNCHANGED <<cur, loads, slash, then, segs, ids, list, passed>>

Counted(got) ==
    /\ count' = count + 1
    /\ exhausted' = (exhausted \/ count + 1 >= Len(ids))
    /\ passed' = passed \cup {ids[i] : i \in {j \in 1..Len(ids) :
                    j <= count + 1 /\ ids[j] # got /\ ~HasSegment(ids[j])}}

NextAnswered ==
    /\ next # None
    /\ segs' = <<next>> \o segs
    /\ Counted(next) /\ next' = None
    /\ UNCHANGED <<cur, loads, slash, then, ids, list>>

NextFails ==
    /\ next # None
    /\ UNCHANGED segs
    /\ Counted(None) /\ next' = None
    /\ UNCHANGED <<cur, loads, slash, then, ids, list>>

Next ==
    \/ \E k \in Kinds : Load(k) \/ GotMessages(k) \/ GotId(k) \/ LoadFails(k)
    \/ SendNew \/ Done \/ FinalNew \/ SlashFails \/ ReconcileSlash \/ OtherReset
    \/ ListAnswered \/ ListFails \/ LoadNext \/ NextAnswered \/ NextFails

Spec == Init /\ [][Next]_vars

-----------------------------------------------------------------------------
(* Properties *)

\* Former sessions are shown once each and in their order.  Only one that has
\* ended since the chat was opened may be out of place, and one that had been
\* passed over: it could not be loaded, or the list was replaced meanwhile.
Timeline ==
    /\ TypeOK
    /\ \A i, j \in DOMAIN segs : (i < j /\ segs[i] >= segs[j])
         => segs[i] >= Opened \/ segs[i] \in passed
=============================================================================
