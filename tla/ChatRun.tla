------------------------------ MODULE ChatRun -------------------------------
(***************************************************************************)
(* Sending messages in one chat of the app, and the agent's runs they      *)
(* start: src/ui/src/stores/chat.store.js and agent-runs.store.js over the *)
(* requests of services/bot-connection.js.                                 *)
(*                                                                         *)
(* The agent accepts a message, works on it and ends; the tab is told so,  *)
(* by an accepted answer, events and a final answer, as long as its data   *)
(* channel is up.  Whatever happens is an event of the browser's loop,     *)
(* with the continuations of the promises it settles.  Of a message the    *)
(* model keeps whose it is: the optimistic copy in messages (local), in    *)
(* the run's streaming messages, or what a load has brought (shown).       *)
(***************************************************************************)
EXTENDS Naturals, FiniteSets

CONSTANT MaxSend         \* bound: messages sent in the chat

Sends == 1..MaxSend
None == 0

VARIABLES
    tab,                 \* the chat's store, the run's store, the requests
    agent,               \* per message: 1 accepted, 2 ended
    told,                \* how much of that the tab has been told, or has missed
    sent,                \* the messages that have been handed to a channel
    up,                  \* the data channel is ready
    page,                \* the chat is on the screen
    crossed              \* sending has ended while a call that had set it was on

vars == <<tab, agent, told, sent, up, page, crossed>>

Timer == [of : Sends, post : BOOLEAN]
NoTimer == [of |-> None, post |-> FALSE]
Run == [of : Sends, msgs : SUBSET Sends, seen : BOOLEAN, settling : BOOLEAN]
NoRun == [of |-> None, msgs |-> {}, seen |-> FALSE, settling |-> FALSE]

Tab == [sending : BOOLEAN, accepted : BOOLEAN, settled : BOOLEAN,
        retried : Sends \cup {None},  \* the message whose retry sets __retried
        cancel : Sends \cup {None},   \* whose race __cancelReject ends
        local : SUBSET Sends,
        step : [Sends -> {"new", "upload", "stuck", "asked", "rewait", "after", "recon", "reused", "done"}],
        req : [Sends -> {"none", "pending", "acked", "lost", "closed"}],
        timers : SUBSET Timer,        \* the timers that are armed,
        ref : Timer \cup {NoTimer},   \* and the one in __streamingTimer
        run : Run \cup {NoRun},       \* the run of the chat's runKey
        shown : SUBSET Sends,         \* the messages whose result is in messages
        load : [on : BOOLEAN, from : SUBSET Sends]]  \* __silentLoadPromise

TypeOK ==
    /\ tab \in Tab
    /\ agent \in [Sends -> 0..2] /\ told \in [Sends -> 0..2]
    /\ sent \subseteq Sends /\ up \in BOOLEAN /\ page \in BOOLEAN /\ crossed \in BOOLEAN

Idle == [on |-> FALSE, from |-> {}]

Init ==
    /\ tab = [sending |-> FALSE, accepted |-> FALSE, settled |-> FALSE, retried |-> None,
              cancel |-> None, local |-> {}, step |-> [s \in Sends |-> "new"],
              req |-> [s \in Sends |-> "none"], timers |-> {}, ref |-> NoTimer,
              run |-> NoRun, shown |-> {}, load |-> Idle]
    /\ agent = [s \in Sends |-> 0] /\ told = [s \in Sends |-> 0]
    /\ sent = {} /\ up = TRUE /\ page = TRUE /\ crossed = FALSE

-----------------------------------------------------------------------------
(* What the stores do, as functions of the tab *)

\* The results a load finds at the gateway.
Stored == {s \in Sends : agent[s] = 2}

Quiet(t) == [t EXCEPT !.sending = FALSE]
NoLocal(t) == [t EXCEPT !.local = {}]
ClearTimer(t) == [t EXCEPT !.timers = @ \ {t.ref}, !.ref = NoTimer]
CleanupStreaming(t) == NoLocal(ClearTimer(t))
SettleRun(t) == [t EXCEPT !.run = NoRun]

\* __loadTopicMessages asks the gateway, which finds what is stored by then.
StartLoad(t) == [t EXCEPT !.load = [on |-> TRUE, from |-> Stored]]

\* A load is over, and the calls that wait for it go on.
LoadEnds(t) ==
    [t EXCEPT !.load = Idle,
              !.step = [s \in Sends |-> IF @[s] \in {"recon", "reused"} THEN "done" ELSE @[s]]]

\* stripLocalUserMsgs: the load has brought the message the run was started by.
StripLocalUserMsgs(t) == IF t.run # NoRun THEN [t EXCEPT !.run.msgs = {}] ELSE t

\* loadMessages({silent: true}): one at a time, whoever asks for it.
SilentLoad(t) == IF ~up \/ t.load.on THEN t ELSE StartLoad(t)

\* The call of sendMessage for s is over.
Return(t, s) ==
    [t EXCEPT !.step[s] = "done", !.retried = IF @ = s THEN None ELSE @]

\* The request itself, and the two promises it races with.
Ask(t, s) ==
    [t EXCEPT !.step[s] = "asked", !.cancel = s,
              !.timers = @ \cup {[of |-> s, post |-> FALSE]}, !.ref = [of |-> s, post |-> FALSE],
              !.req[s] = IF up THEN "pending" ELSE "closed"]

\* isDisconnectError: the loss of the connection is not one of its codes, the
\* channel not being ready or not taking the message is.
IsDisconnect(code) == code = "channel"

\* The catch block of sendMessage.
Catch(t, s, code) ==
    IF t.settled /\ IsDisconnect(code) THEN Return(t, s)
    ELSE IF code = "upload cancelled" /\ ~t.accepted THEN Return(Quiet(NoLocal(t)), s)
    ELSE IF code = "cancelled"
         THEN Return(Quiet(ClearTimer(IF t.accepted THEN t ELSE NoLocal(t))), s)
    ELSE IF IsDisconnect(code) /\ t.accepted
         THEN [Quiet(ClearTimer(t)) EXCEPT !.step[s] = "after"]
    ELSE IF IsDisconnect(code) /\ t.retried = None
         THEN [Quiet(CleanupStreaming(t)) EXCEPT !.step[s] = "rewait"]
    ELSE IF t.accepted THEN Return(SilentLoad(Quiet(ClearTimer(t))), s)
    ELSE Return(Quiet(CleanupStreaming(t)), s)

\* cancelReject, of a race that is on or not any more
CancelRace(t) ==
    IF t.cancel # None /\ t.step[t.cancel] = "asked"
    THEN [Catch(t, t.cancel, "cancelled") EXCEPT !.cancel = None]
    ELSE [t EXCEPT !.cancel = None]

CancelUpload(t) ==
    IF \E s \in Sends : t.step[s] = "upload"
    THEN Catch(t, CHOOSE s \in Sends : t.step[s] = "upload", "upload cancelled")
    ELSE t

-----------------------------------------------------------------------------
(* The user *)

Others == UNCHANGED <<agent, told, sent, up, page>>

Handed(s) == /\ sent' = IF up /\ agent[s] = 0 THEN sent \cup {s} ELSE sent
             /\ told' = [told EXCEPT ![s] = 0]

\* sendMessage, which the page calls when nothing is sent or runs.
MaySend(s) ==
    /\ page /\ up /\ ~tab.sending /\ tab.run = NoRun
    /\ tab.step[s] = "new" /\ \A r \in 1..s - 1 : tab.step[r] # "new"
Begin(t) == [t EXCEPT !.sending = TRUE, !.settled = FALSE, !.accepted = FALSE]

Send(s) ==
    /\ MaySend(s)
    /\ tab' = Ask([Begin(tab) EXCEPT !.local = @ \cup {s}], s)
    /\ Handed(s) /\ UNCHANGED <<agent, up, page>>

SendFiles(s) ==
    /\ MaySend(s)
    /\ tab' = [Begin(tab) EXCEPT !.local = @ \cup {s}, !.step[s] = "upload"]
    /\ Others

\* An image cannot be read: the error comes before the try.
SendUnreadable(s) ==
    /\ MaySend(s)
    /\ tab' = [Begin(tab) EXCEPT !.step[s] = "stuck"]
    /\ Others

Uploaded(s) ==
    /\ tab.step[s] = "upload"
    /\ tab' = Ask(tab, s)
    /\ Handed(s) /\ UNCHANGED <<agent, up, page>>

UploadFails(s) ==
    /\ tab.step[s] = "upload"
    /\ tab' = Catch(tab, s, "upload")
    /\ Others

\* cancelSend, by the user or because the bot is offline
CancelSend ==
    /\ page
    /\ LET t == CancelUpload(tab)
           v == IF t.accepted THEN SilentLoad(Quiet(ClearTimer(SettleRun(t))))
                ELSE Quiet(CleanupStreaming(t))
       IN  tab' = CancelRace(v)
    /\ Others

\* cleanup, when the page is left.  And one that forgets the run as well.
CleanupRun(t) == SettleRun(Quiet(ClearTimer(CancelRace(CancelUpload(t)))))
Cleanup(t) == Quiet(ClearTimer(CancelRace(CancelUpload(t))))
Leave == page /\ page' = FALSE /\ tab' = Cleanup(tab) /\ UNCHANGED <<agent, told, sent, up>>

\* activate, on the way back: nothing is loaded while something is sent or runs,
\* be it another bot's run that has the runKey.
Enter ==
    /\ ~page /\ page' = TRUE
    /\ tab' \in IF tab.sending \/ tab.run # NoRun THEN {tab} ELSE {tab, SilentLoad(tab)}
    /\ UNCHANGED <<agent, told, sent, up>>

\* The page comes to the front.
Refresh == page /\ up /\ tab' = SilentLoad(tab) /\ Others

-----------------------------------------------------------------------------
(* The data channel *)

\* The requests are rejected, be they accepted or not, and the load is.
Rejected(t, how) ==
    [LoadEnds(t) EXCEPT
       !.req = [s \in Sends |-> IF @[s] \in {"pending", "acked"} THEN how ELSE @[s]]]

\* What is on its way is lost with the channel.
ChannelLost ==
    /\ up /\ up' = FALSE
    /\ tab' = Rejected(tab, "lost")
    /\ told' = agent
    /\ UNCHANGED <<agent, sent, page>>

\* The page exits, as its bot is not there: the upload ends, and the call whose
\* request was rejected does the rest.
Exit(t) ==
    LET u == CancelUpload(t)
    IN  IF u.sending /\ \E s \in Sends : u.step[s] = "asked" THEN u ELSE Quiet(ClearTimer(u))

\* The bot is unbound, or a snapshot does not have it: its connection is closed,
\* its runs are removed, and the page exits unless it does not know whose its
\* topic is.  Another snapshot may have the bot again.
BotRemoved ==
    /\ up' = FALSE /\ page' \in {FALSE, page}
    /\ LET t == SettleRun(Rejected(tab, "closed"))
       IN  tab' = IF page THEN Exit(t) ELSE t
    /\ told' = agent
    /\ UNCHANGED <<agent, sent>>

\* The runKey of a chat has its agent and not its bot: in the chat of another
\* bot's agent of that name a message is accepted, the run is cancelled or taken
\* for ended, or a load strips it.
OtherChat == tab' \in {SettleRun(tab), StripLocalUserMsgs(tab)} /\ Others

\* The race of s loses to the failure of its request.
RequestFails(s, code) ==
    /\ tab.req[s] = "lost" \/ (tab.req[s] = "closed" /\ code = "channel")
    /\ LET t == [tab EXCEPT !.req[s] = "none"]
       IN  tab' = IF t.step[s] = "asked" THEN Catch(t, s, code) ELSE t
    /\ Others

ChannelReady ==
    /\ ~up /\ up' = TRUE
    /\ UNCHANGED <<tab, agent, told, sent, page>>

\* waitForConnected has an end: the retry, which gives up if another message is
\* being sent, or a load of what has become of the message.
Retry(s) ==
    /\ tab.step[s] = "rewait" /\ up
    /\ IF tab.sending
       THEN tab' = [tab EXCEPT !.step[s] = "done"] /\ UNCHANGED <<sent, told>>
       ELSE /\ tab' = Ask([Begin(tab) EXCEPT !.local = @ \cup {s}, !.retried = s], s)
            /\ Handed(s)
    /\ UNCHANGED <<agent, up, page>>

Reconnected(s) ==
    /\ tab.step[s] = "after" /\ up
    /\ tab' = Return(SilentLoad(tab), s)
    /\ Others

WaitFails(s) ==
    /\ ~up /\ tab.step[s] \in {"rewait", "after"}
    /\ tab' = IF tab.step[s] = "after" THEN Return(tab, s)
              ELSE IF tab.accepted THEN Return(SilentLoad(Quiet(ClearTimer(tab))), s)
              ELSE Return(Quiet(CleanupStreaming(tab)), s)
    /\ Others

-----------------------------------------------------------------------------
(* The agent, and what the tab is told *)

Accepts(s) ==
    /\ s \in sent /\ agent[s] = 0
    /\ agent' = [agent EXCEPT ![s] = 1]
    /\ sent' = sent \ {s}
    /\ UNCHANGED <<tab, told, up, page>>

Ends(s) ==
    /\ agent[s] = 1
    /\ agent' = [agent EXCEPT ![s] = 2]
    /\ UNCHANGED <<tab, told, sent, up, page>>

Refused(s) ==
    /\ up /\ tab.req[s] = "pending" /\ agent[s] = 0
    /\ LET t == [tab EXCEPT !.req[s] = "none"]
       IN  tab' = IF t.step[s] = "asked" THEN Catch(t, s, "refused") ELSE t
    /\ sent' = sent \ {s}
    /\ UNCHANGED <<agent, told, up, page>>

\* register: the run takes the optimistic messages there are.
Register(t, s) ==
    [t EXCEPT !.run = [NoRun EXCEPT !.of = s, !.msgs = t.local], !.local = {}]

\* The timer of 30 minutes in place of that of 3; and none.
NoPostTimer(t, s) == ClearTimer(t)
SwitchTimer(t, s) ==
    LET u == ClearTimer(t)
    IN  [u EXCEPT !.timers = @ \cup {[of |-> s, post |-> TRUE]}, !.ref = [of |-> s, post |-> TRUE]]

\* onAccepted, whether or not the call of sendMessage still is there.
ToldAccepted(s) ==
    /\ up /\ tab.req[s] = "pending" /\ agent[s] > 0
    /\ tab' = Register([SwitchTimer(tab, s) EXCEPT !.accepted = TRUE, !.req[s] = "acked"], s)
    /\ told' = [told EXCEPT ![s] = IF @ = 0 THEN 1 ELSE @]
    /\ UNCHANGED <<agent, sent, up, page>>

\* event:agent, for the run if it is there.  The last one leaves it to be
\* replaced by a load, for half a second.
ToldEvent(s) ==
    /\ up /\ told[s] = 1 /\ tab.run.of = s /\ ~tab.run.seen
    /\ tab' = [tab EXCEPT !.run.seen = TRUE]
    /\ Others

ToldEnd(s) ==
    /\ up /\ told[s] = 1 /\ agent[s] = 2
    /\ told' = [told EXCEPT ![s] = 2]
    /\ tab' = IF tab.run.of # s THEN tab
              ELSE [tab EXCEPT !.run.seen = TRUE, !.run.settling = TRUE]
    /\ UNCHANGED <<agent, sent, up, page>>

\* The final answer: the messages are loaded anew, or a load that is under way
\* is waited for.
ToldFinal(s) ==
    /\ up /\ tab.req[s] = "acked" /\ told[s] = 2
    /\ LET t == [tab EXCEPT !.req[s] = "none"]
       IN  tab' = IF t.step[s] # "asked" THEN t
                  ELSE [SilentLoad(Quiet(ClearTimer([t EXCEPT !.cancel = None])))
                          EXCEPT !.step[s] = IF t.load.on THEN "reused" ELSE "recon"]
    /\ Others

-----------------------------------------------------------------------------
(* Loads and timers *)

\* __serverMessagesIndicateRunDone: the last answer of the agent is complete.
LooksDone(content) ==
    content # {} /\ tab.local = {}

CompleteSettle(t) == IF t.run.settling THEN SettleRun(t) ELSE t

\* A run that had events, none for three seconds, is taken for ended when it looks so.
ReconcileAfterLoad(t, content, stale) ==
    IF t.run # NoRun /\ t.run.seen /\ stale /\ LooksDone(content) THEN SettleRun(t) ELSE t

Reconciled(t, content, stale) ==
    LET u == StripLocalUserMsgs(CompleteSettle(t))
    IN IF u.sending THEN u ELSE ReconcileAfterLoad(u, content, stale)

\* The messages are those of the answer; and those there are.
KeepOld(t, content) == t
Replace(t, content) == [t EXCEPT !.shown = content]

\* The answer is of some time since it was asked for.
LoadAnswered ==
    /\ up /\ tab.load.on
    /\ \E content \in {tab.load.from, Stored} :
         \E stale \in BOOLEAN : tab' = Reconciled(LoadEnds(Replace(tab, content)), content, stale)
    /\ Others

LoadFails ==
    /\ tab.load.on
    /\ tab' = LoadEnds(tab)
    /\ Others

\* Any timer that is armed, be it in __streamingTimer or not.
Expired(t, m) == [t EXCEPT !.timers = @ \ {m}]
Race(t, s) == IF t.step[s] = "asked" THEN Catch(t, s, "timeout") ELSE t

PreTimeout(s) ==
    LET m == [of |-> s, post |-> FALSE] IN
    /\ m \in tab.timers
    /\ LET t == Expired(tab, m)
       IN  tab' = IF t.accepted THEN t
                  ELSE Race([Quiet(CleanupStreaming(t)) EXCEPT !.settled = TRUE], s)
    /\ Others

PostTimeout(s) ==
    LET m == [of |-> s, post |-> TRUE] IN
    /\ m \in tab.timers
    /\ tab' = Race(SilentLoad([SettleRun(Quiet(Expired(tab, m))) EXCEPT !.settled = TRUE]), s)
    /\ Others

\* The run's own 30 minutes, and the half second of one that has ended
RunTimeout ==
    /\ tab.run # NoRun
    /\ tab' = SettleRun(tab)
    /\ Others

Steps ==
    \/ /\ \E s \in Sends : RequestFails(s, "lost") \/ RequestFails(s, "channel")
    \/ /\ \A s \in Sends : tab.req[s] \notin {"lost", "closed"}
       /\ \/ CancelSend \/ Leave \/ Enter \/ Refresh \/ ChannelLost \/ ChannelReady
          \/ LoadAnswered \/ LoadFails \/ RunTimeout \/ BotRemoved \/ OtherChat
          \/ \E s \in Sends :
               \/ Send(s) \/ SendFiles(s) \/ SendUnreadable(s) \/ Uploaded(s) \/ UploadFails(s)
               \/ Retry(s) \/ Reconnected(s) \/ WaitFails(s)
               \/ Accepts(s) \/ Ends(s) \/ Refused(s)
               \/ ToldAccepted(s) \/ ToldEvent(s) \/ ToldEnd(s) \/ ToldFinal(s)
               \/ PreTimeout(s) \/ PostTimeout(s)

\* The timer or the wait of one call may end the sending of another.
Busy(s) == tab.step[s] \in {"asked", "upload"}
Crosses == tab.sending /\ ~tab'.sending /\ \E s \in Sends : Busy(s) /\ Busy(s)'

Next == Steps /\ crossed' = (crossed \/ Crosses)

Spec == Init /\ [][Next]_vars

-----------------------------------------------------------------------------
(* Properties *)

\* A run that streams is let go of only when the agent has ended, the user has
\* cancelled it, time is up, its bot is removed or another was accepted, be it in
\* the chat of another bot, which shares its key; or when the page has been
\* left or the call of sendMessage has failed, and a load brings the complete
\* answer of the message before, which is taken for the run's.  And it streams
\* the optimistic messages of its own message: only an accepted answer that
\* comes when its call of sendMessage is over, or after the chat was crossed,
\* makes it stream those of a message that is being sent by then.
LetGo(s) == tab.run.of = s /\ tab'.run.of # s
KeepsRun ==
    \A s \in Sends :
        /\ LetGo(s) =>
             \/ agent[s] = 2 \/ CancelSend \/ RunTimeout \/ BotRemoved \/ OtherChat
             \/ \E r \in Sends : PostTimeout(r) \/ (r # s /\ ToldAccepted(r))
             \/ LoadAnswered /\ ~tab.sending /\ tab'.shown \ {s} # {}
        /\ (tab'.run.of = s /\ tab.run.of # s /\ ~(tab'.run.msgs \subseteq {s}))
             => ToldAccepted(s) /\ (tab.step[s] # "asked" \/ crossed)
RunKept == [][KeepsRun]_vars

\* When sendMessage returns after the final answer and a load, the load has
\* brought the result; but for a load that was on its way before the final
\* answer came and is waited for in its place.
ShowsResult ==
    \A s \in Sends :
        (tab.step[s] = "recon" /\ tab'.step[s] = "done" /\ LoadAnswered)
            => s \in tab'.shown
ResultShown == [][ShowsResult]_vars

\* The chat does not stay sending for ever, whoever's timers have replaced each
\* other: one is armed that ends it, unless a file is being uploaded or cannot be
\* read.  (A call may be left waiting without a timer, when an accepted answer
\* that comes late takes it away and its own runs out; the chat is free by then.)
SendIsTimed ==
    /\ TypeOK
    /\ tab.sending =>
         \/ \E m \in tab.timers : m.post \/ ~tab.accepted
         \/ ~tab.accepted /\ \E s \in Sends : tab.step[s] \in {"upload", "stuck"}
=============================================================================
