---------------------------- MODULE StatusStream ----------------------------
(***************************************************************************)
(* How bot presence reaches a user's tab: the server's SSE stream          *)
(* (src/server/src/bot-status-sse.js, botStatusStreamHandler of            *)
(* routes/bot.route.js) and the tab's client                               *)
(* (src/ui/src/composables/use-bot-status-sse.js with applySnapshot,       *)
(* updateBotOnline, addOrUpdateBot and removeBotById of bots.store.js, as  *)
(* far as they keep the list of bots and their online flag).               *)
(*                                                                         *)
(* The hub behind it is the abstract service Presence.  All bots belong to *)
(* one user.  A stream is ordered and the tab reads one stream at a time,  *)
(* so a message is applied in the step that writes it; what a closed       *)
(* stream had still under way is lost with it.                             *)
(***************************************************************************)
EXTENDS Presence, Naturals

CONSTANTS
    Streams,             \* SSE responses, one per request of the tab
    NoStream,
    MaxChanges           \* bound: presence and binding changes in a behaviour

ASSUME StreamAssumption == NoStream \notin Streams /\ MaxChanges \in Nat

VARIABLES
    stream,              \* per response: how far its handler got, see Phases
    rows,                \* per response: the bots listBotsByUserId returned
    closed,              \* responses whose connection is closed
    sseClients,          \* registered responses
    lookups,             \* status events that await findBotById
    telling,             \* bots bound or unbound, their event not yet sent
    es,                  \* the stream the tab reads, or NoStream
    view,                \* the tab: bot -> "absent", "offline" or "online"
    unsure,              \* bots with a status event overtaken or dropped
    missed,              \* bots whose bot.bound or bot.unbound was sent while
                         \* the tab's snapshot was being built
    kept,                \* bots a snapshot called offline and the tab left
                         \* online, no status of theirs shown since
    early,               \* responses closed while their snapshot was built
    changes              \* counts towards MaxChanges

streamVars == <<stream, rows, closed, sseClients, early>>
tabVars    == <<es, view>>
ghostVars  == <<unsure, missed, kept, changes>>
vars       == <<presenceVars, streamVars, lookups, telling, tabVars, ghostVars>>

\* "asked": listBotsByUserId is under way; "read": it has read the table.
Phases == {"unused", "asked", "read", "streaming"}
Seen == {"absent", "offline", "online"}
Event == [bot : Bots, online : BOOLEAN, hadRow : BOOLEAN]

TypeOK ==
    /\ PresenceTypeOK
    /\ stream \in [Streams -> Phases]
    /\ rows \in [Streams -> SUBSET Bots]
    /\ closed \subseteq Streams
    /\ sseClients \subseteq Streams
    /\ lookups \subseteq Event
    /\ telling \subseteq Bots
    /\ es \in Streams \cup {NoStream}
    /\ view \in [Bots -> Seen]
    /\ unsure \subseteq Bots
    /\ missed \subseteq Bots
    /\ kept \subseteq Bots
    /\ early \subseteq Streams
    /\ changes \in 0 .. MaxChanges

Init ==
    /\ PresenceInit
    /\ stream = [s \in Streams |-> "unused"]
    /\ rows = [s \in Streams |-> {}]
    /\ closed = {}
    /\ sseClients = {}
    /\ lookups = {}
    /\ telling = {}
    /\ es = NoStream
    /\ view = [b \in Bots |-> "absent"]
    /\ unsure = {}
    /\ missed = {}
    /\ kept = {}
    /\ early = {}
    /\ changes = 0

\* The tab gets what sendToUser writes.
Reached == es \in sseClients \ closed

-----------------------------------------------------------------------------
(* Presence changes; each starts a lookup if anybody listens *)

Change ==
    /\ changes < MaxChanges
    /\ changes' = changes + 1

\* The 'status' listener up to its await.
Emit(b, online) ==
    /\ lookups' = IF sseClients = {} THEN lookups
                  ELSE lookups \cup {[bot |-> b, online |-> online, hadRow |-> b \in bound]}
    /\ unsure' = IF \E e \in lookups : e.bot = b THEN unsure \cup {b} ELSE unsure \ {b}

BotAppears(b) ==
    /\ Change
    /\ b \notin telling
    /\ Appear(b)
    /\ Emit(b, TRUE)
    /\ UNCHANGED <<streamVars, telling, tabVars, missed, kept>>

BotDisappears(b) ==
    /\ Change
    /\ Disappear(b)
    /\ Emit(b, FALSE)
    /\ UNCHANGED <<streamVars, telling, tabVars, missed, kept>>

BotWithdrawn(b) ==
    /\ Withdraw(b)
    /\ UNCHANGED <<streamVars, lookups, telling, tabVars, ghostVars>>

\* updateBotOnline ignores a bot the tab does not know.  A tab that would
\* not takes every status for news of a bot.
ShownAlways(b, online) == [view EXCEPT ![b] = IF online THEN "online" ELSE "offline"]
Shown(b, online) ==
    IF view[b] = "absent" THEN view
    ELSE [view EXCEPT ![b] = IF online THEN "online" ELSE "offline"]

\* findBotById found the row: the listener sends bot.status.
FinishLookup(e) ==
    /\ e \in lookups /\ e.hadRow
    /\ lookups' = lookups \ {e}
    /\ view' = IF Reached THEN Shown(e.bot, e.online) ELSE view
    /\ kept' = IF Reached THEN kept \ {e.bot} ELSE kept
    /\ UNCHANGED <<presenceVars, streamVars, telling, es, unsure, missed, changes>>

\* It found none, or failed: the event is dropped.
DropLookup(e) ==
    /\ e \in lookups
    /\ lookups' = lookups \ {e}
    /\ unsure' = IF e.bot \in bound THEN unsure \cup {e.bot} ELSE unsure
    /\ UNCHANGED <<presenceVars, streamVars, telling, tabVars, missed, kept, changes>>

-----------------------------------------------------------------------------
(* Binding and unbinding *)

CreateRow(b) ==
    /\ Change
    /\ Bind(b)
    /\ telling' = telling \cup {b}
    /\ UNCHANGED <<streamVars, lookups, tabVars, unsure, missed, kept>>

DeleteRow(b) ==
    /\ Change
    /\ b \notin telling
    /\ Unbind(b)
    /\ telling' = telling \cup {b}
    /\ UNCHANGED <<streamVars, lookups, tabVars, unsure, missed, kept>>

\* sendToUser of bot.bound or bot.unbound; on the tab, addOrUpdateBot or
\* removeBotById.
TellUser(b) ==
    /\ b \in telling
    /\ telling' = telling \ {b}
    /\ view' = IF ~Reached THEN view
               ELSE IF b \notin bound THEN [view EXCEPT ![b] = "absent"]
               ELSE IF view[b] = "absent" THEN [view EXCEPT ![b] = "offline"]
               ELSE view
    /\ kept' = IF Reached /\ b \notin bound THEN kept \ {b} ELSE kept
    /\ UNCHANGED <<presenceVars, streamVars, lookups, es, unsure, missed, changes>>

-----------------------------------------------------------------------------
(* The stream *)

\* The 'close' event unregisters a response.  One whose handler has not
\* registered it yet is unknown to registerSseClient, which will register it.
\* And a server that has no close handler.
UnregisterNever(s) == sseClients
Unregister(s) == sseClients \ {s}

\* start, or restart after a foreground or network event or a heartbeat
\* timeout: the tab closes its stream and asks for a new one.
TabConnects(s) ==
    /\ stream[s] = "unused"
    /\ stream' = [stream EXCEPT ![s] = "asked"]
    /\ closed' = IF es = NoStream THEN closed ELSE closed \cup {es}
    /\ sseClients' = IF es = NoStream THEN sseClients ELSE Unregister(es)
    /\ early' = IF es # NoStream /\ stream[es] # "streaming" THEN early \cup {es} ELSE early
    /\ es' = s
    /\ UNCHANGED <<presenceVars, rows, lookups, telling, view, ghostVars>>

\* The connection breaks; the tab has not noticed.
StreamBreaks ==
    /\ es # NoStream /\ es \notin closed
    /\ closed' = closed \cup {es}
    /\ sseClients' = Unregister(es)
    /\ early' = IF stream[es] # "streaming" THEN early \cup {es} ELSE early
    /\ UNCHANGED <<presenceVars, stream, rows, lookups, telling, tabVars, ghostVars>>

\* listBotsByUserId reads the table.
ReadRows(s) ==
    /\ stream[s] = "asked"
    /\ stream' = [stream EXCEPT ![s] = "read"]
    /\ rows' = [rows EXCEPT ![s] = bound]
    /\ UNCHANGED <<presenceVars, closed, sseClients, early, lookups, telling, tabVars, ghostVars>>

\* applySnapshot replaces the list.  A bot that the tab knows and that has an
\* open data channel (dcReady) stays online whatever the snapshot says.
Kept(s, ready) == {b \in rows[s] \cap ready : b \notin present}
Snapshot(s, ready) ==
    [b \in Bots |-> IF b \notin rows[s] THEN "absent"
                    ELSE IF b \in present \cup Kept(s, ready) THEN "online" ELSE "offline"]

\* The rest of sendSnapshot and registerSseClient, in one turn of the event
\* loop: the online bots are those of this moment.  Data channels come and go
\* beside the stream, whether a bot is shown online or not (RtcRecovery), so
\* that any of the bots the tab knows may be ready.
SnapshotAndRegister(s) ==
    /\ stream[s] = "read"
    /\ stream' = [stream EXCEPT ![s] = "streaming"]
    /\ sseClients' = sseClients \cup {s}
    /\ IF s = es /\ s \notin closed
       THEN /\ \E ready \in SUBSET {b \in Bots : view[b] # "absent"} :
                  view' = Snapshot(s, ready) /\ kept' = Kept(s, ready)
            /\ unsure' = {e.bot : e \in {x \in lookups : x.online # (x.bot \in present)}}
            /\ missed' = {b \in Bots \ telling : ~(b \in rows[s] <=> b \in bound)}
       ELSE UNCHANGED <<view, unsure, missed, kept>>
    /\ UNCHANGED <<presenceVars, rows, closed, early, lookups, telling, es, changes>>

\* listBotsByUserId fails: the response is registered without a snapshot.
RegisterOnly(s) ==
    /\ stream[s] = "asked"
    /\ stream' = [stream EXCEPT ![s] = "streaming"]
    /\ sseClients' = sseClients \cup {s}
    /\ missed' = IF s = es THEN Bots ELSE missed
    /\ UNCHANGED <<presenceVars, rows, closed, early, lookups, telling, tabVars, unsure, kept, changes>>

-----------------------------------------------------------------------------
Next ==
    \/ \E b \in Bots :
         \/ BotAppears(b) \/ BotDisappears(b) \/ BotWithdrawn(b)
         \/ CreateRow(b) \/ DeleteRow(b) \/ TellUser(b)
    \/ \E e \in lookups : FinishLookup(e) \/ DropLookup(e)
    \/ \E s \in Streams :
         TabConnects(s) \/ ReadRows(s) \/ SnapshotAndRegister(s) \/ RegisterOnly(s)
    \/ StreamBreaks

Spec == Init /\ [][Next]_vars

-----------------------------------------------------------------------------
(* Properties *)

Settled == Reached /\ lookups = {} /\ telling = {}

Truth(b) ==
    IF b \notin bound THEN "absent" ELSE IF b \in present THEN "online" ELSE "offline"

\* When nothing is under way, the tab shows every bot as it is, but for a bot
\* whose status events overtook each other or were dropped, and one bound or
\* unbound while the snapshot was being built: reading the online bots after
\* the rows, and registering in the same turn, closes every other gap.  A bot
\* whose data channel was open when the last snapshot called it offline is
\* shown online, whatever it is, until a status of its own is shown.
TabAgrees ==
    /\ TypeOK
    /\ Settled => \A b \in Bots \ (unsure \cup missed) :
                     view[b] = IF b \in kept THEN "online" ELSE Truth(b)

\* The server keeps writing to a closed response only if it closed while its
\* snapshot was being built.
DeadClientOnlyByRace == sseClients \cap closed \subseteq early

=============================================================================
