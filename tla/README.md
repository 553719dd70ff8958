# CoClaw in TLA+

CoClaw lets a user talk from a browser or an app to the AI agents of an
OpenClaw gateway on another machine. This directory models the protocols that
hold the three programs together and what each of them does with the answers:
chats, files, lists, logs, ids and upgrades. It checks the models with TLC on
small instances and proves the most important results with TLAPS for every
instance.

- [1. The system](#1-the-system): parts, state, interactions, what is hard
- [2. The modules](#2-the-modules): what models what
- [3. The runs](#3-the-runs): what is checked, within which bounds
- [4. What disagrees with the documentation](#4-what-disagrees-with-the-documentation)
- [5. Fairness and refinement](#5-fairness-and-refinement)
- [6. The proofs](#6-the-proofs)
- [7. What is not modelled](#7-what-is-not-modelled)
- [8. Plan](#8-plan)

To check a run: `tlc -config BotHub.cfg BotHub.tla`. To check a proof:
`tlapm BotHubProofs.tla`. `PROJECT.json` lists the runs, the source lines each
definition models, the hazards and the theorems.

Words: the code calls a gateway that is bound to a user a *bot* (in newer parts
a *claw*); the *plugin* is CoClaw's code in the gateway's process; a *tab* is
one instance of the user interface.

## 1. The system

```
   tab (src/ui)                 server (src/server)           plugin (src/plugins/openclaw)
 +---------------+   SSE     +---------------------+        +----------------------------+
 | bots.store    |<----------| bot-status-sse      |        | realtime-bridge            |
 | AddBotPage    |   HTTP    | routes, services,   |  HTTP  |   serverWs     gatewayWs --+--> gateway
 |               |<--------->| wait hubs, database |<------>| bot-binding, config        |
 | signaling-    |    WS     | rtc-signal-hub      |        |                            |
 |  connection   |<--------->|   routing table     |   WS   |                            |
 |               |           | bot-ws-hub        <-+--------+-> serverWs                 |
 | webrtc-       |           +---------------------+        | webrtc-peer                |
 |  connection   |<===== data channel "rpc", one channel per file ====>|                 |
 +---------------+                                          +----------------------------+
```

Every program is JavaScript on one thread: an event handler runs to its first
`await` without being interrupted, and everything else may happen before the
continuation runs. Nearly all that is hard here comes from state that is read
before an `await` (or before an event that comes late) and used after it.

| Component | State | Operations | Hard | Right when |
|---|---|---|---|---|
| **Bot WebSocket hub**, `server/src/bot-ws-hub.js` | sockets per bot, miss counters, grace timers, pending RPCs, tickets | upgrade, register, message, pong, heartbeat tick, close, grace expiry, `notifyAndDisconnectBot`, RPC to a bot, UI sockets | close of a replaced socket arrives late; half-open sockets; timer against reconnect; token lookup against unbinding | events agree with the online list; one open socket per bot; lost bots go offline, half-open ones are found |
| **RTC signalling**, `rtc-signal-hub.js`, `rtc-signal-router.js` | `routes`, `wsToConnIds` | `rtc:offer`, `rtc:ice`, `rtc:ready`, `rtc:closed`, close of a socket, removal of a bot | ownership lookup is awaited before the table is touched | the two maps stay inverse; routes are live; no route is stolen |
| **Status stream**, `bot-status-sse.js`, `use-bot-status-sse.js` | registered responses; the tab's list of bots | snapshot, `bot.status`, `bot.bound`, `bot.unbound`, reconnect | each event awaits its own lookup; the snapshot is built over an await | a settled tab shows the truth |
| **Binding and claiming**, `bot-binding.svc.js`, `claw-binding` routes, the two wait hubs, `common/bot-binding.js`, `AddBotPage.vue` | code rows, bots, wait entries, the gateway's `bindings.json`, polls | issue, redeem, wait, cancel, expire, clean up, bind, unbind, enroll, claim | two redemptions of a code, lost replies, crashes between two of three steps, cancelled and repeated waits | a code makes one bot; no orphaned bot; whoever waits is told |
| **Plugin bridge**, `realtime-bridge.js` (server side), `index.js` | singleton, instance flags, socket, timers | start, stop, refresh, connect, heartbeat, close, reconnect, `bot.unbound` | `stop()` does not end what an instance awaits; events of old sockets; overlapping RPC methods | one live bridge, watched and retried, that keeps the token of a bound bot |
| **Gateway link**, `realtime-bridge.js` (gateway side) | `gatewayWs`, readiness, connect id, pending requests | connect, challenge, own requests with deadlines, two-phase agent requests, tabs' requests, session creation | old sockets' events, a request answered after its deadline, the socket lost between two requests | no request outlives its socket; a session that was there is reset only after a request was refused, not after a deadline or a lost socket |
| **Plugin peer**, `webrtc-peer.js` | session per connId, peer connection, rpc channel | offer, ICE restart, `rtc:closed`, failure, channel events, `closeAll` | offers of one connId overlap over awaits | no peer connection without an owner; a served tab stays served |
| **UI bot list and RTC recovery**, `bots.store.js`, `webrtc-connection.js`, `bot-connection*.js` | list, phase, RTC instances, back-off, probe, connection objects | snapshot, status, bind, unbind, `__ensureRtc`, retry, foreground, probe | five triggers of one recovery, objects replaced under an await | one peer connection; an online bot is retried; a live connection is left alone |
| **UI signalling**, `signaling-connection.js` | one socket, connId per bot, heartbeat, verify probe, reconnect timer | connect, `ensureConnected`, reconnect, verify, resume, send | a timer left armed beside a socket; half-open sockets | a wanted connection is on its way; no open socket is forgotten |
| **UI sockets and tickets**, UI side of `bot-ws-hub.js` | tickets, sockets of a bot's tabs, who sent what | ticket, upgrade, request, offer, answer | the bot's socket is replaced between request and answer | a ticket admits one socket; a request is carried out once or refused |
| **Chat and agent runs**, `chat.store.js`, `agent-runs.store.js` | messages, streaming run, timers, pages of history | send, stream, final answer, cancel, `/new`, load, retry, lost connection | answers, events and reloads in any order | a send ends; a run streams its own messages; the result is shown; history is in order |
| **Turns and stores**, `agent-stream.js`, `session-msg-group.js`, `chat-store-manager.js` | entries of a turn; chat stores, least recently used last | events, grouping; make, evict | tools called at once, silent answers; all stores in use | a streamed turn is what a load shows; the store on the screen is the store kept |
| **File transfer**, `files.store.js`, `file-transfer.js`, plugin `file-manager/` | tasks, channel per file, temporary files | upload, download, create, delete, cancel, retry, clean-up | the channel closes between last chunk and confirmation; callbacks of a failed stream | the file is whole or unchanged; the queue goes on |
| **Data channel chunking**, `dc-chunking.js` on both sides, send queue of `webrtc-connection.js` | queue, buffered amount, reassembly buffer | cut, queue, drain, put together, reset | channel lost with a queue left over | what arrives was sent, once and in order |
| **Session, topic and history files** (plugin) | JSON files, mutex, cache | read, change, write, rename; titles; pages | a failed write, a restart, a page after a change | what was confirmed is in the file |
| **Automatic upgrade** (plugin) | lock, backup, state file | check, install, verify, roll back | the worker dies between any two | a version that works is installed or in the backup |
| **Lists of a tab**, stores of topics, sessions, agents, dashboard, drafts | lists per bot, loads under way | load, merge, event, drop, log in and out | answers of several bots; a user who changes meanwhile | what is listed is what was heard last, of the right owner |
| **Recording**, `TouchSpeakOverlay.vue`, `voice-recorder.js` | microphone, status, finger, timer | start, move, let go, cancel, time up, leave | permission and microphone are awaited | the microphone is on only as the user asked |
| **Remote log** on both sides | bounded buffer, sender | log, set sender, flush in batches | a flush suspended while the sender changes | entries in order, none twice |
| **Id generator**, `snowflake.js` | last timestamp, sequence | next id | clock steps back, sequence overflows | ids unique and ordered |

The remaining parts (accounts, administration, command line, most views, native
shells, deployment) keep no state that several actors race for; section 7 gives
the reasons one by one.

## 2. The modules

| Module | Models | Uses |
|---|---|---|
| `Presence` | what the bot hub promises, without sockets: *abstract specification* | |
| `BotHub` | bot side of `bot-ws-hub.js` | refines `Presence` |
| `SignalRouter` | the routing table as operators on its two maps | |
| `SignalHub` | `rtc-signal-hub.js` | extends `SignalRouter` |
| `StatusStream` | server stream and tab client | extends `Presence` |
| `Binding` | codes, wait hubs, plugin binding, the page's polls | |
| `Bridge` | plugin's link to the server | |
| `RtcRecovery` | one bot of one tab | |
| `GatewayLink` | plugin's link to its gateway | |
| `WebRtcPeer` | plugin's peer connections | |
| `SignalClient` | the tab's signalling WebSocket | |
| `UiRelay` | UI side of `bot-ws-hub.js` | |
| `ChatRun` | sends of one chat and the runs they start | |
| `ChatLoad` | the messages and the history of one chat | |
| `AgentTurn` | a streamed turn against the saved one | |
| `ChatStores` | the stores of chats and their eviction | |
| `FileUpload`, `FileDownload` | both ends of a file | |
| `FileTasks` | the queue of transfers | |
| `DcChunking` | messages over a data channel | |
| `TopicData` | topics file, cache, mutex, titles | |
| `ChatHistory` | history file and its hook | |
| `SessionFiles` | pages of sessions and transcripts | |
| `AutoUpgrade` | scheduler and workers | |
| `TopicLists`, `AgentLists`, `UserDrafts` | what a tab lists and keeps | |
| `TouchSpeak`, `VoiceRecorder` | recording | |
| `RemoteLog` | log buffer and its sender | |
| `Snowflake` | ids | |
| `MCSignalHub`, `MCBinding` | symmetry and constants for TLC; `BotHub` and `RtcRecovery` need none | the module named |
| `MCPlugin` | `GatewayLink` beside `WebRtcPeer` | both |
| `MCBridge` | `Bridge` beside what the plugin keeps on disk | `TopicData`, `ChatHistory`, `SessionFiles`, `AutoUpgrade` |
| `MCLists` | `StatusStream` beside the other lists of a tab | `TopicLists`, `AgentLists`, `UserDrafts`, `ChatStores`, `ChatLoad`, `AgentTurn` |
| `MCApp` | `Snowflake` beside the rest of the app | `SignalClient`, `ChatRun`, `TouchSpeak`, `VoiceRecorder`, `FileUpload`, `FileDownload`, `FileTasks`, `DcChunking`, `UiRelay`, `RemoteLog` |
| `BotHubProofs`, `SignalHubProofs`, `BindingProofs`, `RtcRecoveryProofs` | theorems | the module named |
| `PluginProofs`, `BridgeProofs`, `ListsProofs`, `AppProofs` | theorems about the parts of an MC module | `MCPlugin`, `MCBridge`, `MCLists`, `MCApp` |

`MCBridge`, `MCLists` and `MCApp` check several small modules in one run. The
parts share no state, so their product would show nothing more than each by
itself: `part` says which of them is explored, and the variables of an
instantiated part are the shared `x1`, `x2`, ... of the MC module. A property
over parts is a CASE on `part`; it is stated, explained and, where it is one
property of TLC, named in the module of the part.

How code becomes actions, in all of them:

- **A step is what runs without interruption**: one handler, or one stretch
  between two awaits, with every synchronous call it makes. A handler with an
  await becomes two actions with a record of what it carries across
  (`call` in `SignalHub` and `Binding`, `tails` and `clearing` in `Bridge`,
  `task` in `WebRtcPeer`, `run` in `RtcRecovery`, `call` in `TopicData`, `put`
  in `FileUpload`).
- **Objects are numbers or model values**; one that nothing refers to any more
  may be used again. `MaxSock`, `MaxRtc` and the like bound how many matter *at
  a time*.
- **Timers have no duration.** A timer that is set may fire at any later
  moment; one that is cleared may not. Where the code counts (missed pongs,
  retries, rebuilds) the count is kept.
- **Failures are actions**: a connection that fails, a reply that is lost, a
  gateway or server that restarts, a peer that goes silent without a close event
  (`PeerVanishes`), a close event that comes late (state `closing`).
- **History variables** record what a property must tell apart and the code does not
  keep: `lateWs`, `lateBots` (a lookup was awaited when the socket closed or the bot was
  unbound), `unsure`, `missed`, `early` (the races of the stream), `kept` (a snapshot's
  bot left online), `twice`, `overtaken`, `calm` (of binding), `overlap`, `spared`,
  `silent`, `heard`, `late` (of lists), `passed` (of a chat's history), `crossed` (of
  drafts and of calls of one chat), `crowded`, `blocked`, `late` (of stores), `ahead`,
  `blank`, `unread` (of files). They never occur in a guard of a step of the code.

### BotHub and Presence

`ready[s]` follows a socket from `unused` over the awaited token lookup to
`open`, `closing` and `closed`; `botSockets` is the hub's map; `missCount` and
`alive` are the heartbeat; `pendingOffline` the grace timers; `rpcPending` the
server's calls to the bot; `announced` the last `status` event. `Connect`
terminates older sockets, clears the grace timer and announces, as the code does
in one turn. `CloseEvent` removes the socket, and only for the last one rejects
calls and starts the timer (or announces at once, for an administrative close).
`DeleteBot` and `NotifyAndDisconnect` are the two halves of unbinding.
`Presence` knows only which bots exist, are present and are announced, and
allows a bot to disappear silently only when its row is gone.

### SignalRouter and SignalHub

`ReceiveUnrouted` runs `handleMessage` to its `await`; `FinishDenied`,
`FinishRegister` and `FinishClosed` are the continuations. `ReceiveIce` and
`ReceiveClosed` are the paths without a lookup. `Close` is the socket's close
(`removeByWs`), `NotifyAndDisconnect` calls `removeByBotId`.

### StatusStream

`TabConnects`, `ReadRows` and `SnapshotAndRegister` are the stream handler with
its two awaits; `RegisterOnly` is the path on which the snapshot failed.
`FinishLookup` sends an event whose lookup has ended; lookups end in any order.
The tab applies a message in the step that sends it, which is sound since a
stream is ordered and a broken one loses the rest. A snapshot leaves a bot online
whose data channel is open (`dcReady`, any of the bots the tab knows, since
channels come and go in `RtcRecovery`); `kept` remembers it until a status of that
bot is shown.

### Binding

A *ticket* is one issue of a code and stands for its wait token. `Redeem` runs
`bindBot`/`claimBot` from await to await: find, (drop an expired row), create
the bot, delete the code, mark the wait entry. `Bind`, `Unbind` and `Enroll`
start a plugin RPC; `UnbindOnServer`, `ClearConfig`, `AskServer`, `SaveConfig`
are its steps; `LoseReply` and `Crash` cut it anywhere. `Poll` is one turn of
the page's or gateway's loop, with the parked request of the wait hub.

### Bridge

Each instance has its own socket, timers and phase, since a stopped one still
finishes what it awaits. `CloseEvent` is the synchronous part of the close
handler, `CloseTail` what follows `closeAll()`. `ClearRead`/`ClearWrite` are the
two halves of clearing the token. An RPC method is a list of steps (`Method`),
run one per action, so that two methods interleave. A file that is there and
cannot be read is `ReadFails` when the bridge connects and `ClearFails` when the
token is to be cleared.

### RtcRecovery

The store's functions call each other without an await, so that one handler may
pass through five functions. They are therefore operators from the tab's state
to its next state (`tab` is one record), and an action is their composition.

### GatewayLink and WebRtcPeer

`call[c]` is what a caller awaits, `job[c]` what the gateway has been asked and
answers; they part when a deadline passes or a socket is lost, and an answer
then meets no call. Promise continuations run before the next event, so settling
a call and sending the request that follows from it are one step
(`CallsAfter`). In `WebRtcPeer` a task is one offer from the closing of the old
session to the answer.

### SignalClient and UiRelay

`SignalClient` keeps which timers are armed and what became of every socket,
since the code drops its reference to a socket before the socket is closed.
`connect()`, the probe, the heartbeat, the reconnect timer, the foreground and
network handlers and `ensureConnected` with its waiters are actions. `UiRelay`
hands requests and offers of two tabs to the plugin's sockets and the answers
back; a bot socket that is replaced stays in `botSockets` until it has closed, as
`BotHub` shows, and a send to one that is closing is lost.

### ChatRun, ChatLoad, AgentTurn, ChatStores

`ChatRun` holds a chat's store and the run's store in one record `tab`, and the
agent as a counter per message (accepted, ended) with how much of it the tab has
been told; the data channel may fail between any two. Of a message it keeps whose
it is and where it is: optimistic, streaming, or loaded. `BotRemoved` is what the
end of the bot does to the chat (its connection is closed, its runs are removed, the
page exits); `OtherChat` what the chat of another bot does to a run it shares the
key with. `ChatLoad` is the other
half of the same store: the current session, loads and silent loads, the list of
former sessions and the pages of it, and `/new`. What a request is answered is
what was true at some moment since it was made. `AgentTurn` compares two
computations: the entries built from streamed events, and those loaded from the
transcript, both put through `Group` as `groupSessionMessages` does. `ChatStores`
is the least-recently-used map with the page that shows one of its members; a
message that was sent is accepted, and its run begins, whenever that comes, though
the page is elsewhere or the store is gone.

### FileUpload, FileDownload, FileTasks, DcChunking

`FileUpload` follows a task through the tab's states and the plugin's: header,
creation of the temporary file, data, `done`, `ws.end`, rename, confirmation, with
an error, a cancel, a close of either channel, a break of the peer connection and
a restart of the plugin at any point. `FileDownload` lets the file change between
the `stat` and the reading. `FileTasks` is the queue that starts the next upload.
`DcChunking` cuts messages of one to four chunks, queues what exceeds the high
mark, drains it below the low one, and puts it together again by id.

### TopicData, ChatHistory, SessionFiles, AutoUpgrade

A call of `TopicData` loads the cache, waits for the mutex (`line`), changes the
cache, writes, and lets the next one go on, as `mutex.js` and the manager do; the
write may fail, and a restart may come before the rename that completes it.
The titles' copies of a transcript (`temps`) are made and removed around the
call of the agent. `ChatHistory` is the same for the `session_start` hook, with
lists that read the file again. `SessionFiles` pages through lists that are made
anew for each page while the gateway appends, resets and deletes. Each write has a
time of its own, so `rows.sort` has one result: `Rows` puts a row after as many as are
newer (`Rank`). `AutoUpgrade` has one step per command of the worker, so that it may
die after any.

### Lists, recording, log and ids

`TopicLists` merges the answers of two bots when the last has come; `AgentLists` are
entries per bot that a load fills even if they have been removed and made anew;
`UserDrafts` follows drafts through logging in, out and refreshing. `TouchSpeak` and
`VoiceRecorder` follow the microphone through permission, start (with the hint that
takes the place of the controls when it is long), stop and cancel. `RemoteLog` is the
bounded buffer with its batches. `Snowflake` is one operator, `NextId`, over a clock
that is set at will.

## 3. The runs

| Run | Instance | States | Question |
|---|---|---|---|
| `bot_hub` | 1 bot, 2 connections, `MaxMiss` 2 | 29,952 | Do status events agree with the list through replacement, heartbeat, grace and unbinding? |
| `bot_hub_unbind` | the same | | Does unbinding close the way back in? *No*, section 4 |
| `signal_hub` | 2 connIds, 2 sockets, 2 bots, 2 lookups, symmetric | 386,537 | Where do dead and unbound routes come from? |
| `signal_hub_live` | 1 connId, 1 bot | | Is the table purely live? *No*, section 4 |
| `binding` | a bind or a claim code, 1 gateway, 2 bots, 2 calls, 2 RPCs, symmetric | 414,807 | Can a code make two bots, or rebinding leave an orphan? |
| `binding_live` | a code issued twice, 1 call, 1 RPC | 91,327 | Is whoever waits told the right bot, and does every poll end? |
| `binding_cancel` | 1 binding code | | Is a redemption recorded after a cancel? *No*, section 4 |
| `bridge` | bridge: 2 bots, 2 instances, 2 sockets, 2 RPC methods, 2 troubles; disk: 2 topics, 3 calls, 3 sessions, 1 restart, 3 versions, 2 workers | 1,118,297 | One bridge, stopped for good, watched, never idle, token kept? Is what was confirmed on disk, and a working version of the plugin? |
| `rtc_recovery` | 2 RTC objects, 2 bot connections, 2 rebuilds, 1 retry | 1,006,414 | One peer connection, retried, not torn down by bookkeeping? |
| `plugin` | 2 gateway sockets, 1 ensure, 1 agent request, 1 tab; 1 connId, 2 offers, 3 peer connections | 1,105,380 | Does anything outlive its socket or session? |
| `lists` | stream: 2 bots, 2 streams, 4 changes; lists: 2 bots, 1 topic; drafts: 2 users; stores: 4 topics, room for 2, 5 made; chat: 4 sessions, 3 of them when it is opened; turn: 3 messages of up to 3 blocks and 2 tools | 1,341,754 | Does the tab show the truth once everything has settled, and is every list what was heard last? |
| `app` | 3 signalling sockets, 2 connIds; 2 sends; 2 fingers, 3 recorders; 2 uploads, 1 restart; files of 3 chunks; 5 messages; 2 tabs, 2 bot sockets, 1 ticket, 2 messages; 5 log entries; 3 tasks, 2 retries; a clock of 5 ticks, 3 numbers per tick, drift 2 | 1,002,324 | Does a send end, does a file arrive whole, is an id greater than the last? |

In `plugin` one of the two callers besides the ensure keeps silent, and the
agent's session exists from outside only where the tab is the one that speaks.

What the runs of several parts check, and in which module it is stated:

| Property | Part: definition |
|---|---|
| `ConfirmedKept` (`bridge`) | `TopicData!TopicsKept`, `ChatHistory!HistoryKept`, `SessionFiles!PagesComplete` |
| `PluginKept` (`bridge`) | `AutoUpgrade!KeepsPlugin` |
| `PeersServed` (`plugin`) | `WebRtcPeer!StrayOnlyByOverlap`, `ServedUntilItsEnd` |
| `ListsAgree` (`lists`) | `TopicLists!ListedAsHeard`, `AgentLists!NeverStuck`, `UserDrafts!DraftsOwn` |
| `ChatShown` (`lists`) | `ChatLoad!Timeline`, `AgentTurn!ShownAsSaved`, `ChatStores!StoresKept` |
| `OnItsWay`, `LostOnlyByConnect` (`app`) | `SignalClient!OnItsWay`, `LosesByConnect` |
| `SendIsTimed`, `RunKept`, `ResultShown` (`app`) | `ChatRun!SendIsTimed`, `KeepsRun`, `ShowsResult` |
| `FileReplaced` (`app`) | `FileUpload!ReplacesFile` |
| `ArrivesWhole` (`app`) | `FileDownload!DownloadIsWhole`, `DcChunking!DeliveredAsSent`, `UiRelay!RelayKept`, `RemoteLog!LogsInOrder`, `FileTasks!QueueGoesOn` |
| `SpokenOrDropped` (`app`) | `VoiceRecorder!KeepsVoice`, `TouchSpeak!SpeaksOrDrops` |

**Why the bounds suffice.** The hazards are of two actors, so each run has two of what
races: two sockets of a bot (the stale and the new one), two lookups, two redemptions,
two instances of a bridge, two offers, two sends of a chat, two uploads of a file, two
upgrade workers. A third generation repeats what the second does to the first, since the
code keeps no count of generations. Where it counts (`MaxMiss`, rebuilds, retries,
chunks, the sequence of an id) the bound is the smallest with a step that is neither the
first nor the last, or, for retries, one after which the limit is reached. `signal_hub`
takes two connIds and two bots because its properties relate different entries of the
table. The stream needs four changes for an offline and an online of one bot to overtake
each other around a binding. `binding` issues a code once and `binding_live` twice:
issuing again under a wait is a question of its own, and both together would not be
explored in reasonable time. Three signalling sockets are the current one, one that is
being closed and one that was let go of unclosed. Three calls on the topics file are the
one that holds the mutex and two in its queue. `Chunks` has messages below, at and above
the greatest number of chunks, on both sides of the high mark. With room for two stores
and four topics, more than one can be over, so that an eviction is blocked and a later
one takes several; the fifth store is one made anew. `Opened` is 3 of 4 sessions, so
that two former ones are paged through and one ends meanwhile. Four ticks and a drift of
two let the clock step back within and beyond the drift.

**What the properties say.** Few of them say that something bad never happens
at all; the code has races, and most properties say that *nothing but the named
race* leads to it. So `DeadRouteOnlyByRace`, `UnboundRouteOnlyByRace`,
`DeadClientOnlyByRace`, `TwoBotsOnlyByRace`, `HollowOnlyByStaleRun`,
`WatchEndsByOldSocket`, `DeafOnlyByStray`, `PeersServed`, `GatewayKept`,
`LostOnlyByConnect`, `RunKept` and others each name the steps by which the code
loses something, and exclude all others. Read the other way round they are the
list of known races:

- a lookup or a snapshot that outlives its WebSocket, response or bot;
- two redemptions of one code, or one that stops before it deletes the code;
- the close event of an old server or gateway socket, which the handlers do not
  tell from that of the current one before they clear timers or the link;
- a gateway socket the bridge has let go of and that finishes its handshake;
- an `__ensureRtc` started for a connection object that has been replaced;
- a second offer of a connId while the first one awaits;
- a reconnect timer that `connect()` of the signalling connection leaves armed:
  when it fires it replaces an open socket and does not close it;
- an accepted answer that comes when its call of `sendMessage` is over: the run
  then streams the optimistic messages of the next send;
- the complete answer of an earlier message, which a load takes for the end of
  the run once the page was left or the send has failed;
- a list of former sessions that is replaced while a page of it is awaited, or a
  page that could not be loaded: the sessions that were counted as passed come
  out of place if they are loaded later;
- a store made while fewer others are idle than have to go, which takes the place
  of the one on the screen; with all that stay in use there are too many stores;
- a snapshot that leaves a bot online whose data channel is open;
- a bindings file that cannot be read when the bridge connects: it is then idle;
- a bot that is unbound, or missing in a snapshot, while its agent works: its run goes;
- the key of a run, which has the agent and not the bot: the chat of another bot's
  agent of that name cancels, replaces or strips the run;
- a write stream that fails after the done signal: a part of an upload replaces
  the file, and the tab is sent the error;
- a shorter file under the header of a download: an early end of the channel is
  taken for the end of the file;
- a file that exists and cannot be read is taken for empty, and the next write
  replaces it (topics, chat history);
- a check for upgrades that goes on while a worker is at work, since its lock was
  not written; a worker that starts from a broken version;
- a refresh of the login that is answered under another user moves the drafts;
- a recorder that is not the current one any more, or whose input has gone, and
  goes on starting: the microphone is on where nothing shows it;
- the hint of a recorder that takes long to start, which hides the controls of the
  recording and with them its cancel;
- a server that restarts with a clock not past its earlier ids gives out ids that
  are not greater.

**That they can fail.** Each property has a mutant in `PROJECT.json`: a
definition of the model broken the way an edit might break the code (a guard
dropped, a reset forgotten, an order swapped), under which the run finds the
property violated. A property made of several conjuncts has such a form for
each of them beside the definition it breaks, in the module of the part
(`AnyOther` in `Snowflake`, `KeepOld` in `ChatRun`, `AfterResult` or `SameEntry` in
`AgentTurn`, ...); one per property is listed.

What is proved for every instance is not run again: `TypeOK` and
`HeartbeatPatience` of `BotHub`; `RouteIndexAgrees` and `NoRouteStolen` of
`SignalHub`. The other modules' `TypeOK` is a conjunct of the first invariant of
their part, or of `PeersServed`.

## 4. What disagrees with the documentation

- **`bot_hub_unbind`** – `server/STATUS.md:33` gives as the reason to delete the
  row before kicking the bot that it must not reconnect in between. The upgrade
  handler awaits the token lookup and then registers without looking again
  (`bot-ws-hub.js:509`): a lookup that read the row before the deletion ends
  after the kick, and the connection stays.
- **`signal_hub_live`** – `docs/designs/rtc-signaling-channel.md:141` calls the
  table purely live. An offer whose lookup ends after its WebSocket closed is
  registered all the same (`rtc-signal-hub.js:94`); `register` refuses the
  connId to any other WebSocket, so the tab that comes back with it is denied.
- **`binding_cancel`** – `binding-wait-hub.js:125` says that a cancel does not
  block `markBound`. `markBindingBound` returns unless the entry is `pending`,
  which a cancelled one is not: the bind succeeds and is never reported.

Others were met while modelling and have no run of their own.
`docs/designs/webrtc-p2p-channel.md:491` says that the plugin filters the answers
to its own requests, but one that comes after its deadline is no longer pending
and is broadcast to the tabs (`realtime-bridge.js:357`). `GatewayLink` keeps that
path (an answer that meets no call), not the broadcast.

`realtime-bridge.js:741` says that `__connectIfNeeded` handles all its errors itself
and that the catch of the reconnect timer is a precaution. It does not handle a
`readConfig` that rejects (`config.js` passes on every error but a missing file), and
the catch only logs: the bridge stays started with a token, without a socket and
without a timer. `NeverIdle` names that step (`ReadFails`) among its exceptions.

`agent-runs.store.js:26` calls `runKeyIndex` the runs by chat or topic, and `:176`
says that a load of a key's chat has the message of the key's run. The key of a chat
is that of its agent, without the bot, so the main agents of two bots share it
(`OtherChat`, one of the exceptions of `RunKept`).

## 5. Fairness and refinement

`BotHub!FairSpec` is fair to three things and to nothing a peer or a user does: the
heartbeat interval (`PingTick`, when the round is not skipped: the code skips one while
the socket has data to send, `bufferedAmount > 0` at `bot-ws-hub.js:647`, which ends
when TCP gives up on a peer that is gone), the close event of a socket that is being
closed (`terminate()` and the timeout of `close()` in the `ws` library make it come),
and the grace timer. So `HalfOpenIsClosed` and `LostBotGoesOffline` hold although nobody
has to connect, answer or unbind.

`Binding!FairSpec` is fair to time (`Expire`: `expiresAt` passes), the wait
hub's cleanup interval, and the polling loop, which always sends its next
request. Nobody has to redeem a code, and `PollEnds` holds all the same.

The other specifications, those of the small parts included, have no fairness and their
runs no liveness; what looks like it (`NeverIdle`, `NeverAbandoned`, `OnItsWay`,
`SendIsTimed`, `QueueGoesOn`, `NeverStuck`) says that something is still armed or under
way that goes on: the part of progress that the code is responsible for, without the
environment's share.

`BotHub` implements `Presence` under
`Service == INSTANCE Presence WITH fresh <- {}, present <- ListOnlineBotIds`:
present are the bots with a registered socket or a grace timer. Run `bot_hub`
checks it on an instance, `BotHubProofs!Implementation` proves it. `StatusStream`
is built on `Presence`, not on `BotHub`, and so holds for any hub that keeps the
promise.

## 6. The proofs

| Module | Theorem | Property |
|---|---|---|
| `BotHubProofs` | `TypeCorrect`, `Replacement`, `EventsAgreeWithList`, `Patience`, `Implementation` | `TypeOK`, `OneOpenSocket`, `AnnouncedMatchesList`, `HeartbeatPatience`, `ImplementsPresence` |
| `SignalHubProofs` | `IndexAgrees`, `DeadRoutes`, `UnboundRoutes`, `NotStolen` | `RouteIndexAgrees`, `DeadRouteOnlyByRace`, `UnboundRouteOnlyByRace`, `NoRouteStolen` |
| `ListsProofs` | `SettledTabAgrees`, `DeadClients`, `TabListsAgree`, `TabChatShown` | `TabAgrees`, `DeadClientOnlyByRace`, `ListsAgree`, `ChatShown` |
| `BindingProofs` | `NoSecondBot`, `BotsReachAGateway`, `WaitersAreToldTheirOwn` | `TwoBotsOnlyByRace`, `NoOrphan`, `AnswerIsOwn` |
| `BridgeProofs` | `OneAtATime`, `StoppedForGood`, `OwnTokenStays`, `WatchedUntilThen`, `TriesAgain`, `PluginIsABridge`, `PluginStays`, `RecordsStay` | `OneBridge`, `StaysStopped`, `OwnTokenKept`, `WatchEndsByOldSocket`, `NeverIdle`, `PluginKept`, `ConfirmedKept` |
| `RtcRecoveryProofs` | `OnePeerConnection`, `HollowOnlyByStale`, `NotAbandoned`, `LostOnlyByItself` | `PcOwned`, `HollowOnlyByStaleRun`, `NeverAbandoned`, `LostByItself` |
| `PluginProofs` | `TypeCorrect`, `AwaitsOnItsSocket`, `LeftOnlyByStray`, `SparedForEver`, `DeafByAnother`, `PeersAreServed` | `TypeOK`, `PendingOnCurrent`, `GatewayKept`, `NeverResetSpared`, `DeafOnlyByStray`, `PeersServed` |
| `AppProofs` | `TypeCorrect`, `Growth`, `StaysOnItsWay`, `LostNoOtherWay`, `SendingEnds`, `RunIsKept`, `ResultComes`, `SpeaksOrIsDropped`, `FileIsReplaced`, `AllArrivesWhole` | `TypeOK`, `IdsIncrease`, `OnItsWay`, `LostOnlyByConnect`, `SendIsTimed`, `RunKept`, `ResultShown`, `SpokenOrDropped`, `FileReplaced`, `ArrivesWhole` |

They hold for any sets of bots, sockets, connIds, WebSockets, lookups, callers, codes,
gateways, topics and users, finite or not (only the bot sockets of `UiRelay`, and the
calls and hooks of `TopicData` and `ChatHistory`, are finitely many), for every bound on
sockets, connections, retries, messages, issues, chunks, log lines and sizes, every mark
and batch size, and for every size of the id's fields, every drift and every clock. Of
the messages that `MCApp` sends (`ChunksOf`) the proofs use only that each has at least
one chunk.

They rest on named assumptions, which TLC evaluates in the runs:

- bounds are numbers: `MaxMissAssumption` (and positive), `StreamAssumption`,
  `BoundsAssumption` (the buffer and the batch of the log hold something, the low
  mark of a channel is below the high one), and the numeric parts of `BindingAssumption`,
  `BridgeAssumption`, `RtcAssumption`, `PeerAssumption`, `PluginAssumption` and
  `TabAssumption`;
- a placeholder is apart from what it stands in for: `NoBotAssumption`,
  `NoRouteAssumption`, `IdleAssumption`, the three `NoneAssumption`s, and parts of
  the others;
- what belongs to the instance: `BoundsAssumption` (an offer is no request, and the bot
  sockets are finitely many), `GatewayAssumption` (at least one socket, the kinds of
  caller are disjoint), `BindingAssumption` (a code is of one kind, and issued as often
  as its plan says), `BridgeAssumption` (each RPC of the run is one of the five
  methods), `OwnerAssumption` (every topic is of a bot), `PluginAssumption` (a run has
  finitely many calls and hooks, and the version that is installed works),
  `TabAssumption` (0 is no topic, and the chat is opened in one of its sessions),
  `SnowflakeAssumption` (a tick has numbers, and the sequence starts among them).

Each proof has the same plan: an inductive invariant, one lemma per action that
the action keeps it, its invariance as a theorem or lemma, and the properties
from it. Where a handler is a composition of functions (`RtcRecovery`, `ChatRun`),
a lemma says of each function what it keeps, and the actions' lemmas are put
together from those. In a module of several parts the invariant speaks of the
part that runs (`AppInv`, `TabInv`). What had to be added to the properties:

- **BotHub.** `AnnouncedMatchesList` is not inductive: that a close leaves the
  bot announced depends on what the maps say of sockets. `Registered` ties
  `botSockets` to `ready` and `botOf` (exactly the open and closing sockets of a
  bot are in its set), `GraceOnlyWhenGone` says that a grace timer and a socket
  never coexist, `Listed` and `Told` are the two directions of the agreement,
  `Gone` keeps deleted and existing bots apart, and `Beats` bounds the miss
  counter by the rounds that were silent in fact, from which `Patience` follows.
- **SignalHub.** `InUse` says that routes and calls belong to WebSockets that
  have been opened; `LateCalls` and `StaleCalls` that a call whose WebSocket has
  closed, or whose bot has gone, is one that `lateWs` or `lateBots` knows of.
  The lemmas on the table (`RegisterKeepsIndex`, ...) are stated without the hub.
- **StatusStream** (`ListsProofs`). `TabAgrees` speaks of settled states. Between them
  the lookups of a bot that is not `unsure` carry the truth, and the view of a bot
  without one shows it, or shows it online when it was `kept`; `Registered` and `Early`
  say which responses are registered while their snapshot is being built.
- **Lists.** `CarriesHeard`: an answer that is under way carries what was heard of
  a topic when it was asked for, or the topic is one that `late` names.
- **Chats of a tab** (`ListsProofs`, the parts of `ChatShown`). `ChatInv`: a session
  that ended after one that is shown and before the chat was opened is shown or was
  passed over, and the list that is walked through is what a session after the opening
  had before it. `StoresInv`: as long as no store was made while too few others were
  idle, the page has the store that the manager has, and its topic was asked for last;
  the order of use lists the topics with a store, each once, and a topic that has a run
  and no store is one of `late`.
  `TurnInv`: while the agent speaks, what is shown before the streaming entry is what
  was told of the turn so far, and the entry shows the message but for what is silent;
  while tools are called, what is shown and the calls still to come are what was told
  and the results. `TurnImplies` says that a turn that is over is then shown as saved.
- **Binding.** `OneAtATime`: while a redemption is about to make a bot, its ticket
  has none, and while it has made one it is there until the code is gone. In a calm
  run (`Calm`) an RPC is alone with its gateway's config, so that the bot it is
  handed never overwrites another, and `NoneLost` is kept. `HubsOK` ties entries,
  what is parked on them and the calls that mark them to one issue of the code.
- **Bridge.** `Orderly`: what an RPC method has to do still has the two halves of a
  `stop()` and what follows it together; `OneRuns`: without overlap one method runs,
  and between those halves no bridge is started. `SocksOK`: a socket not yet being
  closed is the current one of its instance; `TailsOK` and `ClearingOK`: a bot that
  an auth close or `bot.unbound` speaks of is gone, which is what keeps the token.
- **The plugin's files** (`BridgeProofs`). `UpgradeInv`: as long as no check has
  overlapped with a worker, at most one worker is alive and none during a check, and
  what is in the plugin's directory and in the backup follows from the worker's step;
  `KeepsPlugin` is a property of the step, `DiskInv`, which a restart breaks into.
  `TopicsInv`: a call between its read and its write has the mutex, what it writes is
  what is in memory, and a call that was confirmed is in there. `HistoryInv`: likewise
  of the file of a chat, which has no memory: what is written is what was read and the
  session of the hook, and nothing is in it twice. `SessionsInv`: a session's files
  are in the order of their stamps and no two sessions have one stamp (`DirInv`), so
  each row has a place, the number of the rows newer than it (`Place`, `RowsPlaced`). Of the
  rows that have not moved, those a caller has not seen are at its cursor or behind it,
  unless one was deleted, and those it has seen are before it, unless one was written
  to (`Goes`); what it has read of a transcript are the first lines of one file (`Reads`).
- **RtcRecovery.** `Owned` extends `PcOwned` to connections that are going to make
  a peer connection after an await; `Awaited` ties every promise that is not settled
  to the run of `__ensureRtc`, without which a second run could begin. Both say nothing of
  the bot. The three action properties need `Well`, which adds the bot's phase and
  `dcReady` (`Bots`, `Rests`: without a run it is not busy), that a peer connection
  that is up is of a connected instance (`Pcs`), that what is probed is in
  `rtcInstances` (`Probed`), that the instance a bot's conn uses is its own, connected,
  in `rtcInstances`, and then there is no run (`Linked`), and what a run awaits
  (`Runs`). Each function has a lemma for what it tells of these (`...Tells`), each
  handler one for the three properties (`...Shows`), and `Hollowed`, `Left` and `Lossy`
  are the exceptions the properties name.
- **GatewayLink** (`PluginProofs`). `PendingOnCurrent` is inductive with the types,
  over the lemma that settling a set of calls (`SettledCalls`) leaves none pending on
  a socket that is lost. `NeverResetSpared` needs `ResetsUnspared`: as long as the
  session was there all the time, no call and no job of the ensure is a reset,
  and no answer under way says that the session is missing. `DeafOnlyByStray` needs
  that there is no handshake before there is a connection.
- **WebRtcPeer** (`PluginProofs`). `Held`: a session's connection is its own and
  neither closed nor of a dropped peer; `Tasked`: an offer under way knows its connId,
  and the connection it has built is not up yet, or forgotten.
- **Snowflake** (`AppProofs`). `IInv` adds to the types that a clock that was used is
  at most `MaxDrift` ahead of what the machine's clock can show (without it a borrowed
  tick could leave the type). `Growth` then needs no more than the types, since
  `IdsIncrease` itself names the state (`Behind`) in which an earlier run of the
  server was ahead of this one.
- **SignalClient** (`AppProofs`). `OnItsWay` is inductive as it stands (`Way` is it
  without the CASE).
- **ChatRun** (`AppProofs`). `Timed`: a chat that sends an accepted message has the
  timer of 30 minutes armed; that of 3 minutes may have been cleared. `HeardRight`:
  what the tab was told, or a load has found, is what the agent has done, and a load
  that is waited for after the final answer finds its result. `OneCall`: until the chat
  is crossed one call of `sendMessage` is on at a time, what is local is its own, and
  nothing is local once it was accepted; this is what keeps another's messages out of
  a run.
- **TouchSpeak, VoiceRecorder** (`AppProofs`). `Held`: a recording that is being started
  has no timer and does not record, the timer runs as long as a finger is followed, and
  the microphone of an overlay is its recorder's. `Recorded`: where a recorder is
  decides its microphone, its timer and its abort, and only one that was stopped
  keeps a recording.
- **FileUpload** (`AppProofs`). `Placed`: uploads follow one another, the temporary file
  is whole before it is renamed, and whoever is done, or has been told so, has a file
  that is over at the plugin.
- **Files, relay, log, download, channels** (`AppProofs`), the parts of `ArrivesWhole`.
  `QueueGoesOn` of `FileTasks` is inductive as it stands. `UiRelay` adds that a spent
  ticket is gone, that a bot has one socket, that a request is on its way once, and that
  what the UI was told is right (`TicketsGone`, `OneBotSocket`, `OnTheWayOnce`,
  `ToldRight`). `RemoteLog`: what is printed, on the way and waiting are three rising
  runs, one above the other (`Sorted`). `FileDownload`: what is on the way is the header,
  at most once, and the chunks not got yet, and the end only after all of them
  (`Carries`). `DcChunking`: what is under way is a stretch of the stream of chunks
  (`Stream`), so that a message is delivered before the next one begins
  (`DeliveredFirst`).

**What the proofs corrected.** Attempts to prove three properties failed for a
reason, each of them a state outside the bounds of the run:

- `SendIsTimed` said that every call that waits has a timer. With three messages an
  accepted answer that comes when its call is over takes away the timer of the call
  that waits by then. What holds, and is proved, is that a chat that is *sending* has
  one; such a call waits while the chat is free.
- `RunKept` let a run stream other messages than its own only when its call was over.
  After two calls have crossed (the first one's timer ends the sending of the second)
  the optimistic messages of both are there when one is accepted. `crossed` records it.
- `AgentTurn!ShownAsSaved` with three blocks: a text that is only `NO_REPLY` between
  two thoughts is dropped from the stream, so the second thought takes the place of
  the first, while the transcript shows both (`Replaced`). The run has three blocks now.

**Only model-checked, and why.** The liveness properties (`HalfOpenIsClosed`,
`LostBotGoesOffline`, `PollEnds`), because fairness and ENABLED are out of the
prover's reach. Every invariant and every action property of the passing runs is
stated by a theorem. No module has a RECURSIVE operator.

**Folds and sequences.** The library's induction theorems take an operator as a
parameter, which no prover at hand can instantiate. What `ChatShown` and `PagesComplete`
need of data is proved by another way: a set of numbers that has a number whenever it
has all the smaller ones is all of them (`AllNumbers`, from `WFMin` of the well-founded
order of the naturals), and a set of sequences that is closed under `Append` is all of
them (`AllSequences`). A fold is replaced by the function of its intermediate results
(`FoldExists`), from which follow the lemmas about what is picked of a sequence (`Only`)
and about what a turn is grouped into (`GroupSteps`).

## 7. What is not modelled

Left out of the modules that exist:

- the heartbeats of the signalling hub and of SSE, which change nothing but the
  moment a connection ends, and that is any moment; the length of delays and the
  jitter of reconnects, since a timer that is set may fire at any time;
- `bot.nameUpdated` and names altogether; users (all bots of a run belong to
  one, except that a code may be redeemed by anybody, and in `UserDrafts`);
- ICE candidates and the preloading of the WebRTC library, the device signature of
  the gateway link, the deadlines of single requests of `BotConnection`;
- the mutex around `bindings.json`, each use of which is one step in `Bridge` (the
  mutex itself and the write with its rename are in `TopicData`);
- a second polling loop of `AddBotPage`, and rebinding of a claimed bot;
- in the chat, `/compact` and `/help`, which only load silently when they end, and
  attachments beyond their upload;
- in the file manager, listing, `mkdir` and the checks of paths, which change
  nothing that the transfers look at; that the file's size is checked at the end;
- of the bridge, a bindings file that is not JSON, which whoever reads it deletes; a
  `clearConfig` of `bindBot` or `unbindBot` that fails; and a bridge without a server URL
  or a WebSocket implementation, which is idle as one without a token is;
- of the shared key of a run, what the other chat sees of it: a run of another bot
  that is shown in this chat, and that keeps it from sending;
- an empty file, and a file that is changed in place while it is downloaded;
- how a title is derived from a transcript, and the figures of a dashboard.

Hazards seen that no property is about, because the model does not keep what
they need or because they are one assignment:

- `bot-ws-hub.js:602`: a name refresh that is pending is rejected when its socket
  is replaced;
- `rtc-signal-hub.js:113`: the lookups of an offer and of its first candidate end
  in the other order;
- `bot-binding.js:132`: an enrolment that was answered late overwrites a newer
  binding (`OwnTokenKept` covers clearing, not overwriting);
- `chat.store.js:397`: a file that cannot be encoded fails before the `try` that
  resets `sending` (an action of `ChatRun`, `SendUnreadable`; `SendIsTimed`
  names it as the one way a chat is left sending);
- `realtime-bridge.js:357`, see section 4.

Whole parts:

- *Accounts, sessions, profile* (server): sequential handlers over the database,
  each one transaction or read; logging in and out at the tab is in `UserDrafts`.
- *Administration, TURN credentials, server information*: stateless reads.
- *Plugin command line and channel registration*: adapters around binding.
- *Views, components, routing, translations*: presentation; their state is in
  the stores, except for recording, which is modelled, and for the page's part in
  `ChatRun`, `ChatLoad`, `ChatStores` and `Binding`.
- *Electron, Tauri, Android, iOS shells*: windows, tray, permissions, keep-alive.
- *Deployment, scripts, administration pages, help, tests, assets*: around the
  program.

## 8. Plan

Modelled, in this order: the bot hub and its abstract specification, the signalling
hub, the status stream, binding, the bridge, recovery, the gateway link and the
peers; then the signalling client, chats, files, channels, the files of the
plugin, upgrades, lists, recording, log and ids.

Left to model:

1. `SignalClient` composed with `SignalHub`: what a half-open socket and a dead
   route mean to the tab; an offer and its first candidate overtaking each other.
2. In `Binding`: the second polling loop (`AddBotPage.vue:232`) and an enrolment
   that overwrites a newer binding.
3. A crash between the write and the rename of `bindings.json`.
4. The broadcast of late answers (section 4).
5. Abstract specifications of one chat (every message ends exactly once) and of one
   file (whole or absent), implemented by `ChatRun` and `FileUpload`.

Proofs: the refinements of 5.
