------------------------------ MODULE MCBridge ------------------------------
(***************************************************************************)
(* For TLC: the plugin's bridge, with any method called and the bridge     *)
(* refreshed or stopped at any time; and what the plugin keeps on disk:    *)
(* topics, the history of chats, transcripts, and its own versions.  The   *)
(* parts share no state, so that each is explored by itself: part says     *)
(* which one it is, and x1, x2, ... are its variables, if it is not the    *)
(* bridge.                                                                 *)
(***************************************************************************)
EXTENDS Bridge, FiniteSets

CONSTANTS
    Topics, Calls, MaxRestart, Ended, Hooks, Sessions, Limit, MaxTime, MaxLines,
    Latest, Broken, MaxWorker

VARIABLES part, x1, x2, x3, x4, x5, x6, x7, x8, x9, x10, x11

AnyThenRestart == <<{"stopBridge", "bind", "unbind", "enroll"}, {"refreshBridge", "stopBridge"}>>

TopicFile == INSTANCE TopicData WITH
    cache <- x1, reading <- x2, topicsFile <- x3, call <- x4, line <- x5, snap <- x6,
    talks <- x7, temps <- x8, ahead <- x9, blank <- x10, restarts <- x11
ChatFile == INSTANCE ChatHistory WITH
    known <- x1, historyFile <- x2, hook <- x3, turns <- x4, written <- x5, lists <- x6,
    unread <- x7
Transcripts == INSTANCE SessionFiles WITH
    disk <- x1, index <- x2, clock <- x3, walk <- x4, scroll <- x5
Upgrade == INSTANCE AutoUpgrade WITH
    dir <- x1, bak <- x2, run <- x3, published <- x4, check <- x5, worker <- x6,
    lock <- x7, skipped <- x8, overlap <- x9

\* An absent topic is no call; a broken version is not the first.
ASSUME PluginAssumption ==
    /\ IsFiniteSet(Calls) /\ TopicFile!Absent \notin Calls /\ MaxRestart \in Nat
    /\ IsFiniteSet(Hooks)
    /\ Limit \in Nat \ {0} /\ MaxTime \in Nat /\ MaxLines \in Nat
    /\ Latest \in Nat \ {0} /\ MaxWorker \in Nat /\ 1 \notin Broken

\* A part that has n variables leaves the others alone.
Unused(n) ==
    /\ IF n < 1 THEN x1 = 0 ELSE TRUE
    /\ IF n < 2 THEN x2 = 0 ELSE TRUE
    /\ IF n < 3 THEN x3 = 0 ELSE TRUE
    /\ IF n < 4 THEN x4 = 0 ELSE TRUE
    /\ IF n < 5 THEN x5 = 0 ELSE TRUE
    /\ IF n < 6 THEN x6 = 0 ELSE TRUE
    /\ IF n < 7 THEN x7 = 0 ELSE TRUE
    /\ IF n < 8 THEN x8 = 0 ELSE TRUE
    /\ IF n < 9 THEN x9 = 0 ELSE TRUE
    /\ IF n < 10 THEN x10 = 0 ELSE TRUE
    /\ IF n < 11 THEN x11 = 0 ELSE TRUE
Still(n) ==
    /\ IF n < 1 THEN UNCHANGED x1 ELSE TRUE
    /\ IF n < 2 THEN UNCHANGED x2 ELSE TRUE
    /\ IF n < 3 THEN UNCHANGED x3 ELSE TRUE
    /\ IF n < 4 THEN UNCHANGED x4 ELSE TRUE
    /\ IF n < 5 THEN UNCHANGED x5 ELSE TRUE
    /\ IF n < 6 THEN UNCHANGED x6 ELSE TRUE
    /\ IF n < 7 THEN UNCHANGED x7 ELSE TRUE
    /\ IF n < 8 THEN UNCHANGED x8 ELSE TRUE
    /\ IF n < 9 THEN UNCHANGED x9 ELSE TRUE
    /\ IF n < 10 THEN UNCHANGED x10 ELSE TRUE
    /\ IF n < 11 THEN UNCHANGED x11 ELSE TRUE

PluginInit ==
    /\ Init
    /\ \/ part = "bridge" /\ Unused(0)
       \/ part = "topics" /\ TopicFile!Init /\ Unused(11) /\ config = None
       \/ part = "history" /\ ChatFile!Init /\ Unused(7) /\ config = None
       \/ part = "sessions" /\ Transcripts!Init /\ Unused(5) /\ config = None
       \/ part = "upgrade" /\ Upgrade!Init /\ Unused(9) /\ config = None

PluginNext ==
    /\ UNCHANGED part
    /\ IF part = "bridge" THEN Next /\ Still(0) ELSE UNCHANGED vars
    /\ \/ part = "bridge"
       \/ part = "topics" /\ TopicFile!Next /\ Still(11)
       \/ part = "history" /\ ChatFile!Next /\ Still(7)
       \/ part = "sessions" /\ Transcripts!Next /\ Still(5)
       \/ part = "upgrade" /\ Upgrade!Next /\ Still(9)

allVars == <<part, vars, x1, x2, x3, x4, x5, x6, x7, x8, x9, x10, x11>>
PluginSpec == PluginInit /\ [][PluginNext]_allVars

-----------------------------------------------------------------------------
(* Properties: each is stated and explained in the module of its part *)

\* What was confirmed is in the file, and what was listed is complete.  See
\* TopicData for topics, ChatHistory for the history of chats and SessionFiles for
\* the pages of sessions and transcripts.
ConfirmedKept ==
    CASE part = "topics" -> TopicFile!TopicsKept
      [] part = "history" -> ChatFile!HistoryKept
      [] part = "sessions" -> Transcripts!PagesComplete
      [] OTHER -> TRUE

\* See AutoUpgrade: a version of the plugin that works is installed or in the
\* backup, at every step of an upgrade.
PluginKept == [][part = "upgrade" => Upgrade!KeepsPlugin]_allVars
=============================================================================
