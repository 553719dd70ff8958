---------------------------- MODULE ChatHistory -----------------------------
(***************************************************************************)
(* The sessions a chat has left behind, in coclaw-chat-history.json:       *)
(* chat-history-manager/manager.js of the plugin, with the session_start   *)
(* hook and the handler of index.js.  The gateway tells of each session    *)
(* once, or more than once.  One chat is modelled.                         *)
(***************************************************************************)
EXTENDS Naturals, Sequences, SequencesExt

CONSTANTS
    Ended,               \* sessions
    Hooks                \* calls of the hook, one use each

VARIABLES
    known,               \* __cache: the history, once it is loaded
    historyFile,         \* coclaw-chat-history.json
    hook,                \* the calls of the hook: their session and step
    turns,               \* who has the mutex and who waits for it
    written,             \* what the one that has it writes
    lists,               \* a list under way: what was in the file since it began
    unread               \* a file that was there was once not read

vars == <<known, historyFile, hook, turns, written, lists, unread>>

NotLoaded == [loaded |-> FALSE, h |-> <<>>]
Loaded(h) == [loaded |-> TRUE, h |-> h]

TypeOK ==
    /\ known \in [loaded : BOOLEAN, h : Seq(Ended)]
    /\ historyFile \in Seq(Ended)
    /\ hook \in [Hooks -> [s : Ended, step : {"new", "load", "lock", "write", "ok", "error"}]]
    /\ turns \in Seq(Hooks) /\ written \in Seq(Ended)
    /\ lists \subseteq Seq(Ended) /\ unread \in BOOLEAN

Init ==
    /\ known = NotLoaded /\ historyFile = <<>>
    /\ hook \in [Hooks -> [s : Ended, step : {"new"}]]
    /\ turns = <<>> /\ written = <<>> /\ lists = {} /\ unread = FALSE

Goes(c, step) == hook' = [hook EXCEPT ![c].step = step]

-----------------------------------------------------------------------------
(* session_start *)

Begin(c) ==
    /\ hook[c].step = "new"
    /\ IF known.loaded THEN Goes(c, "lock") /\ turns' = Append(turns, c)
       ELSE Goes(c, "load") /\ UNCHANGED turns
    /\ UNCHANGED <<known, historyFile, written, lists, unread>>

\* load: a file that cannot be read is an empty one.
LoadDone(got) ==
    /\ ~known.loaded
    /\ LET waiting == {c \in Hooks : hook[c].step = "load"}
       IN  /\ hook' = [c \in Hooks |-> IF c \in waiting THEN [hook[c] EXCEPT !.step = "lock"] ELSE hook[c]]
           /\ turns' = turns \o SetToSeq(waiting)
    /\ known' = Loaded(got) /\ unread' = (unread \/ got # historyFile)
    /\ UNCHANGED <<historyFile, written, lists>>

\* recordArchived: the file is read again, and if it cannot be read, what is
\* known is taken; then a session that is not there yet is put in front.  And if
\* it was not read again.
FromMemory == {[h |-> known.h, unread |-> FALSE]}
Reloaded == {[h |-> historyFile, unread |-> FALSE],
             [h |-> known.h, unread |-> known.h # historyFile]}

Record(c) ==
    /\ turns # <<>> /\ Head(turns) = c /\ hook[c].step = "lock"
    /\ \E r \in Reloaded :
         /\ unread' = (unread \/ r.unread)
         /\ IF Contains(r.h, hook[c].s)
            THEN /\ known' = Loaded(r.h) /\ Goes(c, "ok") /\ turns' = Tail(turns)
                 /\ UNCHANGED written
            ELSE /\ known' = Loaded(<<hook[c].s>> \o r.h)
                 /\ written' = <<hook[c].s>> \o r.h /\ Goes(c, "write")
                 /\ UNCHANGED turns
    /\ UNCHANGED <<historyFile, lists>>

Written(c) ==
    /\ hook[c].step = "write"
    /\ historyFile' = written /\ Goes(c, "ok") /\ turns' = Tail(turns)
    /\ lists' = IF lists = {} THEN {} ELSE lists \cup {written}
    /\ UNCHANGED <<known, written, unread>>

WriteFails(c) ==
    /\ hook[c].step = "write"
    /\ Goes(c, "error") /\ turns' = Tail(turns)
    /\ UNCHANGED <<known, historyFile, written, lists, unread>>

-----------------------------------------------------------------------------
(* coclaw.chatHistory.list: without the mutex, it sets what is known. *)

List ==
    /\ lists = {} /\ known.loaded
    /\ lists' = {historyFile}
    /\ UNCHANGED <<known, historyFile, hook, turns, written, unread>>

Listed ==
    /\ \E h \in lists : known' = Loaded(h)
    /\ lists' = {}
    /\ UNCHANGED <<historyFile, hook, turns, written, unread>>

Next ==
    \/ LoadDone(historyFile) \/ LoadDone(<<>>) \/ List \/ Listed
    \/ \E c \in Hooks : Begin(c) \/ Record(c) \/ Written(c) \/ WriteFails(c)

Spec == Init /\ [][Next]_vars

-----------------------------------------------------------------------------
(* Properties *)

\* A session that was recorded stays in the file, once, whatever the lists make
\* of the memory meanwhile; unless the file could not be read some time, and
\* what was known has replaced it.
HistoryKept ==
    /\ TypeOK
    /\ \A c \in Hooks : hook[c].step = "ok" => Contains(historyFile, hook[c].s) \/ unread
    /\ \A i, j \in DOMAIN historyFile : historyFile[i] = historyFile[j] => i = j
=============================================================================
