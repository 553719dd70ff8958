----------------------------- MODULE TopicData ------------------------------
(***************************************************************************)
(* The topics of an agent, in memory and in coclaw-topics.json, and the    *)
(* titles that are generated for them: topic-manager/manager.js and        *)
(* title-gen.js of the plugin, with the handlers of index.js.              *)
(*                                                                         *)
(* A file is replaced by a rename, so that it is never read in part.  A    *)
(* title is known by the call that gave it.  That a .jsonl file cannot be  *)
(* deleted is left out.                                                    *)
(***************************************************************************)
EXTENDS Integers, Sequences, SequencesExt

CONSTANTS
    Topics,
    Calls,               \* requests to the plugin, one use each
    MaxRestart           \* bound: restarts of the plugin

Untitled == 0
Absent == -1
Unloaded == <<>>
Stores == [Topics -> Calls \cup {Untitled, Absent}]
Empty == [t \in Topics |-> Absent]

VARIABLES
    cache,               \* __cache: per topic its title, once it is loaded
    reading,             \* __loadingPromises
    topicsFile,          \* coclaw-topics.json
    call,                \* the calls and what they wait for
    line,                \* who has the mutex and who waits for it
    snap,                \* per call: what it writes
    talks, temps,        \* the .jsonl files: of topics, and the copies
    ahead,               \* a write has failed, and none has succeeded since
    blank,               \* a file that was there was once not read
    restarts
vars == <<cache, reading, topicsFile, call, line, snap, talks, temps, ahead, blank, restarts>>

Kinds == {"create", "update", "title", "delete"}
TypeOK ==
    /\ cache \in Stores \cup {Unloaded} /\ reading \in BOOLEAN /\ topicsFile \in Stores
    /\ call \in [Calls -> [kind : Kinds, t : Topics, step :
            {"new", "load", "copy", "agent", "lock", "write", "unlink", "clean", "ok", "error", "dead"}]]
    /\ line \in Seq(Calls) /\ snap \in [Calls -> Stores]
    /\ talks \subseteq Topics /\ temps \subseteq Calls
    /\ ahead \in BOOLEAN /\ blank \in BOOLEAN /\ restarts \in 0..MaxRestart

Init ==
    /\ cache = Unloaded /\ reading = TRUE /\ topicsFile = Empty
    /\ call \in [Calls -> [kind : Kinds, t : Topics, step : {"new"}]]
    /\ \A c, d \in Calls : (c # d /\ call[c].kind = "create") => call[d].kind # "create" \/ call[d].t # call[c].t
    /\ line = <<>> /\ snap = [c \in Calls |-> Empty]
    /\ talks = {} /\ temps = {} /\ ahead = FALSE /\ blank = FALSE /\ restarts = 0

At(c, step) == call[c].step = step
Goes(c, step) == call' = [call EXCEPT ![c].step = step]
Has(t) == cache # Unloaded /\ cache[t] # Absent
Files == <<topicsFile, talks, temps>>

-----------------------------------------------------------------------------
(* Loading *)

\* load, at the start and by create; a file that cannot be read is none.
ReadDone(got) ==
    /\ reading /\ reading' = FALSE
    /\ cache' = got
    /\ blank' = (blank \/ got # topicsFile) /\ UNCHANGED ahead
    /\ call' = [c \in Calls |-> IF At(c, "load") THEN [call[c] EXCEPT !.step = "lock"] ELSE call[c]]
    /\ line' = line \o SetToSeq({c \in Calls : At(c, "load")})
    /\ UNCHANGED <<snap, Files, restarts>>

-----------------------------------------------------------------------------
(* Calls *)

Waits(c) == Goes(c, "lock") /\ line' = Append(line, c)

Create(c) ==
    /\ At(c, "new") /\ call[c].kind = "create"
    /\ IF cache = Unloaded THEN Goes(c, "load") /\ UNCHANGED line ELSE Waits(c)
    /\ UNCHANGED <<cache, reading, snap, Files, ahead, blank, restarts>>

\* updateTitle, delete and generateTitle look for the topic in the memory.
NotFound(c) ==
    /\ At(c, "new") /\ call[c].kind # "create" /\ ~Has(call[c].t)
    /\ Goes(c, "error")
    /\ UNCHANGED <<cache, reading, line, snap, Files, ahead, blank, restarts>>

Found(c) ==
    /\ At(c, "new") /\ call[c].kind # "create" /\ Has(call[c].t)
    /\ IF call[c].kind = "title" THEN Goes(c, "copy") /\ UNCHANGED line ELSE Waits(c)
    /\ UNCHANGED <<cache, reading, snap, Files, ahead, blank, restarts>>

\* copyTranscript
Copy(c) ==
    /\ At(c, "copy")
    /\ IF call[c].t \in talks THEN temps' = temps \cup {c} /\ Goes(c, "agent")
       ELSE Goes(c, "error") /\ UNCHANGED temps
    /\ UNCHANGED <<cache, reading, line, snap, topicsFile, talks, ahead, blank, restarts>>

\* The agent's title, or none
AgentEnds(c) ==
    /\ At(c, "agent")
    /\ \/ Has(call[c].t) /\ Waits(c)
       \/ Goes(c, "clean") /\ UNCHANGED line
    /\ UNCHANGED <<cache, reading, snap, Files, ahead, blank, restarts>>

\* withLock: the first in the line.  And no mutex.
AnyOne(c) == TRUE
HasLock(c) == line # <<>> /\ Head(line) = c

After(c, how) == CASE call[c].kind = "title" -> "clean"
                   [] call[c].kind = "delete" /\ how = "ok" -> "unlink"
                   [] OTHER -> how
Leaves(c, how) == Goes(c, After(c, how)) /\ line' = Tail(line)

\* The memory is changed and handed to writeJsonFile at once.
Title(c) == IF call[c].kind = "create" THEN Untitled
            ELSE IF call[c].kind = "delete" THEN Absent ELSE c
Change(c) ==
    /\ At(c, "lock") /\ HasLock(c)
    /\ call[c].kind = "create" \/ Has(call[c].t)
    /\ cache' = [cache EXCEPT ![call[c].t] = Title(c)]
    /\ snap' = [snap EXCEPT ![c] = cache']
    /\ Goes(c, "write")
    /\ UNCHANGED <<reading, line, Files, ahead, blank, restarts>>

\* It was deleted meanwhile.
Gone(c) ==
    /\ At(c, "lock") /\ HasLock(c)
    /\ call[c].kind # "create" /\ ~Has(call[c].t)
    /\ Leaves(c, IF call[c].kind = "delete" THEN "ok" ELSE "error")
    /\ UNCHANGED <<cache, reading, snap, Files, ahead, blank, restarts>>

Written(c) ==
    /\ At(c, "write")
    /\ topicsFile' = snap[c] /\ ahead' = FALSE
    /\ Leaves(c, "ok")
    /\ UNCHANGED <<cache, reading, snap, talks, temps, blank, restarts>>

WriteFails(c) ==
    /\ At(c, "write")
    /\ ahead' = TRUE
    /\ Leaves(c, "error")
    /\ UNCHANGED <<cache, reading, snap, Files, blank, restarts>>

Unlink(c) ==
    /\ At(c, "unlink")
    /\ talks' = talks \ {call[c].t} /\ Goes(c, "ok")
    /\ UNCHANGED <<cache, reading, topicsFile, line, snap, temps, ahead, blank, restarts>>

CleanUp(c) ==
    /\ At(c, "clean")
    /\ temps' = temps \ {c} /\ Goes(c, "ok")
    /\ UNCHANGED <<cache, reading, topicsFile, line, snap, talks, ahead, blank, restarts>>

-----------------------------------------------------------------------------
(* The agent's own writes, and restarts *)

Talk(t) ==
    /\ Has(t) /\ t \notin talks /\ talks' = talks \cup {t}
    /\ UNCHANGED <<cache, reading, topicsFile, call, line, snap, temps, ahead, blank, restarts>>

Restart ==
    /\ restarts < MaxRestart /\ restarts' = restarts + 1
    /\ call' = [c \in Calls |-> IF call[c].step \in {"new", "ok", "error", "dead"} THEN call[c]
                                ELSE [call[c] EXCEPT !.step = "dead"]]
    /\ cache' = Unloaded /\ reading' = TRUE /\ line' = <<>> /\ ahead' = FALSE
    /\ UNCHANGED <<snap, Files, blank>>

Next ==
    \/ ReadDone(topicsFile) \/ ReadDone(Empty) \/ Restart
    \/ \E c \in Calls :
        \/ Create(c) \/ NotFound(c) \/ Found(c) \/ Copy(c) \/ AgentEnds(c) \/ Change(c) \/ Gone(c)
        \/ Written(c) \/ WriteFails(c) \/ Unlink(c) \/ CleanUp(c)
    \/ \E t \in Topics : Talk(t)

Spec == Init /\ [][Next]_vars

-----------------------------------------------------------------------------
(* Properties *)

\* A topic whose creation was confirmed is in the file until it is deleted; and
\* but for the moment of a write, the file holds what the memory shows.  Only
\* after a file was taken for empty because it could not be read the former does
\* not hold, and only after such a read or a failed write the latter.  A copy of
\* a transcript, which would be listed as a session, is left behind only by a
\* restart.
Deleted(t) == \E c \in Calls : call[c].kind = "delete" /\ call[c].t = t /\ ~At(c, "new")
TopicsKept ==
    /\ TypeOK
    /\ \A c \in Calls : (call[c].kind = "create" /\ At(c, "ok"))
         => topicsFile[call[c].t] # Absent \/ Deleted(call[c].t) \/ blank
    /\ (cache # Unloaded /\ \A c \in Calls : ~At(c, "write")) => cache = topicsFile \/ ahead \/ blank
    /\ \A c \in temps : call[c].step \in {"agent", "lock", "write", "clean", "dead"}
=============================================================================
