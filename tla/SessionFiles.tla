---------------------------- MODULE SessionFiles ----------------------------
(***************************************************************************)
(* The session manager of the plugin,                                      *)
(* src/plugins/openclaw/src/session-manager/manager.js: it lists the       *)
(* transcripts of an agent and reads them, page by page, while the gateway *)
(* goes on writing them.  A page is cut, at an offset, out of a list made  *)
(* anew for every request.  The gateway is an external program: it appends *)
(* to the live file of a session, renames it at a reset and takes the same *)
(* id again, and deletes sessions.  A line that is no JSON is left out.    *)
(***************************************************************************)
EXTENDS Integers, Sequences, SequencesExt

CONSTANTS
    Sessions,
    Limit,               \* rows or lines in a page
    MaxTime,             \* bound: writes to the directory
    MaxLines             \* bound: lines of a transcript

VARIABLES
    disk,                \* the files of every session, the oldest archive first
    index,               \* sessions.json: updatedAt, or 0: no entry
    clock,               \* the mtime of the next write
    walk,                \* a caller going through the list, page by page
    scroll               \* a caller going through a transcript, page by page

vars == <<disk, index, clock, walk, scroll>>

NoFile == [gen |-> 0, at |-> 0, lines |-> 0]
NoFiles == [live |-> NoFile, archived |-> <<>>]

\* still: the sessions whose row has not moved since the walk began
NoWalk == [at |-> "none", cursor |-> 0, seen |-> <<>>, still |-> {}, moved |-> FALSE, gone |-> FALSE]
\* replaced: another file has taken the place of the one that is read
NoScroll(s) == [at |-> "none", of |-> s, cursor |-> 0, read |-> <<>>, replaced |-> FALSE]

TypeOK ==
    /\ DOMAIN disk = Sessions
    /\ \A s \in Sessions : \A f \in {disk[s].live} \cup ToSet(disk[s].archived) :
           f.gen <= f.at /\ f.at <= MaxTime /\ f.lines <= MaxLines
    /\ index \in [Sessions -> 0..MaxTime] /\ clock \in 1..(MaxTime + 1)
    /\ walk.at \in {"none", "open", "done"} /\ walk.still \subseteq Sessions
    /\ scroll.at \in {"none", "open", "done"} /\ scroll.of \in Sessions

Init ==
    /\ disk = [s \in Sessions |-> NoFiles] /\ index = [s \in Sessions |-> 0] /\ clock = 1
    /\ walk = NoWalk /\ scroll \in {NoScroll(s) : s \in Sessions}

-----------------------------------------------------------------------------
(* What the manager makes of the directory *)

\* parseSessionFileName and shouldReplaceByPriority, over the files of a session
\* in the order of the archives: live over reset, then the newer one.
Better(a, b) == IF a.live # b.live THEN a.live ELSE a.at > b.at
Group(files) == FoldLeft(LAMBDA row, f : IF Better(f, row) THEN f ELSE row, files[1], files)

Named(s) == [i \in DOMAIN disk[s].archived |-> [live |-> FALSE, at |-> disk[s].archived[i].at]]
            \o (IF disk[s].live = NoFile THEN <<>> ELSE <<[live |-> TRUE, at |-> disk[s].live.at]>>)

\* listAll: updatedAt of the row, that of sessions.json when there is no file
UpdatedAt(s) == IF Named(s) = <<>> THEN index[s] ELSE Group(Named(s)).at

Newer(a, b) == UpdatedAt(a) > UpdatedAt(b)
Older(a, b) == UpdatedAt(a) < UpdatedAt(b)
Sort(a, b) == Newer(a, b)
Listed == {s \in Sessions : UpdatedAt(s) > 0}
Rank(s) == Cardinality({t \in Listed : Sort(t, s)})
Rows == [i \in 1..Cardinality(Listed) |-> CHOOSE s \in Listed : Rank(s) = i - 1]

\* resolveTranscriptFile: the live file, or the archive with the latest stamp
Resolve(s) ==
    IF disk[s].live # NoFile THEN disk[s].live
    ELSE IF disk[s].archived = <<>> THEN NoFile ELSE Last(disk[s].archived)

Slice(q, cursor) == [i \in 1..Min({Limit, Max({Len(q) - cursor, 0})}) |-> q[cursor + i]]
More(q, cursor) == cursor + Limit < Len(q)

Lines(s) == [i \in 1..Resolve(s).lines |-> <<Resolve(s).gen, i>>]

\* getById: the last lines
LastOf(q) == IF Len(q) > Limit THEN SubSeq(q, Len(q) - Limit + 1, Len(q)) ELSE q

-----------------------------------------------------------------------------
(* The gateway *)

Ticks == clock <= MaxTime /\ clock' = clock + 1

Moves(s, up) ==
    walk' = IF walk.at # "open" THEN walk
            ELSE [walk EXCEPT !.still = @ \ {s}, !.moved = @ \/ up, !.gone = @ \/ ~up]
Replaces(s, yes) ==
    scroll' = [scroll EXCEPT !.replaced = @ \/ (yes /\ scroll.of = s /\ scroll.at = "open")]

\* A message is written; the first one makes the file.
Write(s) ==
    /\ Ticks /\ disk[s].live.lines < MaxLines
    /\ disk' = [disk EXCEPT ![s].live =
                   [gen |-> IF @ = NoFile THEN clock ELSE @.gen, at |-> clock, lines |-> @.lines + 1]]
    /\ index' = [index EXCEPT ![s] = clock]
    /\ Moves(s, TRUE) /\ Replaces(s, disk[s].live = NoFile)

\* A session without a transcript: only its entry is written.
Enter(s) ==
    /\ Ticks /\ disk[s] = NoFiles
    /\ index' = [index EXCEPT ![s] = clock]
    /\ Moves(s, TRUE) /\ UNCHANGED <<disk, scroll>>

\* The transcript is archived and keeps its mtime; the session goes on under its id.
Reset(s) ==
    /\ Ticks /\ disk[s].live # NoFile
    /\ disk' = [disk EXCEPT ![s] = [live |-> NoFile, archived |-> Append(@.archived, @.live)]]
    /\ index' = [index EXCEPT ![s] = clock]
    /\ UNCHANGED <<walk, scroll>>

Delete(s) ==
    /\ index[s] > 0
    /\ disk' = [disk EXCEPT ![s].live = NoFile]
    /\ index' = [index EXCEPT ![s] = 0]
    /\ Moves(s, FALSE) /\ Replaces(s, disk[s].live # NoFile)
    /\ UNCHANGED clock

-----------------------------------------------------------------------------
(* Callers, one at a time: they only read *)

\* listAll, for the first page and for each nextCursor
ListFrom(w) ==
    walk' = [w EXCEPT !.seen = @ \o Slice(Rows, w.cursor), !.cursor = @ + Limit,
                      !.at = IF More(Rows, w.cursor) THEN "open" ELSE "done"]
List ==
    /\ \/ walk.at = "none" /\ scroll.at = "none" /\ ListFrom([NoWalk EXCEPT !.still = ToSet(Rows)])
       \/ walk.at = "open" /\ ListFrom(walk)
       \/ walk.at = "done" /\ walk' = NoWalk
    /\ UNCHANGED <<disk, index, clock, scroll>>

\* get, likewise
GetFrom(r) ==
    scroll' = [r EXCEPT !.read = @ \o Slice(Lines(r.of), r.cursor), !.cursor = @ + Limit,
                        !.at = IF More(Lines(r.of), r.cursor) THEN "open" ELSE "done"]
Get ==
    /\ \/ scroll.at = "none" /\ walk.at = "none" /\ GetFrom(scroll)
       \/ scroll.at = "open" /\ GetFrom(scroll)
       \/ scroll.at = "done" /\ scroll' \in {NoScroll(s) : s \in Sessions}
    /\ UNCHANGED <<disk, index, clock, walk>>

Next ==
    \/ \E s \in Sessions : Write(s) \/ Enter(s) \/ Reset(s) \/ Delete(s)
    \/ List \/ Get

Spec == Init /\ [][Next]_vars

-----------------------------------------------------------------------------
(* Properties *)

\* A session whose row has not moved while a caller went through the list has
\* been on a page, unless another one was deleted meanwhile, and on one page
\* only, unless another one was written to.
Pages(s) == {i \in DOMAIN walk.seen : walk.seen[i] = s}
ListWhole ==
    walk.at = "done" =>
        \A s \in walk.still :
            /\ walk.gone \/ Pages(s) # {}
            /\ walk.moved \/ \A i, j \in Pages(s) : i = j

\* A caller reads one transcript, from its first line on, though it is archived
\* meanwhile; two are mixed only if the session was taken up again or deleted
\* between two pages.  What getById finds in the same file is the end of it.
TranscriptWhole ==
    scroll.at = "done" /\ ~scroll.replaced =>
        /\ \A i \in DOMAIN scroll.read : scroll.read[i] = <<scroll.read[1][1], i>>
        /\ scroll.read = Lines(scroll.of) => IsSuffix(LastOf(Lines(scroll.of)), scroll.read)

PagesComplete == TypeOK /\ ListWhole /\ TranscriptWhole
=============================================================================
