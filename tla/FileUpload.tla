----------------------------- MODULE FileUpload ----------------------------
(***************************************************************************)
(* A file of the agent's workspace that a tab uploads anew, one upload     *)
(* after the other, and deletes: src/ui/src/stores/files.store.js,         *)
(* src/ui/src/services/file-transfer.js and the plugin's                   *)
(* file-manager/handler.js.                                                *)
(*                                                                         *)
(* Each upload has a data channel of its own.  It carries what was sent    *)
(* before it was closed, unless the peer connection breaks.  All the data  *)
(* of an upload come before "done", so that the check of their size, which *)
(* this tab always passes, is left out.                                    *)
(***************************************************************************)
EXTENDS Naturals, Sequences

CONSTANTS
    MaxUpload,           \* bound: uploads, retries included
    MaxRestart           \* bound: restarts of the plugin and breaks of the peer connection

Uploads == 1..MaxUpload
None == 0

VARIABLES
    step,                \* the tab: the task's status and what it waits for
    chUp, chDown,        \* each upload's channel, to the plugin and to the tab
    put,                 \* the plugin's side of it
    tmp,                 \* the temporary files
    creating, unlink,    \* those that are being created, and deleted
    file,                \* the file: whose contents, and if all of it
    create,              \* coclaw.files.create has found no file
    cleaned,             \* the plugin's clean-up after its start has been
    restarts

transfer == <<step, chUp, chDown, put, tmp, creating, unlink>>
vars == <<transfer, file, create, cleaned, restarts>>

Running == {"opening", "asked", "sending", "sent"}
TypeOK ==
    /\ step \in [Uploads -> Running \cup {"pending", "done", "failed", "cancelled"}]
    /\ chUp \in [Uploads -> Seq({"req", "done", "close"})]
    /\ chDown \in [Uploads -> Seq({"ready", "ok", "error", "close"})]
    /\ put \in [Uploads -> [st : {"none", "asked", "receive", "failed", "end", "rename", "over"},
                           open : BOOLEAN, closed : BOOLEAN]]
    /\ tmp \in [Uploads -> {"no", "part", "whole"}]
    /\ creating \subseteq Uploads /\ unlink \subseteq Uploads
    /\ file \in [of : Uploads \cup {None}, whole : BOOLEAN]
    /\ create \in BOOLEAN /\ cleaned \in BOOLEAN /\ restarts \in 0..MaxRestart

Init ==
    /\ step = [t \in Uploads |-> "pending"]
    /\ chUp = [t \in Uploads |-> <<>>] /\ chDown = [t \in Uploads |-> <<>>]
    /\ put = [t \in Uploads |-> [st |-> "none", open |-> FALSE, closed |-> FALSE]]
    /\ tmp = [t \in Uploads |-> "no"] /\ creating = {} /\ unlink = {}
    /\ file = [of |-> None, whole |-> TRUE]
    /\ create = FALSE /\ cleaned = FALSE /\ restarts = 0

-----------------------------------------------------------------------------
(* The tab: uploads *)

ToPlugin(t, m) == chUp' = [chUp EXCEPT ![t] = Append(@, m)]

\* settle and cleanup: nothing that comes later is looked at.
Settle(t, how) ==
    /\ step' = [step EXCEPT ![t] = how]
    /\ ToPlugin(t, "close")
    /\ chDown' = [chDown EXCEPT ![t] = <<>>]

CreateFileDC(t) == put' = [put EXCEPT ![t].open = TRUE]

\* __runUploadQueue: the first that is pending, when none is running.
NoneRuns == \A t \in Uploads : step[t] \notin Running
Start(t) ==
    /\ NoneRuns
    /\ step[t] = "pending" /\ \A r \in 1..t - 1 : step[r] # "pending"
    /\ step' = [step EXCEPT ![t] = "opening"]
    /\ CreateFileDC(t)
    /\ UNCHANGED <<chUp, chDown, tmp, creating, unlink, file, create, cleaned, restarts>>

\* One that is cancelled before, or finds no peer connection
NotStarted(t) ==
    /\ step[t] = "pending"
    /\ \E how \in IF NoneRuns THEN {"failed", "cancelled"} ELSE {"cancelled"} :
         step' = [step EXCEPT ![t] = how]
    /\ UNCHANGED <<chUp, chDown, put, tmp, creating, unlink, file, create, cleaned, restarts>>

\* onopen
Opened(t) ==
    /\ step[t] = "opening" /\ chDown[t] = <<>>
    /\ step' = [step EXCEPT ![t] = "asked"]
    /\ ToPlugin(t, "req")
    /\ UNCHANGED <<chDown, put, tmp, creating, unlink, file, create, cleaned, restarts>>

\* sendChunks and the done signal, or a failure of the reader
Sent(t) ==
    /\ step[t] = "sending"
    /\ step' = [step EXCEPT ![t] = "sent"]
    /\ ToPlugin(t, "done")
    /\ UNCHANGED <<chDown, put, tmp, creating, unlink, file, create, cleaned, restarts>>

\* The reader or the channel fails, the plugin is not ready in time, or the user
\* cancels the task.
GivesUp(t) ==
    /\ \/ step[t] \in {"opening", "asked", "sending"} /\ Settle(t, "failed")
       \/ step[t] \in Running /\ Settle(t, "cancelled")
    /\ UNCHANGED <<put, tmp, creating, unlink, file, create, cleaned, restarts>>

\* onmessage, and onclose, which comes after all messages
Ready(t) ==
    /\ chDown[t] # <<>> /\ Head(chDown[t]) = "ready"
    /\ step' = [step EXCEPT ![t] = "sending"]
    /\ chDown' = [chDown EXCEPT ![t] = Tail(@)]
    /\ UNCHANGED <<chUp, put, tmp, creating, unlink, file, create, cleaned, restarts>>

Result(t) ==
    /\ chDown[t] # <<>> /\ Head(chDown[t]) # "ready"
    /\ Settle(t, IF Head(chDown[t]) = "ok" THEN "done" ELSE "failed")
    /\ UNCHANGED <<put, tmp, creating, unlink, file, create, cleaned, restarts>>

-----------------------------------------------------------------------------
(* The plugin: uploads *)

\* Nothing can be sent on a channel that is closed; what sends last closes it.
Reply(t, st, ms) ==
    /\ chDown' = [chDown EXCEPT ![t] = IF put[t].open /\ step[t] \in Running THEN @ \o ms ELSE @]
    /\ put' = [put EXCEPT ![t] = [st |-> st, open |-> put[t].open /\ ms = <<"ready">>,
                                closed |-> @.closed]]
Fails(t, st) == Reply(t, st, <<"error", "close">>)

Request(t) ==
    /\ chUp[t] # <<>> /\ Head(chUp[t]) = "req"
    /\ chUp' = [chUp EXCEPT ![t] = Tail(@)]
    /\ put' = [put EXCEPT ![t].st = IF @ = "none" THEN "asked" ELSE @]
    /\ UNCHANGED <<step, chDown, tmp, creating, unlink, file, create, cleaned, restarts>>

RequestTimeout(t) ==
    /\ put[t].st = "none" /\ put[t].open
    /\ Fails(t, "over")
    /\ UNCHANGED <<step, chUp, tmp, creating, unlink, file, create, cleaned, restarts>>

\* handlePut, handlePost, receiveUpload: the path is valid and the directory is
\* there, or not.  On a closed channel the temporary file is deleted when closed.
Prepared(t) ==
    /\ put[t].st = "asked"
    /\ \/ /\ Reply(t, IF put[t].open THEN "receive" ELSE "over", <<"ready">>)
          /\ creating' = IF put[t].open THEN creating \cup {t} ELSE creating
       \/ Fails(t, "over") /\ UNCHANGED creating
    /\ UNCHANGED <<step, chUp, tmp, unlink, file, create, cleaned, restarts>>

Created(t) ==
    /\ t \in creating
    /\ creating' = creating \ {t}
    /\ tmp' = [tmp EXCEPT ![t] = "part"]
    /\ UNCHANGED <<step, chUp, chDown, put, unlink, file, create, cleaned, restarts>>

\* The done signal: ws.end.  The callback of a stream that has failed is called
\* at once.
DoneSignal(t) ==
    /\ chUp[t] # <<>> /\ Head(chUp[t]) = "done"
    /\ chUp' = [chUp EXCEPT ![t] = Tail(@)]
    /\ put' = [put EXCEPT ![t].st = IF @ = "receive" THEN "end"
                                  ELSE IF @ = "failed" THEN "rename" ELSE @]
    /\ UNCHANGED <<step, chDown, tmp, creating, unlink, file, create, cleaned, restarts>>

\* The callback of ws.end looks at dcClosed.
AfterEnd(t) == IF put[t].closed THEN "over" ELSE "rename"

Ended(t) ==
    /\ put[t].st = "end" /\ t \notin creating
    /\ tmp' = [tmp EXCEPT ![t] = IF @ = "no" THEN @ ELSE "whole"]
    /\ put' = [put EXCEPT ![t].st = AfterEnd(t)]
    /\ unlink' = IF put[t].closed THEN unlink \cup {t} ELSE unlink
    /\ UNCHANGED <<step, chUp, chDown, creating, file, create, cleaned, restarts>>

\* The stream fails.  If the done signal has come, the callback of ws.end, which
\* does not look for an error, is called before the error event.
WriteFails(t) ==
    /\ put[t].st \in {"receive", "end"}
    /\ unlink' = unlink \cup {t} /\ creating' = creating \ {t}
    /\ Fails(t, IF put[t].st = "receive" THEN "failed" ELSE AfterEnd(t))
    /\ UNCHANGED <<step, chUp, tmp, file, create, cleaned, restarts>>

\* The result is sent when the file is renamed.  And before it is known to be.
ToldFirst(t, renamed) == Reply(t, "over", <<"ok", "close">>)
Told(t, renamed) ==
    IF renamed THEN Reply(t, "over", <<"ok", "close">>) ELSE Fails(t, "over")

Renamed(t) ==
    /\ put[t].st = "rename"
    /\ \/ /\ tmp[t] # "no"
          /\ file' = [of |-> t, whole |-> tmp[t] = "whole"]
          /\ tmp' = [tmp EXCEPT ![t] = "no"]
          /\ Told(t, TRUE) /\ UNCHANGED unlink
       \/ Told(t, FALSE) /\ unlink' = unlink \cup {t} /\ UNCHANGED <<file, tmp>>
    /\ UNCHANGED <<step, chUp, creating, create, cleaned, restarts>>

\* The end of the channel: onclose.  What is left is deleted.
DropTmp(t) == IF put[t].st \in {"receive", "failed"} THEN unlink \cup {t} ELSE unlink

ChannelEnds(t) ==
    /\ ~put[t].closed /\ put[t].st # "none"
    /\ \/ chUp[t] # <<>> /\ Head(chUp[t]) = "close"
       \/ ~put[t].open /\ put[t].st # "asked"
    /\ unlink' = DropTmp(t)
    /\ put' = [put EXCEPT ![t] =
                [st |-> IF @.st \in {"receive", "failed"} THEN "over" ELSE @.st, open |-> FALSE,
                 closed |-> @.st # "asked"]]
    /\ chUp' = [chUp EXCEPT ![t] = <<>>]
    /\ UNCHANGED <<step, chDown, tmp, creating, file, create, cleaned, restarts>>

Unlinked(t) ==
    /\ t \in unlink
    /\ unlink' = unlink \ {t}
    /\ tmp' = [tmp EXCEPT ![t] = "no"]
    /\ UNCHANGED <<step, chUp, chDown, put, creating, file, create, cleaned, restarts>>

\* scheduleTmpCleanup: every temporary file, whoever is at work on it.
CleanUp ==
    /\ ~cleaned /\ cleaned' = TRUE
    /\ unlink' = unlink \cup {t \in Uploads : tmp[t] # "no"}
    /\ UNCHANGED <<step, chUp, chDown, put, tmp, creating, file, create, restarts>>

-----------------------------------------------------------------------------
(* The rpc channel: coclaw.files.delete and coclaw.files.create *)

\* No file, or an empty one
Empty == [of |-> None, whole |-> TRUE]

Delete ==
    /\ file.of # None
    /\ file' = Empty
    /\ UNCHANGED <<transfer, create, cleaned, restarts>>

\* createFile looks if there is a file and then writes one.
CreateLooks ==
    /\ ~create /\ file.of = None
    /\ create' = TRUE
    /\ UNCHANGED <<transfer, file, cleaned, restarts>>

CreateWrites ==
    /\ create /\ create' = FALSE
    /\ file' = Empty
    /\ UNCHANGED <<transfer, cleaned, restarts>>

-----------------------------------------------------------------------------
(* Failures *)

\* The peer connection breaks: what is on its way is lost.
Live(t) == step[t] \in Running \/ put[t].st \notin {"none", "over"}
Breaks ==
    /\ restarts < MaxRestart /\ restarts' = restarts + 1
    /\ chUp' = [t \in Uploads |-> IF Live(t) /\ put[t].st # "none" THEN <<"close">> ELSE <<>>]
    /\ chDown' = [t \in Uploads |-> IF step[t] \in Running THEN <<"close">> ELSE <<>>]
    /\ put' = [t \in Uploads |-> IF Live(t) THEN [put[t] EXCEPT !.open = FALSE] ELSE put[t]]
    /\ UNCHANGED <<step, tmp, creating, unlink, file, create, cleaned>>

\* The plugin stops and starts anew.
Restart ==
    /\ restarts < MaxRestart /\ restarts' = restarts + 1
    /\ chUp' = [t \in Uploads |-> <<>>]
    /\ chDown' = [t \in Uploads |-> IF step[t] \in Running THEN <<"close">> ELSE <<>>]
    /\ put' = [t \in Uploads |-> IF Live(t) THEN [st |-> "over", open |-> FALSE, closed |-> TRUE]
                                ELSE put[t]]
    /\ creating' = {} /\ unlink' = {} /\ create' = FALSE /\ cleaned' = FALSE
    /\ UNCHANGED <<step, tmp, file>>

Next ==
    \/ \E t \in Uploads :
        \/ Start(t) \/ NotStarted(t) \/ Opened(t) \/ Sent(t) \/ GivesUp(t) \/ Ready(t)
        \/ Result(t)
        \/ Request(t) \/ RequestTimeout(t) \/ Prepared(t) \/ Created(t) \/ DoneSignal(t)
        \/ Ended(t) \/ WriteFails(t) \/ Renamed(t) \/ ChannelEnds(t) \/ Unlinked(t)
    \/ CleanUp \/ Delete \/ CreateLooks \/ CreateWrites \/ Breaks \/ Restart

Spec == Init /\ [][Next]_vars

-----------------------------------------------------------------------------
(* Properties *)

\* The file becomes a whole upload at once or not at all.  Only if the stream
\* fails after the done signal a part of one replaces it, and the tab has been
\* sent the error; and an upload replaces a later one only if the tab had given
\* it up.  An upload that the tab is told is done is the file, unless that has
\* been deleted or created anew, or replaced by one that was given up.
GivenUp(t) == step[t] \in {"failed", "cancelled"}
ReplacesFile ==
    \A t \in Uploads :
        /\ (file' # file /\ file'.of = t) =>
             (file'.whole \/ ~put[t].open) /\ (file.of > t => GivenUp(t))
        /\ (step[t] # "done" /\ step'[t] = "done") =>
             \/ file = [of |-> t, whole |-> TRUE] \/ file = Empty
             \/ file.of < t /\ GivenUp(file.of)
FileReplaced == [][ReplacesFile]_vars
=============================================================================
