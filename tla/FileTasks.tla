----------------------------- MODULE FileTasks ------------------------------
(***************************************************************************)
(* The uploads and downloads of a tab as tasks,                            *)
(* src/ui/src/stores/files.store.js: uploads to an agent run one at a      *)
(* time, downloads at the same time.  What a transfer goes through is      *)
(* FileUpload's and FileDownload's; here it ends well, fails or is         *)
(* cancelled.  A task is added under the next number, so that the numbers  *)
(* are the order of the map tasks; every download is of the same file.     *)
(***************************************************************************)
EXTENDS Naturals

CONSTANTS
    MaxTask,             \* bound: tasks
    MaxRetry             \* bound: retries

VARIABLES
    status,              \* of each task; "none": not added, "gone": cleared
    type,                \* "upload" or "download"
    rtc,                 \* there is a WebRTC connection
    retries

vars == <<status, type, rtc, retries>>

Tasks == 1..MaxTask

TypeOK ==
    /\ status \in [Tasks -> {"none", "pending", "running", "done", "failed", "cancelled", "gone"}]
    /\ type \in [Tasks -> {"upload", "download"}]
    /\ rtc \in BOOLEAN /\ retries \in 0..MaxRetry

Init ==
    /\ status = [t \in Tasks |-> "none"] /\ type \in [Tasks -> {"upload", "download"}]
    /\ rtc = FALSE /\ retries = 0

-----------------------------------------------------------------------------

Of(st, kind, states) == {t \in Tasks : type[t] = kind /\ st[t] \in states}

\* __executeUpload and __executeDownload up to where they wait
Execute(st, t) == [st EXCEPT ![t] = IF rtc THEN "running" ELSE "failed"]

\* __runUploadQueue: the first that is pending; without a connection they fail
\* one after the other.
RunUploadQueue(st) ==
    LET pending == Of(st, "upload", {"pending"})
    IN IF Of(st, "upload", {"running"}) # {} \/ pending = {} THEN st
       ELSE IF rtc THEN Execute(st, CHOOSE t \in pending : \A r \in pending : t <= r)
       ELSE [t \in Tasks |-> IF t \in pending THEN "failed" ELSE st[t]]

\* What follows the end of a transfer.  And nothing.
Stopped(st, t) == st
GoneOn(st, t) == IF type[t] = "upload" THEN RunUploadQueue(st) ELSE st

Unused(t) == status[t] = "none" /\ \A r \in 1..t - 1 : status[r] # "none"

\* One or more files
EnqueueUploads(ts) ==
    /\ \E first \in ts : Unused(first) /\ \A t \in ts : t >= first
    /\ \A t \in ts : \A r \in 1..t - 1 : status[r] # "none" \/ r \in ts
    /\ \A t \in ts : status[t] = "none" /\ type[t] = "upload"
    /\ status' = RunUploadQueue([t \in Tasks |-> IF t \in ts THEN "pending" ELSE status[t]])
    /\ UNCHANGED <<type, rtc, retries>>

\* A file that is being downloaded is not downloaded again.
EnqueueDownload(t) ==
    /\ Unused(t) /\ type[t] = "download"
    /\ Of(status, "download", {"pending", "running"}) = {}
    /\ status' = Execute(status, t)
    /\ UNCHANGED <<type, rtc, retries>>

\* cancelTask: the handle's promise is rejected, and the queue goes on.
CancelTask(t) ==
    /\ status[t] \in {"pending", "running"}
    /\ LET st == [status EXCEPT ![t] = "cancelled"]
       IN status' = IF status[t] = "running" THEN GoneOn(st, t) ELSE st
    /\ UNCHANGED <<type, rtc, retries>>

RetryTask(t) ==
    /\ status[t] = "failed" /\ retries < MaxRetry
    /\ status' = IF type[t] = "upload" THEN RunUploadQueue([status EXCEPT ![t] = "pending"])
                 ELSE Execute(status, t)
    /\ retries' = retries + 1 /\ UNCHANGED <<type, rtc>>

ClearFinished ==
    /\ status' = [t \in Tasks |-> IF status[t] \in {"done", "failed", "cancelled"} THEN "gone" ELSE status[t]]
    /\ UNCHANGED <<type, rtc, retries>>

\* The transfer has come to its end.
Ends(t, how) ==
    /\ status[t] = "running"
    /\ status' = GoneOn([status EXCEPT ![t] = how], t)
    /\ UNCHANGED <<type, rtc, retries>>

\* The connection comes and goes; transfers fail by themselves.
RtcChanges == rtc' = ~rtc /\ UNCHANGED <<status, type, retries>>

Next ==
    \/ \E ts \in SUBSET Tasks : EnqueueUploads(ts)
    \/ \E t \in Tasks : EnqueueDownload(t) \/ CancelTask(t) \/ RetryTask(t)
    \/ \E t \in Tasks, how \in {"done", "failed"} : Ends(t, how)
    \/ ClearFinished \/ RtcChanges

Spec == Init /\ [][Next]_vars

-----------------------------------------------------------------------------
(* Properties *)

\* One upload runs at a time, and none waits when none runs, whatever was
\* cancelled, failed or was tried again; a file is downloaded twice at a time only
\* when a download that failed was tried again.
Single(ts) == \A t, r \in ts : t = r
QueueGoesOn ==
    /\ TypeOK
    /\ Single(Of(status, "upload", {"running"}))
    /\ Of(status, "upload", {"running"}) = {} => Of(status, "upload", {"pending"}) = {}
    /\ retries = 0 => Single(Of(status, "download", {"running"}))
=============================================================================
