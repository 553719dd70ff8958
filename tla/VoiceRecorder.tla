--------------------------- MODULE VoiceRecorder ----------------------------
(***************************************************************************)
(* Recording on a desktop: src/ui/src/utils/voice-recorder.js and the chat *)
(* input that makes a recorder each time and shows its state,              *)
(* components/ChatInput.vue.  The library is as in TouchSpeak.             *)
(***************************************************************************)
EXTENDS Naturals

CONSTANT MaxRecorder     \* bound: recorders made

Recorders == 1..MaxRecorder
None == 0

VARIABLES
    mounted,             \* the chat input is there
    shown,               \* its recorderStatus
    current,             \* its voiceRecorder
    rec                  \* the recorders; cancelled: the status when last cancelled

vars == <<mounted, shown, current, rec>>

Status == {"IDLE", "STARTING", "RECORDING", "STOPPING", "STOPPED", "CANCELED", "FAILED"}
TypeOK ==
    /\ mounted \in BOOLEAN /\ shown \in Status \cup {"AUTH_HINT"}
    /\ current \in Recorders \cup {None}
    /\ rec \in [Recorders ->
         [status : Status, flow : {"new", "perm", "starting", "hinted", "over"}, record : BOOLEAN,
          abort : BOOLEAN, timer : BOOLEAN, mic : BOOLEAN, added : BOOLEAN,
          cancelled : Status \cup {"no"}]]

New == [status |-> "IDLE", flow |-> "new", record |-> FALSE, abort |-> FALSE, timer |-> FALSE,
        mic |-> FALSE, added |-> FALSE, cancelled |-> "no"]

Init ==
    /\ mounted = TRUE /\ shown = "IDLE" /\ current = None
    /\ rec = [r \in Recorders |-> New]

IsDesktopRecording == mounted /\ shown \in {"STARTING", "RECORDING", "STOPPING"}

-----------------------------------------------------------------------------
(* The recorder.  Its callback sets what the input shows, whoever is current. *)

Destroy(v) == [v EXCEPT !.record = FALSE, !.timer = FALSE, !.mic = @ /\ ~v.record]
Set(r, v) == rec' = [rec EXCEPT ![r] = v] /\ shown' = v.status
Quietly(r, v) == rec' = [rec EXCEPT ![r] = v] /\ UNCHANGED shown
Fail(v) == Destroy([v EXCEPT !.status = "FAILED", !.flow = "over"])

\* start, after queryMicPerm
Permitted(r) ==
    /\ rec[r].flow = "perm"
    /\ Set(r, [rec[r] EXCEPT !.status = "STARTING", !.flow = "starting", !.record = TRUE])
    /\ UNCHANGED <<mounted, current>>

\* The start takes long, perhaps as the browser asks the user: the input is told
\* so and shows it in place of the recording.
Starting(v) == v.flow \in {"starting", "hinted"}
Hint(r) ==
    /\ rec[r].flow = "starting"
    /\ rec' = [rec EXCEPT ![r].flow = "hinted"]
    /\ shown' = "AUTH_HINT"
    /\ UNCHANGED <<mounted, current>>

StartFails(r) ==
    /\ rec[r].flow = "perm" \/ Starting(rec[r])
    /\ Set(r, Fail(rec[r]))
    /\ UNCHANGED <<mounted, current>>

\* The microphone is there.
Started(r) ==
    /\ Starting(rec[r])
    /\ LET v == [rec[r] EXCEPT !.flow = "over", !.mic = TRUE]
       IN  Set(r, IF v.abort THEN Destroy([v EXCEPT !.status = "CANCELED"])
                  ELSE [v EXCEPT !.status = "RECORDING", !.timer = TRUE])
    /\ UNCHANGED <<mounted, current>>

Stopped(v) == IF v.status = "RECORDING" THEN [v EXCEPT !.status = "STOPPING", !.timer = FALSE] ELSE v

MaxDuration(r) ==
    /\ rec[r].timer
    /\ Set(r, Stopped([rec[r] EXCEPT !.timer = FALSE]))
    /\ UNCHANGED <<mounted, current>>

\* record-end: the recording is among the files to send.
RecordEnd(r) ==
    /\ rec[r].status = "STOPPING"
    /\ rec' = [rec EXCEPT ![r] = Destroy([@ EXCEPT !.status = "STOPPED", !.added = TRUE, !.mic = FALSE])]
    /\ shown' = "IDLE"
    /\ UNCHANGED <<mounted, current>>

\* cancel; in the start it is left for later.  And it is not.
NotLater(v) == v
AbortLater(v) == [v EXCEPT !.abort = TRUE]
Canceled(v) ==
    CASE v.status = "RECORDING" -> Destroy([v EXCEPT !.status = "CANCELED", !.mic = FALSE])
      [] v.status = "STARTING" -> AbortLater(v)
      [] OTHER -> Destroy(v)

-----------------------------------------------------------------------------
(* The chat input *)

\* onStartDesktopRecording
Start(r) ==
    /\ mounted /\ ~IsDesktopRecording
    /\ rec[r].flow = "new" /\ \A q \in 1..r - 1 : rec[q].flow # "new"
    /\ current' = r /\ shown' = "STARTING"
    /\ rec' = [rec EXCEPT ![r].flow = "perm"]
    /\ UNCHANGED mounted

\* onStopDesktopRecording
Stop ==
    /\ IsDesktopRecording /\ current # None /\ rec[current].status = "RECORDING"
    /\ Set(current, Stopped(rec[current]))
    /\ UNCHANGED <<mounted, current>>

\* onCancelDesktopRecording
Cancel ==
    /\ IsDesktopRecording /\ current # None
    /\ shown' = "IDLE"
    /\ rec' = [rec EXCEPT ![current] = [Canceled(@) EXCEPT !.cancelled = rec[current].status]]
    /\ UNCHANGED <<mounted, current>>

Unmount ==
    /\ mounted /\ mounted' = FALSE
    /\ current' = None
    /\ IF current = None THEN UNCHANGED <<rec, shown>> ELSE Quietly(current, Destroy(rec[current]))

Next ==
    \/ Stop \/ Cancel \/ Unmount
    \/ \E r \in Recorders :
         Start(r) \/ Permitted(r) \/ Hint(r) \/ StartFails(r) \/ Started(r) \/ MaxDuration(r) \/ RecordEnd(r)

Spec == Init /\ [][Next]_vars

-----------------------------------------------------------------------------
(* Properties *)

\* A recorder that starts, and was not cancelled in that, or has the microphone is
\* out of the user's sight only by the hint of a start that takes long, when the
\* input goes while it starts, or by a recorder that is not the current one any
\* more: that goes on with its start although the input is gone or has made
\* another, or its callback hides the one that is recording.
Hidden(r) ==
    /\ rec[r].mic \/ (Starting(rec[r]) /\ ~rec[r].abort)
    /\ ~(IsDesktopRecording /\ current = r)
HiddenOnlyByFormer ==
    \A r \in Recorders : (~Hidden(r) /\ Hidden(r)') =>
        \/ Hint(r) \/ (Unmount /\ Starting(rec[r]))
        \/ \E q \in Recorders : q # current /\ rec'[q] # rec[q]

\* A recording that was cancelled when it began or ran is not kept; only a cancel
\* before the permission is known or after the stop is lost.
CancelHolds ==
    \A r \in Recorders : rec'[r].added => rec'[r].cancelled \notin {"STARTING", "RECORDING"}

KeepsVoice == HiddenOnlyByFormer /\ CancelHolds
VoiceKept == [][KeepsVoice]_vars
=============================================================================
