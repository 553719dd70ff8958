----------------------------- MODULE TouchSpeak -----------------------------
(***************************************************************************)
(* Hold-to-speak on a touch screen: the overlay that records as long as a  *)
(* finger is down, src/ui/src/components/TouchSpeakOverlay.vue, which the  *)
(* chat input opens and closes (components/ChatInput.vue).                 *)
(*                                                                         *)
(* The recorder of the library keeps the microphone from the answer of     *)
(* startRecording to stopRecording or destroy, and tells of the end of a   *)
(* recording by an event.                                                  *)
(***************************************************************************)
EXTENDS Naturals

CONSTANT MaxFinger       \* bound: fingers

Fingers == 1..MaxFinger
NoFinger == 0
Places == {"out", "rim", "zone"}   \* outside the touch zone, on its rim, within

VARIABLES
    open,                \* the overlay is mounted
    flow,                \* startRecording: what it waits for
    finger,              \* touchId
    down,                \* the fingers on the screen
    place,               \* withinTouchZone and withinTouchPadding
    flags,               \* isRecording, isStopping, record # null, listening
    aborted,             \* the isAborted of the stopRecording under way
    timer,               \* recordingTimer is armed
    mic,                 \* the library has the microphone
    outcome              \* what was emitted: nothing, an abort or a recording

vars == <<open, flow, finger, down, place, flags, aborted, timer, mic, outcome>>

TypeOK ==
    /\ open \in BOOLEAN /\ flow \in {"idle", "perm", "starting"}
    /\ finger \in Fingers \cup {NoFinger} /\ down \subseteq Fingers
    /\ place \in Places
    /\ flags \in [recording : BOOLEAN, stopping : BOOLEAN, record : BOOLEAN, listening : BOOLEAN]
    /\ aborted \in BOOLEAN /\ timer \in BOOLEAN /\ mic \in BOOLEAN
    /\ outcome \in {"none", "aborted", "sent", "kept"}

Fresh == [recording |-> FALSE, stopping |-> FALSE, record |-> FALSE, listening |-> TRUE]

Init ==
    /\ open = FALSE /\ flow = "idle" /\ finger = NoFinger /\ down = {}
    /\ place = "zone" /\ flags = [Fresh EXCEPT !.listening = FALSE]
    /\ aborted = FALSE /\ timer = FALSE /\ mic = FALSE /\ outcome = "none"

-----------------------------------------------------------------------------
(* Opening and closing *)

\* onTouchSpeakStart: created and mounted.  Another overlay is opened only when
\* nothing of the last one is left.
Open(f) ==
    /\ ~open /\ flow = "idle" /\ ~timer /\ ~mic /\ f \notin down
    /\ open' = TRUE /\ flow' = "perm" /\ finger' = f /\ down' = down \cup {f}
    /\ place' = "zone" /\ flags' = Fresh /\ aborted' = FALSE /\ outcome' = "none"
    /\ UNCHANGED <<timer, mic>>

\* The input takes the overlay away when it has emitted, or with itself.  And
\* one that leaves the recorder to itself.
KeepRecord == UNCHANGED <<flags, mic>>
DropRecord ==
    /\ flags' = [flags EXCEPT !.record = FALSE, !.listening = FALSE]
    /\ mic' = (mic /\ ~flags.record)

Unmount ==
    /\ open /\ open' = FALSE
    /\ timer' = FALSE
    /\ DropRecord
    /\ UNCHANGED <<flow, finger, down, place, aborted, outcome>>

\* closeAborted; what is emitted by an overlay that is gone is not heard.
Emit(what) == outcome' = IF open /\ outcome = "none" THEN what ELSE outcome

-----------------------------------------------------------------------------
(* startRecording *)

\* queryMicPerm: denied, or no finger any more, or no container after unmount
Aborts ==
    /\ flow = "perm"
    /\ flow' = "idle" /\ Emit("aborted")
    /\ UNCHANGED <<open, finger, down, place, flags, aborted, timer, mic>>

Permitted ==
    /\ flow = "perm" /\ finger # NoFinger /\ open
    /\ flow' = "starting"
    /\ flags' = [flags EXCEPT !.record = TRUE]
    /\ UNCHANGED <<open, finger, down, place, aborted, timer, mic, outcome>>

\* stopRecording
Stop(isAborted) ==
    /\ timer' = FALSE
    /\ IF flags'.record
       THEN aborted' = isAborted /\ UNCHANGED outcome
       ELSE Emit("aborted") /\ UNCHANGED aborted
Stopping == [flags EXCEPT !.recording = TRUE, !.listening = FALSE, !.stopping = flags.record]

\* The microphone is there: it records, if there is a finger.
Started ==
    /\ flow = "starting"
    /\ flow' = "idle" /\ mic' = TRUE
    /\ IF finger = NoFinger THEN flags' = Stopping /\ Stop(TRUE)
       ELSE /\ flags' = [flags EXCEPT !.recording = TRUE]
            /\ timer' = TRUE /\ UNCHANGED <<aborted, outcome>>
    /\ UNCHANGED <<open, finger, down, place>>

StartFails ==
    /\ flow = "starting"
    /\ flow' = "idle"
    /\ flags' = [flags EXCEPT !.record = FALSE]
    /\ Emit("aborted")
    /\ UNCHANGED <<open, finger, down, place, aborted, timer, mic>>

\* onRecordTimeout, wherever the finger is
Timeout ==
    /\ timer
    /\ flags' = Stopping /\ Stop(FALSE)
    /\ UNCHANGED <<open, flow, finger, down, place, mic>>

\* record-end: the stream is stopped, and the recording may be too short.
RecordEnd ==
    /\ flags.stopping /\ flags.record
    /\ flags' = [flags EXCEPT !.stopping = FALSE]
    /\ mic' = FALSE
    /\ \/ Emit("aborted")
       \/ ~aborted /\ Emit(IF place # "rim" THEN "sent" ELSE "kept")
    /\ UNCHANGED <<open, flow, finger, down, place, aborted, timer>>

-----------------------------------------------------------------------------
(* Touches *)

\* A finger that is followed, if the overlay still has missed its end, gives way
\* to the new one.
Touch(f, p) ==
    /\ f \notin down /\ down' = down \cup {f}
    /\ IF flags.listening /\ finger \notin down /\ ~flags.stopping
       THEN finger' = f /\ place' = p
       ELSE UNCHANGED <<finger, place>>
    /\ UNCHANGED <<open, flow, flags, aborted, timer, mic, outcome>>

Move(p) ==
    /\ flags.listening /\ finger \in down /\ p # place
    /\ place' = p
    /\ UNCHANGED <<open, flow, finger, down, flags, aborted, timer, mic, outcome>>

\* onTouchEnd: outside the zone the recording is aborted.
OutOfZone(p) == p = "out"

Release(f, p) ==
    /\ f \in down /\ down' = down \ {f}
    /\ IF flags.listening /\ finger = f
       THEN /\ finger' = NoFinger /\ place' = p
            /\ IF flags.recording /\ ~flags.stopping
               THEN flags' = Stopping /\ Stop(OutOfZone(p))
               ELSE UNCHANGED <<flags, aborted, timer, outcome>>
       ELSE UNCHANGED <<finger, place, flags, aborted, timer, outcome>>
    /\ UNCHANGED <<open, flow, mic>>

\* The system takes the touch away (touchcancel): nobody listens.
Cancelled(f) ==
    /\ f \in down /\ down' = down \ {f}
    /\ UNCHANGED <<open, flow, finger, place, flags, aborted, timer, mic, outcome>>

Next ==
    \/ Unmount \/ Aborts \/ Permitted \/ Started \/ StartFails \/ Timeout \/ RecordEnd
    \/ \E p \in Places : Move(p)
    \/ \E f \in Fingers : Open(f) \/ Cancelled(f) \/ \E p \in Places : Touch(f, p) \/ Release(f, p)

Spec == Init /\ [][Next]_vars

-----------------------------------------------------------------------------
(* Properties *)

\* Nobody's finger outside the zone sends a recording: one that is emitted was
\* let go of inside it, or its time was up, when the place is not looked at.  And
\* an overlay that is gone has the microphone only if it went while the
\* recording was being started: nothing takes it away then.
SpeaksOrDrops ==
    /\ (outcome # "sent" /\ outcome' = "sent" /\ place = "out") => finger # NoFinger
    /\ (mic' /\ ~open' /\ ~(mic /\ ~open)) => Started
SpokenOrDropped == [][SpeaksOrDrops]_vars
=============================================================================
