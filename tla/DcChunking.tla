----------------------------- MODULE DcChunking -----------------------------
(***************************************************************************)
(* Messages on a data channel, cut into chunks and put together again:     *)
(* dc-chunking.js of the app (src/ui/src/utils/) and of the plugin         *)
(* (src/plugins/openclaw/src/utils/), and the send queue of                *)
(* src/ui/src/services/webrtc-connection.js.  The other direction is the   *)
(* same without the queue: the plugin hands all its chunks to the channel. *)
(*                                                                         *)
(* Message m is cut into Chunks[m] chunks; one of one chunk is sent as a   *)
(* string.  Its msgId is the number of messages cut before it.  That a     *)
(* string which the channel refuses is cut and sent again is left out.     *)
(***************************************************************************)
EXTENDS Naturals, Sequences, SequencesExt, FiniteSets

CONSTANTS
    Chunks,              \* the messages, as the numbers of their chunks
    HighWater,           \* DC_HIGH_WATER_MARK, in chunks
    LowWater,            \* DC_LOW_WATER_MARK
    MaxChunks            \* MAX_CHUNKS_PER_MSG; and MAX_REASSEMBLY_BYTES, as chunks

Messages == DOMAIN Chunks
None == 0

VARIABLES
    nextMsg,             \* the message that is sent next
    nextId,              \* __nextMsgId
    queue,               \* __sendQueue
    wire,                \* bufferedAmount, and what is on its way
    low,                 \* the bufferedamountlow event is due
    open,                \* the channel
    promise,             \* what the callers of send have
    pending,             \* the reassembler: msgId -> [of: message, n: chunks]
    delivered            \* what onComplete has been given

vars == <<nextMsg, nextId, queue, wire, low, open, promise, pending, delivered>>

\* A chunk or a string: its message, which of its chunks, its flag and msgId.
Frame == [of : Messages, i : Nat, flag : {"string", "begin", "middle", "end"}, id : Nat]

TypeOK ==
    /\ nextMsg \in 1..Len(Chunks) + 1 /\ nextId \in 1..Len(Chunks) + 1
    /\ queue \in Seq(Frame) /\ wire \in Seq(Frame)
    /\ low \in BOOLEAN /\ open \in BOOLEAN
    /\ promise \in [Messages -> {"none", "pending", "resolved", "rejected"}]
    /\ pending \in [Messages -> [of : Messages \cup {None}, n : Nat]]
    /\ delivered \in Seq(Messages)

Nothing == [of |-> None, n |-> 0]
Init ==
    /\ nextMsg = 1 /\ nextId = 1 /\ queue = <<>> /\ wire = <<>> /\ low = FALSE /\ open = TRUE
    /\ promise = [m \in Messages |-> "none"]
    /\ pending = [m \in Messages |-> Nothing] /\ delivered = <<>>

-----------------------------------------------------------------------------
(* The sender *)

\* buildChunks
FlagOf(m, i) ==
    IF Chunks[m] = 1 THEN "string"
    ELSE IF i = 1 THEN "begin" ELSE IF i = Chunks[m] THEN "end" ELSE "middle"
Frames(m) ==
    [i \in 1..Chunks[m] |-> [of |-> m, i |-> i, flag |-> FlagOf(m, i), id |-> nextId]]

\* __enqueueSend and __enqueueSendMulti: what the channel takes at once, when
\* nothing waits.  And if what waits is overtaken.
Overtake == HighWater - Len(wire)
Room == IF queue # <<>> \/ Len(wire) >= HighWater THEN 0 ELSE HighWater - Len(wire)

Taken(m) == IF Room < Chunks[m] THEN Room ELSE Chunks[m]

Call == /\ open /\ nextMsg \in Messages
        /\ nextMsg' = nextMsg + 1
        /\ nextId' = IF Chunks[nextMsg] > 1 THEN nextId + 1 ELSE nextId

Send ==
    LET m == nextMsg IN
    /\ Call
    /\ wire' = wire \o SubSeq(Frames(m), 1, Taken(m))
    /\ queue' = queue \o SubSeq(Frames(m), Taken(m) + 1, Chunks[m])
    /\ promise' = [promise EXCEPT ![m] = IF Taken(m) = Chunks[m] THEN "resolved" ELSE "pending"]
    /\ UNCHANGED <<low, open, pending, delivered>>

\* dc.send fails on one of the chunks it should take: the others stay sent.
SendThrows ==
    LET m == nextMsg IN
    /\ Call
    /\ \E i \in 0..Taken(m) - 1 : wire' = wire \o SubSeq(Frames(m), 1, i)
    /\ promise' = [promise EXCEPT ![m] = "rejected"]
    /\ UNCHANGED <<queue, low, open, pending, delivered>>

\* __drainSendQueue.  The promise of a message is its last chunk's.
LastOf(fs) == {fs[i].of : i \in {j \in DOMAIN fs : fs[j].i = Chunks[fs[j].of]}}
AnyOf(fs) == {fs[i].of : i \in DOMAIN fs}
Settled(ms, how) == [m \in Messages |-> IF m \in ms /\ promise[m] = "pending" THEN how ELSE promise[m]]

Drain ==
    /\ open /\ low /\ low' = FALSE
    /\ LET free == HighWater - Len(wire)
           n == IF free < Len(queue) THEN free ELSE Len(queue)
           fs == SubSeq(queue, 1, n)
       IN  /\ wire' = wire \o fs
           /\ queue' = SubSeq(queue, n + 1, Len(queue))
           /\ promise' = Settled(LastOf(fs), "resolved")
    /\ UNCHANGED <<nextMsg, nextId, open, pending, delivered>>

DrainThrows ==
    /\ open /\ low /\ low' = FALSE
    /\ \E i \in 0..Len(queue) - 1 :
         LET fs == SubSeq(queue, 1, i) IN
         /\ Len(wire) + i < HighWater
         /\ wire' = wire \o fs
         /\ promise' = [m \in Messages |->
              IF m \in LastOf(fs) THEN Settled({m}, "resolved")[m]
              ELSE Settled(AnyOf(queue), "rejected")[m]]
    /\ queue' = <<>>
    /\ UNCHANGED <<nextMsg, nextId, open, pending, delivered>>

-----------------------------------------------------------------------------
(* The receiver: feed *)

TooLong(n) == n >= MaxChunks

\* A chunk whose message has not begun, or was given up, is left out.
Feed(f) ==
    LET p == pending[f.id] IN
    CASE f.flag = "string" -> delivered' = Append(delivered, f.of) /\ UNCHANGED pending
      [] f.flag = "begin" ->
           pending' = [pending EXCEPT ![f.id] = [of |-> f.of, n |-> 1]] /\ UNCHANGED delivered
      [] OTHER ->
           /\ pending' = [pending EXCEPT ![f.id] =
                IF p = Nothing \/ TooLong(p.n) \/ f.flag = "end" THEN Nothing
                ELSE [p EXCEPT !.n = @ + 1]]
           /\ delivered' = IF p = Nothing \/ TooLong(p.n) \/ f.flag # "end" THEN delivered
                           ELSE Append(delivered, p.of)

\* The channel is a FIFO; when it falls to the low mark, the sender is told.
Receive ==
    /\ wire # <<>>
    /\ wire' = Tail(wire)
    /\ low' = (low \/ (open /\ Len(wire) = LowWater + 1))
    /\ Feed(Head(wire))
    /\ UNCHANGED <<nextMsg, nextId, queue, open, promise>>

\* onclose: what waits is rejected, and the reassembler is reset.
Close ==
    /\ open /\ open' = FALSE
    /\ wire' = <<>> /\ queue' = <<>> /\ low' = FALSE
    /\ promise' = Settled(AnyOf(queue), "rejected")
    /\ pending' = [m \in Messages |-> Nothing]
    /\ UNCHANGED <<nextMsg, nextId, delivered>>

Next == Send \/ SendThrows \/ Drain \/ DrainThrows \/ Receive \/ Close
Spec == Init /\ [][Next]_vars

-----------------------------------------------------------------------------
(* Properties *)

OnTheWay(m) == m \in AnyOf(queue) \cup AnyOf(wire)

\* Messages are delivered once and in the order in which they were sent; one
\* whose send was resolved is on its way or delivered as long as the channel is
\* open, unless it has more chunks than the receiver puts together; and what
\* waits is sent some time: the queue is empty, or the channel is above its low
\* mark or has just fallen to it.
DeliveredAsSent ==
    /\ TypeOK
    /\ \A i, j \in DOMAIN delivered : i < j => delivered[i] < delivered[j]
    /\ \A m \in Messages :
        (open /\ promise[m] = "resolved" /\ Chunks[m] <= MaxChunks /\ ~OnTheWay(m))
            => Contains(delivered, m)
    /\ (open /\ queue # <<>>) => low \/ Len(wire) > LowWater
=============================================================================
