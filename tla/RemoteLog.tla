----------------------------- MODULE RemoteLog ------------------------------
(***************************************************************************)
(* The diagnostic log that a tab and the plugin push to the server over    *)
(* the socket they have: src/ui/src/services/remote-log.js and             *)
(* src/plugins/openclaw/src/remote-log.js, which are alike.  The sender    *)
(* that is put in sends if its socket is open and says nothing if not.     *)
(***************************************************************************)
EXTENDS Naturals, Sequences, SequencesExt

CONSTANTS
    MaxBuffer,           \* MAX_BUFFER
    BatchSize,           \* BATCH_SIZE
    MaxLog,              \* bound: entries
    MaxSocket            \* bound: sockets

VARIABLES
    buffer,              \* the entries, by number
    logged,              \* entries so far
    sender,              \* the socket the sender sends to, or 0: no sender
    flushing,            \* a flush is suspended between two batches
    open,                \* the socket that is open, or 0
    sockets,             \* sockets so far
    wire,                \* what is on the way on it
    received             \* what the server has printed

vars == <<buffer, logged, sender, flushing, open, sockets, wire, received>>

TypeOK ==
    /\ Len(buffer) <= MaxBuffer /\ logged \in 0..MaxLog
    /\ sender \in 0..sockets /\ open \in 0..sockets /\ flushing \in BOOLEAN

Init ==
    /\ buffer = <<>> /\ logged = 0 /\ sender = 0 /\ flushing = FALSE
    /\ open = 0 /\ sockets = 0 /\ wire = <<>> /\ received = <<>>

-----------------------------------------------------------------------------
(* The buffer *)

\* log, when the buffer is full: the oldest one goes.
Pushed == IF Len(buffer) >= MaxBuffer THEN Append(Tail(buffer), logged + 1) ELSE Append(buffer, logged + 1)

Batch(q) == SubSeq(q, 1, IF Len(q) < BatchSize THEN Len(q) ELSE BatchSize)

\* __flush up to where it waits: one batch is handed to the sender and taken out.
\* And a flush that leaves it in.
TakenNever(q) == q
Taken(q) == SubSeq(q, Len(Batch(q)) + 1, Len(q))
Flush(q, to) ==
    IF q # <<>> /\ to # 0
    THEN /\ buffer' = Taken(q) /\ flushing' = TRUE
         /\ wire' = IF to = open THEN wire \o Batch(q) ELSE wire
    ELSE buffer' = q /\ flushing' = FALSE /\ UNCHANGED wire

Log ==
    /\ logged < MaxLog
    /\ logged' = logged + 1
    /\ IF sender # 0 /\ ~flushing THEN Flush(Pushed, sender)
       ELSE buffer' = Pushed /\ UNCHANGED <<flushing, wire>>
    /\ UNCHANGED <<sender, open, sockets, received>>

\* setTimeout(0) has passed.
GoOn == flushing /\ Flush(buffer, sender) /\ UNCHANGED <<logged, sender, open, sockets, received>>

\* setSender
SetSender(to) ==
    /\ sender' = to
    /\ IF to # 0 /\ buffer # <<>> /\ ~flushing THEN Flush(buffer, to)
       ELSE UNCHANGED <<buffer, flushing, wire>>
    /\ UNCHANGED <<logged, sockets, received>>

-----------------------------------------------------------------------------
(* The socket: it is open before the sender is put in, and closed before it is *)
(* taken out *)

Opened ==
    /\ sockets < MaxSocket /\ open = 0
    /\ open' = sockets + 1 /\ sockets' = sockets + 1
    /\ UNCHANGED <<buffer, logged, sender, flushing, wire, received>>

Connected == open # 0 /\ sender # open /\ SetSender(open) /\ UNCHANGED open

Closed ==
    /\ open # 0 /\ open' = 0 /\ wire' = <<>>
    /\ UNCHANGED <<buffer, logged, sender, flushing, sockets, received>>

Disconnected == sender # 0 /\ sender # open /\ SetSender(0) /\ UNCHANGED open

\* The server prints an entry.
Receive ==
    /\ wire # <<>>
    /\ received' = Append(received, Head(wire)) /\ wire' = Tail(wire)
    /\ UNCHANGED <<buffer, logged, sender, flushing, open, sockets>>

Next ==
    \/ Log \/ GoOn \/ Opened \/ Connected \/ Closed \/ Disconnected \/ Receive

Spec == Init /\ [][Next]_vars

-----------------------------------------------------------------------------
(* Properties *)

\* Entries come in the order in which they were logged, and none twice, over
\* however many sockets.
InOrder == LET all == received \o wire \o buffer IN \A i, j \in DOMAIN all : i < j => all[i] < all[j]

\* An entry does not wait for the next one to be logged: as long as there is a
\* sender, a flush is on.  With one socket that has never closed, only an
\* overflow of the buffer loses any.
NoneWaits == sender # 0 /\ buffer # <<>> => flushing
LostOnlyWithSocket ==
    sockets <= 1 /\ open = sockets /\ logged <= MaxBuffer => Len(received \o wire \o buffer) = logged

LogsInOrder == TypeOK /\ InOrder /\ NoneWaits /\ LostOnlyWithSocket
=============================================================================
