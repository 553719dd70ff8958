------------------------------ MODULE Snowflake ------------------------------
(***************************************************************************)
(* The generator of the server's ids: src/server/src/utils/snowflake.js.   *)
(* An id is the tick of the logical clock and a sequence number in it; the *)
(* worker's number is always the same.  The machine's clock may be set     *)
(* back, and the server may be restarted, which forgets the logical clock. *)
(***************************************************************************)
EXTENDS Integers

CONSTANTS
    MaxTick,             \* bound: the machine's clock
    SeqSize,             \* sequence numbers of a tick
    RandSize,            \* seqRandomSize: where the sequence of a tick may start
    MaxDrift             \* maxDriftTicks

\* What the constructor makes of its options: seqRandomBits is at most seqBits.
ASSUME SnowflakeAssumption ==
    /\ MaxTick \in Nat /\ MaxDrift \in Nat
    /\ SeqSize \in Nat \ {0} /\ RandSize \in 1..SeqSize

None == -1
Ticks == 0..MaxTick

VARIABLES
    now,                 \* the machine's clock
    lastTick, nextSeq,
    issued               \* the greatest id that was given out, by any run of the server

vars == <<now, lastTick, nextSeq, issued>>

TypeOK ==
    /\ now \in Ticks
    /\ lastTick \in None..MaxTick + MaxDrift + 1 /\ nextSeq \in 0..SeqSize
    /\ issued \in [tick : None..MaxTick + MaxDrift, seq : 0..SeqSize - 1]

Init ==
    /\ now = 0 /\ lastTick = None /\ nextSeq = 0
    /\ issued = [tick |-> None, seq |-> 0]

\* The clock goes on, or is set back.
Clock == now' \in Ticks /\ UNCHANGED <<lastTick, nextSeq, issued>>

Restart ==
    /\ lastTick # None
    /\ lastTick' = None /\ nextSeq' = 0
    /\ UNCHANGED <<now, issued>>

Id(tick, seq) == [tick |-> tick, seq |-> seq]
Greater(a, b) == a.tick > b.tick \/ (a.tick = b.tick /\ a.seq > b.seq)

Issue(tick, seq) ==
    /\ lastTick' = tick /\ nextSeq' = seq + 1
    /\ issued' = IF Greater(Id(tick, seq), issued) THEN Id(tick, seq) ELSE issued
    /\ UNCHANGED now

\* The clock has passed the logical one, which follows.  And if it does whenever
\* they differ.
AnyOther == now # lastTick
Passed == now > lastTick

NewTick ==
    /\ Passed
    /\ \E seq \in 0..RandSize - 1 : Issue(now, seq)

\* Otherwise the sequence goes on, into the next tick if need be, but not too
\* far from the clock.
Borrow == nextSeq >= SeqSize
LogicalTick == IF Borrow THEN lastTick + 1 ELSE lastTick
Drifted == LogicalTick - now > MaxDrift

SameTick ==
    /\ ~Passed /\ ~Drifted
    /\ Issue(LogicalTick, IF Borrow THEN 0 ELSE nextSeq)

\* The error leaves the borrowed tick.
Throws ==
    /\ ~Passed /\ Drifted
    /\ lastTick' = LogicalTick
    /\ nextSeq' = IF Borrow THEN 0 ELSE nextSeq
    /\ UNCHANGED <<now, issued>>

NextId == NewTick \/ SameTick
Next == Clock \/ Restart \/ NextId \/ Throws
Spec == Init /\ [][Next]_vars

-----------------------------------------------------------------------------
(* Properties *)

\* However the clock is set, an id is greater than all that were given out
\* before, and its tick is not too far ahead of the clock.  Only a run that begins
\* when the clock has not passed the ids of an earlier run gives out ids that
\* are not, until it has overtaken them.
Behind == lastTick = None \/ Greater(issued, Id(lastTick, nextSeq - 1))
Increases ==
    NextId =>
        /\ \/ Greater(Id(lastTick', nextSeq' - 1), issued)
           \/ now <= issued.tick /\ Behind
        /\ lastTick' - now <= MaxDrift
IdsIncrease == [][Increases]_vars
=============================================================================
