----------------------------- MODULE AppProofs -----------------------------
(***************************************************************************)
(* Proofs about the app's parts and the server's ids, for every bound:     *)
(*   - Snowflake: ids increase, for every width of the sequence, every     *)
(*     random start, every drift and however far the clock goes;           *)
(*   - SignalClient: the signalling connection that is wanted is on its    *)
(*     way, and no socket is let go of unclosed but by connect()'s timer;  *)
(*   - ChatRun: sending ends, the run is kept and its result is shown,     *)
(*     however many messages are sent;                                     *)
(*   - TouchSpeak, VoiceRecorder: the microphone is on, and a recording is *)
(*     kept, only as the user has last asked for;                          *)
(*   - FileUpload: a file is replaced by a whole upload or not at all;     *)
(*   - FileDownload, DcChunking, UiRelay, RemoteLog, FileTasks: what is    *)
(*     sent arrives whole, once and in order, and a queue goes on.         *)
(* Each part has an invariant of its own, named after it, that every step  *)
(* keeps; the last section puts the parts together.                        *)
(***************************************************************************)
EXTENDS MCApp, WellFoundedInduction, FiniteSetTheorems, SequenceTheorems, TLAPS

-----------------------------------------------------------------------------
(* Ids: the invariant *)

\* A tick that ids come from is within the drift of some clock: only an error
\* leaves the logical clock one tick further, and then with no id in it.
IInv ==
    /\ TypeOK
    /\ nextSeq > 0 => lastTick <= MaxTick + MaxDrift

\* The invariant holds at the start.
LEMMA InitEstablishes == ASSUME Init PROVE IInv
  BY SnowflakeAssumption DEF Init, IInv, TypeOK, Ticks, None

-----------------------------------------------------------------------------
(* Ids: every step preserves the invariant *)

\* nextId gives out an id of a tick: what NewTick and SameTick have in common.
LEMMA IssuePreserves ==
  ASSUME IInv, NEW tick \in 0..MaxTick + MaxDrift, NEW seq \in 0..SeqSize - 1,
         Issue(tick, seq)
  PROVE  IInv'
<1>1. lastTick' \in None..MaxTick + MaxDrift + 1 /\ nextSeq' \in 0..SeqSize /\ now' \in Ticks
  BY SnowflakeAssumption DEF Issue, IInv, TypeOK, None
<1>2. issued' \in [tick : None..MaxTick + MaxDrift, seq : 0..SeqSize - 1]
  <2>1. Id(tick, seq) \in [tick : None..MaxTick + MaxDrift, seq : 0..SeqSize - 1]
    BY SnowflakeAssumption DEF Id, None
  <2>. QED BY <2>1 DEF Issue, IInv, TypeOK
<1>3. lastTick' <= MaxTick + MaxDrift
  BY SnowflakeAssumption DEF Issue
<1>. QED BY <1>1, <1>2, <1>3 DEF IInv, TypeOK

\* nextId, when the clock has passed the logical one.
LEMMA NewTickPreserves == ASSUME IInv, NewTick PROVE IInv'
<1>1. PICK seq \in 0..RandSize - 1 : Issue(now, seq)
  BY DEF NewTick
<1>2. now \in 0..MaxTick + MaxDrift /\ seq \in 0..SeqSize - 1
  BY SnowflakeAssumption DEF IInv, TypeOK, Ticks
<1>. QED BY <1>1, <1>2, IssuePreserves

\* The logical clock is a tick, if it runs at all and not in advance.
LEMMA LogicalTickBounded ==
  ASSUME IInv, ~Passed
  PROVE  /\ lastTick \in 0..MaxTick + MaxDrift + 1
         /\ LogicalTick \in 0..MaxTick + MaxDrift + 1
         /\ ~Drifted => LogicalTick \in 0..MaxTick + MaxDrift
  BY SnowflakeAssumption DEF IInv, TypeOK, Ticks, None, Passed, LogicalTick, Borrow, Drifted

\* nextId, when it has not.
LEMMA SameTickPreserves == ASSUME IInv, SameTick PROVE IInv'
<1>1. LogicalTick \in 0..MaxTick + MaxDrift
  BY LogicalTickBounded DEF SameTick
<1>2. (IF Borrow THEN 0 ELSE nextSeq) \in 0..SeqSize - 1
  BY SnowflakeAssumption DEF Borrow, IInv, TypeOK
<1>. QED BY <1>1, <1>2, IssuePreserves DEF SameTick

\* nextId, when the drift is too great.
LEMMA ThrowsPreserves == ASSUME IInv, Throws PROVE IInv'
<1>1. LogicalTick \in 0..MaxTick + MaxDrift + 1
  BY LogicalTickBounded DEF Throws
<1>2. nextSeq' > 0 => lastTick' <= MaxTick + MaxDrift
  BY SnowflakeAssumption DEF Throws, LogicalTick, Borrow, IInv, TypeOK
<1>. QED BY <1>1, <1>2, SnowflakeAssumption DEF Throws, IInv, TypeOK, None, Borrow

\* Any step.
LEMMA NextPreserves == ASSUME IInv, [Next]_vars PROVE IInv'
<1>1. CASE Clock
  BY <1>1 DEF Clock, IInv, TypeOK
<1>2. CASE Restart
  BY <1>2, SnowflakeAssumption DEF Restart, IInv, TypeOK, None
<1>3. CASE NewTick
  BY <1>3, NewTickPreserves
<1>4. CASE SameTick
  BY <1>4, SameTickPreserves
<1>5. CASE Throws
  BY <1>5, ThrowsPreserves
<1>6. CASE UNCHANGED vars
  BY <1>6 DEF vars, IInv, TypeOK
<1>. QED BY <1>1, <1>2, <1>3, <1>4, <1>5, <1>6 DEF Next, NextId

-----------------------------------------------------------------------------
(* The theorems *)

\* The invariant holds always.
LEMMA Invariance == Spec => []IInv
<1>1. Init => IInv
  BY InitEstablishes
<1>2. IInv /\ [Next]_vars => IInv'
  BY NextPreserves
<1>. QED BY <1>1, <1>2, PTL DEF Spec

\* nextId: the logical clock and the sequence stay within their widths, and no
\* id lies further ahead than the drift allows.
THEOREM TypeCorrect == Spec => []TypeOK
<1>1. IInv => TypeOK
  BY DEF IInv
<1>. QED BY <1>1, Invariance, PTL

\* An id of a tick that the clock has just reached.
LEMMA NewTickIncreases == ASSUME IInv, NewTick PROVE Increases
<1>1. PICK seq \in 0..RandSize - 1 : Issue(now, seq)
  BY DEF NewTick
<1>2. /\ now \in Int /\ lastTick \in Int /\ nextSeq \in Nat
      /\ issued.tick \in Int /\ issued.seq \in Nat /\ seq \in Nat
  BY SnowflakeAssumption DEF IInv, TypeOK, Ticks, None
<1>3. lastTick' = now /\ nextSeq' - 1 = seq
  BY <1>1, <1>2 DEF Issue
<1>4. Greater(Id(now, seq), issued) \/ now <= issued.tick
  BY <1>2 DEF Greater, Id
<1>5. now <= issued.tick => Behind
  BY <1>2 DEF NewTick, Passed, Behind, Greater, Id
<1>. QED BY <1>2, <1>3, <1>4, <1>5, SnowflakeAssumption DEF Increases

\* An id of the tick the logical clock is at, or of the next one.
LEMMA SameTickIncreases == ASSUME IInv, SameTick PROVE Increases
<1>. DEFINE seq == IF Borrow THEN 0 ELSE nextSeq
<1>1. /\ now \in Nat /\ lastTick \in Nat /\ nextSeq \in Nat
      /\ issued.tick \in Int /\ issued.seq \in Nat
  BY LogicalTickBounded, SnowflakeAssumption DEF SameTick, IInv, TypeOK, Ticks, None
<1>2. LogicalTick \in Nat /\ seq \in Nat
  BY <1>1 DEF LogicalTick
<1>3. lastTick' = LogicalTick /\ nextSeq' - 1 = seq
  BY <1>2 DEF SameTick, Issue
<1>4. Greater(Id(LogicalTick, seq), Id(lastTick, nextSeq - 1))
  BY <1>1 DEF Greater, Id, LogicalTick
<1>5. CASE Behind
  <2>1. now <= issued.tick
    BY <1>1, <1>5 DEF SameTick, Passed, Behind, Greater, Id, None
  <2>. QED BY <1>1, <1>2, <1>3, <1>5, <2>1, SnowflakeAssumption DEF Increases, SameTick, Drifted
<1>6. CASE ~Behind
  <2>1. ~Greater(issued, Id(lastTick, nextSeq - 1))
    BY <1>6 DEF Behind
  <2>2. Greater(Id(LogicalTick, seq), issued)
    BY <1>1, <1>2, <1>4, <2>1 DEF Greater, Id
  <2>. QED BY <1>1, <1>2, <1>3, <2>2, SnowflakeAssumption DEF Increases, SameTick, Drifted
<1>. QED BY <1>5, <1>6

\* nextId: however the clock is set, an id is greater than all before it, but for
\* those of a server that was restarted before the clock had passed the ids of
\* the run before.
THEOREM Growth == Spec => IdsIncrease
<1>1. IInv /\ [Next]_vars => [Increases]_vars
  <2> SUFFICES ASSUME IInv, Next, NextId PROVE Increases
    BY DEF Increases
  <2>. QED BY NewTickIncreases, SameTickIncreases DEF NextId
<1>. QED BY <1>1, Invariance, PTL DEF Spec, IdsIncrease
-----------------------------------------------------------------------------
(* The signalling connection *)

\* OnItsWay without its CASE.
SockStates == {"none", "connecting", "open", "closing"}
Way ==
    ((x10 \/ x1 # Signal!None \/ x5) /\ ~x4) =>
        \/ x3 = "disconnected" /\ x5
        \/ x3 = "connecting" /\ x1 # Signal!None /\ x2[x1] \in {"connecting", "closing"}
        \/ x3 = "connected" /\ x1 # Signal!None /\ x6 # Signal!None

LEMMA WayIsOn == Signal!OnItsWay <=> (Signal!TypeOK /\ Way)
<1>1. ASSUME Signal!TypeOK
      PROVE  /\ x3 \in {"disconnected", "connecting", "connected"}
             /\ x5 \in BOOLEAN
  BY <1>1 DEF Signal!TypeOK
<1>2. CASE x3 = "disconnected"
  BY <1>1, <1>2 DEF Signal!OnItsWay, Signal!Begun, Way
<1>3. CASE x3 = "connecting"
  BY <1>1, <1>3 DEF Signal!OnItsWay, Signal!Begun, Way
<1>4. CASE x3 = "connected"
  BY <1>1, <1>4 DEF Signal!OnItsWay, Signal!Begun, Way
<1>. QED BY <1>1, <1>2, <1>3, <1>4 DEF Signal!OnItsWay

LEMMA WayIsOnNext == Signal!OnItsWay' <=> (Signal!TypeOK' /\ Way')
  BY WayIsOn, PTL

\* What DoConnect does of the state, be the socket made or not.
LEMMA DoConnectKeeps ==
  ASSUME Signal!TypeOK, NEW on \in SUBSET Waiters, NEW cur \in Signal!Socks \cup {Signal!None},
         NEW socks \in [Signal!Socks -> SockStates],
         NEW armed \in BOOLEAN, Signal!DoConnect(on, socks, cur, armed)
  PROVE  /\ x8' \in SUBSET Waiters /\ x1' \in Signal!Socks \cup {Signal!None}
         /\ x2' \in [Signal!Socks -> SockStates]
         /\ x3' \in {"connecting", "disconnected"} /\ x5' \in BOOLEAN
         /\ \/ /\ x3' = "connecting" /\ x1' \in Signal!Socks /\ x2'[x1'] = "connecting"
               /\ socks[x1'] = "none" /\ x5' = armed
               /\ \A s \in Signal!Socks \ {x1'} : x2'[s] = socks[s]
            \/ x3' = "disconnected" /\ x5' = TRUE /\ x1' = cur /\ x2' = socks
         /\ Way'
<1>1. x8' = on
  BY DEF Signal!DoConnect
<1>2. CASE x1' = cur /\ x2' = socks /\ x3' = "disconnected" /\ x5' = TRUE
  BY <1>1, <1>2 DEF Way
<1>3. CASE \E s \in Signal!Socks :
             /\ socks[s] = "none" /\ x1' = s /\ x2' = [socks EXCEPT ![s] = "connecting"]
             /\ x3' = "connecting" /\ x5' = armed
  <2>1. PICK s \in Signal!Socks :
             /\ socks[s] = "none" /\ x1' = s /\ x2' = [socks EXCEPT ![s] = "connecting"]
             /\ x3' = "connecting" /\ x5' = armed
    BY <1>3
  <2>2. x2'[s] = "connecting" /\ s # Signal!None
    BY <2>1 DEF Signal!Socks, Signal!None
  <2>3. Way'
    BY <2>1, <2>2 DEF Way
  <2>. QED BY <1>1, <2>1, <2>2, <2>3 DEF SockStates
<1>. QED BY <1>2, <1>3 DEF Signal!DoConnect

\* The sockets when the current one is given up.
LEMMA GivenUpType ==
  ASSUME Signal!TypeOK
  PROVE  /\ Signal!GivenUp \in [Signal!Socks -> SockStates]
         /\ \A s \in Signal!Socks : Signal!GivenUp[s] = IF s = x1 THEN "closing" ELSE x2[s]
  BY DEF Signal!GivenUp, Signal!TypeOK, Signal!None, Signal!Socks, SockStates

\* A connection attempt by a caller that has the reconnect timer cleared and the
\* current socket left as it is: nothing is lost that is not expected to be.
LEMMA AttemptLoses ==
  ASSUME Signal!TypeOK, Way, ~x4, x3 = "disconnected" \/ x5, NEW on \in SUBSET Waiters,
         Signal!DoConnect(on, x2, x1, FALSE)
  PROVE  Signal!LosesByConnect
<1>1. /\ x1 \in Signal!Socks \cup {Signal!None} /\ x2 \in [Signal!Socks -> SockStates]
      /\ x5 \in BOOLEAN /\ FALSE \in BOOLEAN
  BY DEF Signal!TypeOK, SockStates
<1>2. /\ x5' \in BOOLEAN
      /\ \/ /\ x3' = "connecting" /\ x1' \in Signal!Socks /\ x2'[x1'] = "connecting"
            /\ x2[x1'] = "none" /\ x5' = FALSE
            /\ \A s \in Signal!Socks \ {x1'} : x2'[s] = x2[s]
         \/ x3' = "disconnected" /\ x5' = TRUE /\ x1' = x1 /\ x2' = x2
  BY <1>1, DoConnectKeeps
<1>3. x1 # Signal!None => x5
  BY DEF Way
<1>4. ASSUME NEW s \in Signal!Socks, ~Signal!Lost(s), Signal!Lost(s)'
      PROVE  x5 /\ ~x5'
  <2>1. CASE x1' = x1 /\ x2' = x2
    BY <2>1, <1>4 DEF Signal!Lost
  <2>2. CASE /\ x1' \in Signal!Socks /\ x2[x1'] = "none" /\ x5' = FALSE
             /\ \A t \in Signal!Socks \ {x1'} : x2'[t] = x2[t]
    <3>1. s # x1' /\ x2'[s] = x2[s]
      BY <2>2, <1>4 DEF Signal!Lost
    <3>2. x1 = s /\ s # Signal!None
      BY <3>1, <1>4 DEF Signal!Lost, Signal!Socks, Signal!None
    <3>. QED BY <3>2, <2>2, <1>3
  <2>. QED BY <2>1, <2>2, <1>2
<1>5. ~(x5 /\ x1 # Signal!None) => ~(x5' /\ x1' # Signal!None)
  BY <1>2, <1>3
<1>. QED BY <1>4, <1>5 DEF Signal!LosesByConnect, Signal!None

\* The type of what DoConnect sets, with the rest.
LEMMA AttemptType ==
  ASSUME x8' \in SUBSET Waiters, x1' \in Signal!Socks \cup {Signal!None},
         x2' \in [Signal!Socks -> SockStates],
         x3' \in {"disconnected", "connecting", "connected"}, x5' \in BOOLEAN,
         x4' \in BOOLEAN, x10' \in BOOLEAN, x6' \in 0..2, x7' \in {"off", "asked", "answered"},
         x9' \in [id : 0..MaxConnId, last : 0..MaxConnId]
  PROVE  Signal!TypeOK'
  BY DEF Signal!TypeOK, SockStates

\* forceReconnect
LEMMA ForceKeeps ==
  ASSUME Signal!TypeOK, NEW on \in SUBSET Waiters, Signal!ForceReconnect(on)
  PROVE  Signal!TypeOK' /\ Way' /\ Signal!LosesByConnect
<1>1. /\ Signal!DoConnect(x8 \cup on, Signal!GivenUp, Signal!None, FALSE)
      /\ x7' = "off" /\ x6' = Signal!None /\ UNCHANGED <<x4, x9, x10>>
  BY DEF Signal!ForceReconnect
<1>2. x8 \cup on \in SUBSET Waiters
  BY DEF Signal!TypeOK
<1>3. /\ x8' \in SUBSET Waiters /\ x1' \in Signal!Socks \cup {Signal!None}
      /\ x2' \in [Signal!Socks -> SockStates]
      /\ x3' \in {"connecting", "disconnected"} /\ x5' \in BOOLEAN
      /\ \/ /\ x3' = "connecting" /\ x1' \in Signal!Socks /\ x2'[x1'] = "connecting"
            /\ Signal!GivenUp[x1'] = "none" /\ x5' = FALSE
            /\ \A s \in Signal!Socks \ {x1'} : x2'[s] = Signal!GivenUp[s]
         \/ x3' = "disconnected" /\ x5' = TRUE /\ x1' = Signal!None /\ x2' = Signal!GivenUp
      /\ Way'
  BY <1>1, <1>2, GivenUpType, DoConnectKeeps
<1>4. Signal!TypeOK'
  <2>1. /\ x4' \in BOOLEAN /\ x10' \in BOOLEAN /\ x6' \in 0..2 /\ x7' \in {"off", "asked", "answered"}
        /\ x9' \in [id : 0..MaxConnId, last : 0..MaxConnId]
    BY <1>1 DEF Signal!TypeOK, Signal!None
  <2>. QED BY <1>3, <2>1, AttemptType
<1>5. Signal!LosesByConnect
  BY <1>3, GivenUpType DEF Signal!LosesByConnect, Signal!Lost, Signal!TypeOK, Signal!None, Signal!Socks
<1>. QED BY <1>3, <1>4, <1>5

\* A connection attempt that leaves the heartbeat, the probe and the rest alone.
LEMMA AttemptKeeps ==
  ASSUME Signal!TypeOK, Way, ~x4, x3 = "disconnected" \/ x5, NEW on \in SUBSET Waiters,
         Signal!DoConnect(on, x2, x1, FALSE), UNCHANGED <<x4, x6, x7, x9, x10>>
  PROVE  Signal!TypeOK' /\ Way' /\ Signal!LosesByConnect
<1>1. /\ x1 \in Signal!Socks \cup {Signal!None} /\ x2 \in [Signal!Socks -> SockStates]
      /\ FALSE \in BOOLEAN
  BY DEF Signal!TypeOK, SockStates
<1>2. /\ x8' \in SUBSET Waiters /\ x1' \in Signal!Socks \cup {Signal!None}
      /\ x2' \in [Signal!Socks -> SockStates]
      /\ x3' \in {"connecting", "disconnected"} /\ x5' \in BOOLEAN /\ Way'
  BY <1>1, DoConnectKeeps
<1>3. /\ x4' \in BOOLEAN /\ x10' \in BOOLEAN /\ x6' \in 0..2 /\ x7' \in {"off", "asked", "answered"}
      /\ x9' \in [id : 0..MaxConnId, last : 0..MaxConnId]
  BY DEF Signal!TypeOK
<1>. QED BY <1>2, <1>3, AttemptType, AttemptLoses

\* connect
LEMMA ConnectKeeps ==
  ASSUME Signal!TypeOK, Way, Signal!Connect
  PROVE  Signal!TypeOK' /\ Way' /\ Signal!LosesByConnect
<1>1. /\ x1 = Signal!None /\ x4' = FALSE /\ x10' = TRUE /\ UNCHANGED <<x6, x7, x9>>
      /\ Signal!DoConnect(x8, x2, Signal!None, x5)
  BY DEF Signal!Connect
<1>2. /\ x8 \in SUBSET Waiters /\ x2 \in [Signal!Socks -> SockStates] /\ x5 \in BOOLEAN
  BY DEF Signal!TypeOK, SockStates
<1>3. /\ x8' \in SUBSET Waiters /\ x1' \in Signal!Socks \cup {Signal!None}
      /\ x2' \in [Signal!Socks -> SockStates]
      /\ x3' \in {"connecting", "disconnected"} /\ x5' \in BOOLEAN
      /\ \/ /\ x3' = "connecting" /\ x1' \in Signal!Socks /\ x2'[x1'] = "connecting"
            /\ x2[x1'] = "none" /\ x5' = x5
            /\ \A s \in Signal!Socks \ {x1'} : x2'[s] = x2[s]
         \/ x3' = "disconnected" /\ x5' = TRUE /\ x1' = Signal!None /\ x2' = x2
      /\ Way'
  BY <1>1, <1>2, DoConnectKeeps
<1>4. /\ x4' \in BOOLEAN /\ x10' \in BOOLEAN /\ x6' \in 0..2 /\ x7' \in {"off", "asked", "answered"}
      /\ x9' \in [id : 0..MaxConnId, last : 0..MaxConnId]
  BY <1>1 DEF Signal!TypeOK
<1>5. \A s \in Signal!Socks : Signal!Lost(s)' => Signal!Lost(s)
  <2> SUFFICES ASSUME NEW s \in Signal!Socks, Signal!Lost(s)' PROVE Signal!Lost(s)
    OBVIOUS
  <2>1. x2'[s] \in {"connecting", "open"} /\ x1' # s /\ x1 # s
    BY <1>1 DEF Signal!Lost, Signal!None, Signal!Socks
  <2>2. x2'[s] = x2[s]
    BY <2>1, <1>3
  <2>. QED BY <2>1, <2>2 DEF Signal!Lost
<1>6. (x5' /\ x1' # Signal!None) => x5
  BY <1>1, <1>3
<1>. QED BY <1>3, <1>4, <1>5, <1>6, AttemptType DEF Signal!LosesByConnect, Signal!None

\* What only moves the waiters, the connId or the timers.
LEMMA SameSockets ==
  ASSUME Signal!TypeOK, Way, UNCHANGED <<x1, x2, x3, x4, x5, x10>>,
         x6' \in 0..2, x6 # Signal!None => x6' # Signal!None, x7' \in {"off", "asked", "answered"},
         x8' \in SUBSET Waiters, x9' \in [id : 0..MaxConnId, last : 0..MaxConnId]
  PROVE  Signal!TypeOK' /\ Way' /\ Signal!LosesByConnect
<1>1. Signal!TypeOK'
  BY DEF Signal!TypeOK
<1>2. Way'
  BY DEF Way, Signal!None
<1>3. Signal!LosesByConnect
  BY DEF Signal!LosesByConnect, Signal!Lost, Signal!None
<1>. QED BY <1>1, <1>2, <1>3

\* The actions of the callers.
LEMMA CallsKeep ==
  ASSUME Signal!TypeOK, Way,
         \/ Signal!Disconnect \/ Signal!SendSignaling \/ Signal!ReleaseConnId
         \/ \E w \in Waiters : \/ Signal!EnsureVerified(w) \/ Signal!EnsureConnecting(w)
                               \/ Signal!EnsureDisconnected(w) \/ Signal!GivesUp(w)
  PROVE  Signal!TypeOK' /\ Way' /\ Signal!LosesByConnect
<1>1. CASE Signal!Disconnect
  <2>1. Signal!TypeOK'
    <3>1. /\ x1' \in Signal!Socks \cup {Signal!None} /\ x2' \in [Signal!Socks -> SockStates]
          /\ x3' \in {"disconnected", "connecting", "connected"}
          /\ x6' \in 0..2 /\ x7' \in {"off", "asked", "answered"}
      BY <1>1, GivenUpType DEF Signal!Disconnect, Signal!None
    <3>2. x8' \in SUBSET Waiters /\ x9' \in [id : 0..MaxConnId, last : 0..MaxConnId]
      BY <1>1 DEF Signal!Disconnect, Signal!TypeOK
    <3>3. x4' \in BOOLEAN /\ x5' \in BOOLEAN /\ x10' \in BOOLEAN
      BY <1>1 DEF Signal!Disconnect
    <3>. QED BY <3>1, <3>2, <3>3, AttemptType
  <2>2. Way'
    BY <1>1 DEF Signal!Disconnect, Way
  <2>3. \A s \in Signal!Socks : Signal!Lost(s)' => Signal!Lost(s)
    BY <1>1, GivenUpType DEF Signal!Disconnect, Signal!Lost
  <2>. QED BY <1>1, <2>1, <2>2, <2>3 DEF Signal!Disconnect, Signal!LosesByConnect
<1>2. CASE Signal!SendSignaling
  <2>1. x9.last \in 0..MaxConnId /\ x9.last + 1 \in 0..MaxConnId
    BY <1>2, BoundsAssumption DEF Signal!SendSignaling, Signal!TypeOK
  <2>. QED BY <1>2, <2>1, SameSockets DEF Signal!SendSignaling, Signal!TypeOK
<1>3. CASE Signal!ReleaseConnId
  <2>1. 0 \in 0..MaxConnId
    BY BoundsAssumption
  <2>. QED BY <1>3, <2>1, SameSockets DEF Signal!ReleaseConnId, Signal!TypeOK, Signal!None
<1>4. ASSUME NEW w \in Waiters, Signal!EnsureVerified(w)
      PROVE  Signal!TypeOK' /\ Way' /\ Signal!LosesByConnect
  <2>1. {w} \in SUBSET Waiters /\ Signal!ForceReconnect({w})
    BY <1>4 DEF Signal!EnsureVerified
  <2>. QED BY <2>1, ForceKeeps
<1>5. ASSUME NEW w \in Waiters, Signal!EnsureConnecting(w) \/ Signal!GivesUp(w)
      PROVE  Signal!TypeOK' /\ Way' /\ Signal!LosesByConnect
  BY <1>5, SameSockets DEF Signal!EnsureConnecting, Signal!GivesUp, Signal!TypeOK
<1>6. ASSUME NEW w \in Waiters, Signal!EnsureDisconnected(w)
      PROVE  Signal!TypeOK' /\ Way' /\ Signal!LosesByConnect
  <2>1. x8 \cup {w} \in SUBSET Waiters
    BY DEF Signal!TypeOK
  <2>2. /\ ~x4 /\ x3 = "disconnected" /\ Signal!DoConnect(x8 \cup {w}, x2, x1, FALSE)
        /\ UNCHANGED <<x4, x6, x7, x9, x10>>
    BY <1>6 DEF Signal!EnsureDisconnected
  <2>. QED BY <2>1, <2>2, AttemptKeeps
<1>. QED BY <1>1, <1>2, <1>3, <1>4, <1>5, <1>6

\* The events of a socket.
LEMMA EventsKeep ==
  ASSUME Signal!TypeOK, Way, NEW s \in Signal!Socks,
         \/ Signal!Open(s) \/ Signal!Drops(s) \/ Signal!CloseEvent(s)
         \/ \E c \in 0..x9.last : Signal!Message(s, c)
  PROVE  Signal!TypeOK' /\ Way' /\ Signal!LosesByConnect
<1>1. CASE Signal!Open(s)
  <2>1. Signal!TypeOK'
    BY <1>1 DEF Signal!Open, Signal!TypeOK
  <2>2. Way'
    <3>1. CASE x1 = s
      <4>1. x3' = "connected" /\ x6' = 1 /\ x1' = s /\ s # Signal!None
        BY <1>1, <3>1 DEF Signal!Open, Signal!Current, Signal!Socks, Signal!None
      <4>. QED BY <4>1 DEF Way, Signal!None
    <3>2. CASE x1 # s
      <4>1. UNCHANGED <<x1, x3, x4, x5, x6, x10>> /\ x2' = [x2 EXCEPT ![s] = "open"]
        BY <1>1, <3>2 DEF Signal!Open, Signal!Current
      <4>2. x1 # Signal!None => x2'[x1] = x2[x1]
        BY <3>2, <4>1 DEF Signal!TypeOK
      <4>. QED BY <4>1, <4>2 DEF Way, Signal!None
    <3>. QED BY <3>1, <3>2
  <2>3. \A t \in Signal!Socks : Signal!Lost(t)' => Signal!Lost(t)
    BY <1>1 DEF Signal!Open, Signal!Lost, Signal!TypeOK
  <2>. QED BY <1>1, <2>1, <2>2, <2>3 DEF Signal!Open, Signal!LosesByConnect, Signal!None
<1>2. CASE Signal!Drops(s)
  <2>1. Signal!TypeOK'
    BY <1>2 DEF Signal!Drops, Signal!TypeOK
  <2>2. Way'
    BY <1>2 DEF Signal!Drops, Way, Signal!TypeOK, Signal!None
  <2>3. \A t \in Signal!Socks : Signal!Lost(t)' => Signal!Lost(t)
    BY <1>2 DEF Signal!Drops, Signal!Lost, Signal!TypeOK
  <2>. QED BY <1>2, <2>1, <2>2, <2>3 DEF Signal!Drops, Signal!LosesByConnect, Signal!None
<1>3. CASE Signal!CloseEvent(s)
  <2>1. Signal!TypeOK'
    <3>1. /\ x1' \in Signal!Socks \cup {Signal!None} /\ x2' \in [Signal!Socks -> SockStates]
          /\ x3' \in {"disconnected", "connecting", "connected"}
          /\ x6' \in 0..2 /\ x7' \in {"off", "asked", "answered"}
      BY <1>3 DEF Signal!CloseEvent, Signal!TypeOK, Signal!None, SockStates
    <3>2. x8' \in SUBSET Waiters /\ x9' \in [id : 0..MaxConnId, last : 0..MaxConnId]
      BY <1>3 DEF Signal!CloseEvent, Signal!TypeOK
    <3>3. x4' \in BOOLEAN /\ x10' \in BOOLEAN /\ (x5' = x5 \/ x5' = TRUE)
      BY <1>3 DEF Signal!CloseEvent, Signal!TypeOK, Signal!Again
    <3>4. x5' \in BOOLEAN
      BY <3>3 DEF Signal!TypeOK
    <3>. QED BY <3>1, <3>2, <3>3, <3>4, AttemptType
  <2>2. Way'
    BY <1>3 DEF Signal!CloseEvent, Signal!Current, Signal!Again, Way, Signal!TypeOK, Signal!None
  <2>3. \A t \in Signal!Socks : Signal!Lost(t)' => Signal!Lost(t)
    BY <1>3 DEF Signal!CloseEvent, Signal!Current, Signal!Lost, Signal!TypeOK
  <2>. QED BY <1>3, <2>1, <2>2, <2>3 DEF Signal!CloseEvent, Signal!LosesByConnect, Signal!None
<1>4. ASSUME NEW c \in 0..x9.last, Signal!Message(s, c)
      PROVE  Signal!TypeOK' /\ Way' /\ Signal!LosesByConnect
  <2>1. x9' \in [id : 0..MaxConnId, last : 0..MaxConnId]
    <3>1. 0 \in 0..MaxConnId
      BY BoundsAssumption
    <3>. QED BY <1>4, <3>1 DEF Signal!Message, Signal!TypeOK, Signal!None
  <2>. QED BY <1>4, <2>1, SameSockets DEF Signal!Message, Signal!TypeOK, Signal!None
<1>. QED BY <1>1, <1>2, <1>3, <1>4

\* The timers, and the page that is in front again.
LEMMA TimersKeep ==
  ASSUME Signal!TypeOK, Way,
         \/ Signal!HbMiss \/ Signal!HbMaxMiss \/ Signal!ReconnectFires \/ Signal!ProbeFires
         \/ Signal!ResumeDisconnected \/ Signal!ResumeDead \/ Signal!ResumeProbes
  PROVE  Signal!TypeOK' /\ Way' /\ Signal!LosesByConnect
<1>0. {} \in SUBSET Waiters /\ x8 \in SUBSET Waiters
  BY DEF Signal!TypeOK
<1>1. CASE Signal!HbMiss
  BY <1>1, SameSockets DEF Signal!HbMiss, Signal!TypeOK, Signal!None
<1>2. CASE Signal!HbMaxMiss
  <2>1. Signal!TypeOK'
    <3>1. /\ x1' \in Signal!Socks \cup {Signal!None} /\ x2' \in [Signal!Socks -> SockStates]
          /\ x3' \in {"disconnected", "connecting", "connected"}
          /\ x6' \in 0..2 /\ x7' \in {"off", "asked", "answered"}
      BY <1>2, GivenUpType DEF Signal!HbMaxMiss, Signal!TypeOK, Signal!None
    <3>2. x8' \in SUBSET Waiters /\ x9' \in [id : 0..MaxConnId, last : 0..MaxConnId]
      BY <1>2 DEF Signal!HbMaxMiss, Signal!TypeOK
    <3>3. x4' \in BOOLEAN /\ x10' \in BOOLEAN /\ (x5' = x5 \/ x5' = TRUE)
      BY <1>2 DEF Signal!HbMaxMiss, Signal!TypeOK, Signal!Again
    <3>4. x5' \in BOOLEAN
      BY <3>3 DEF Signal!TypeOK
    <3>. QED BY <3>1, <3>2, <3>3, <3>4, AttemptType
  <2>2. Way'
    BY <1>2 DEF Signal!HbMaxMiss, Signal!Again, Way
  <2>3. \A t \in Signal!Socks : Signal!Lost(t)' => Signal!Lost(t)
    BY <1>2, GivenUpType DEF Signal!HbMaxMiss, Signal!Lost
  <2>. QED BY <1>2, <2>1, <2>2, <2>3 DEF Signal!HbMaxMiss, Signal!LosesByConnect, Signal!None
<1>3. CASE Signal!ReconnectFires
  <2>1. CASE x4
    <3>1. x5' = FALSE /\ UNCHANGED <<x1, x2, x3, x4, x6, x7, x8, x9, x10>>
      BY <1>3, <2>1 DEF Signal!ReconnectFires
    <3>2. Signal!TypeOK'
      BY <3>1 DEF Signal!TypeOK
    <3>3. Way'
      BY <3>1, <2>1 DEF Way
    <3>. QED BY <3>1, <3>2, <3>3 DEF Signal!LosesByConnect, Signal!Lost
  <2>2. CASE ~x4
    <3>1. x5 /\ Signal!DoConnect(x8, x2, x1, FALSE) /\ UNCHANGED <<x4, x6, x7, x9, x10>>
      BY <1>3, <2>2 DEF Signal!ReconnectFires
    <3>. QED BY <1>0, <2>2, <3>1, AttemptKeeps
  <2>. QED BY <2>1, <2>2
<1>4. CASE Signal!ProbeFires
  <2>1. CASE x7 = "answered" \/ x4
    BY <1>4, <2>1, SameSockets DEF Signal!ProbeFires, Signal!TypeOK
  <2>2. CASE ~(x7 = "answered" \/ x4)
    <3>1. Signal!ForceReconnect({})
      BY <1>4, <2>2 DEF Signal!ProbeFires
    <3>. QED BY <1>0, <3>1, ForceKeeps
  <2>. QED BY <2>1, <2>2
<1>5. CASE Signal!ResumeDisconnected
  <2>1. /\ ~x4 /\ x3 = "disconnected" /\ Signal!DoConnect(x8, x2, x1, FALSE)
        /\ UNCHANGED <<x4, x6, x7, x9, x10>>
    BY <1>5 DEF Signal!ResumeDisconnected
  <2>. QED BY <1>0, <2>1, AttemptKeeps
<1>6. CASE Signal!ResumeDead
  <2>1. Signal!ForceReconnect({})
    BY <1>6 DEF Signal!ResumeDead
  <2>. QED BY <1>0, <2>1, ForceKeeps
<1>7. CASE Signal!ResumeProbes
  <2>1. CASE x2[x1] = "open"
    BY <1>7, <2>1, SameSockets DEF Signal!ResumeProbes, Signal!TypeOK
  <2>2. CASE x2[x1] # "open"
    <3>1. Signal!ForceReconnect({})
      BY <1>7, <2>2 DEF Signal!ResumeProbes
    <3>. QED BY <1>0, <3>1, ForceKeeps
  <2>. QED BY <2>1, <2>2
<1>. QED BY <1>1, <1>2, <1>3, <1>4, <1>5, <1>6, <1>7

LEMMA SignalStep ==
  ASSUME Signal!OnItsWay, Signal!Next
  PROVE  Signal!OnItsWay' /\ Signal!LosesByConnect
<1>1. Signal!TypeOK /\ Way
  BY WayIsOn
<1>2. Signal!TypeOK' /\ Way' /\ Signal!LosesByConnect
  BY <1>1, ConnectKeeps, CallsKeep, EventsKeep, TimersKeep DEF Signal!Next
<1>. QED BY <1>2, WayIsOnNext

-----------------------------------------------------------------------------
(* A chat: what the stores do, as functions of the tab *)

\* What no function of a call that ends touches.
SameRest(t, u) ==
    /\ u.accepted = t.accepted /\ u.settled = t.settled /\ u.run = t.run
    /\ u.shown = t.shown /\ u.req = t.req

\* The silent load is as before, or has just been asked for.
SameOrNewLoad(t, u) ==
    u.load = t.load \/ (~t.load.on /\ u.load = [on |-> TRUE, from |-> Chat!Stored])

\* The helpers of one assignment each.
LEMMA QuietIs ==
  ASSUME NEW t \in Chat!Tab
  PROVE  /\ Chat!Quiet(t) \in Chat!Tab /\ SameRest(t, Chat!Quiet(t))
         /\ ~Chat!Quiet(t).sending /\ Chat!Quiet(t).retried = t.retried
         /\ Chat!Quiet(t).cancel = t.cancel /\ Chat!Quiet(t).local = t.local
         /\ Chat!Quiet(t).step = t.step /\ Chat!Quiet(t).timers = t.timers
         /\ Chat!Quiet(t).load = t.load
  BY DEF Chat!Quiet, Chat!Tab, SameRest

LEMMA NoLocalIs ==
  ASSUME NEW t \in Chat!Tab
  PROVE  /\ Chat!NoLocal(t) \in Chat!Tab /\ SameRest(t, Chat!NoLocal(t))
         /\ Chat!NoLocal(t).sending = t.sending /\ Chat!NoLocal(t).retried = t.retried
         /\ Chat!NoLocal(t).cancel = t.cancel /\ Chat!NoLocal(t).local = {}
         /\ Chat!NoLocal(t).step = t.step /\ Chat!NoLocal(t).timers = t.timers
         /\ Chat!NoLocal(t).load = t.load
  BY DEF Chat!NoLocal, Chat!Tab, SameRest

LEMMA ClearTimerIs ==
  ASSUME NEW t \in Chat!Tab
  PROVE  /\ Chat!ClearTimer(t) \in Chat!Tab /\ SameRest(t, Chat!ClearTimer(t))
         /\ Chat!ClearTimer(t).sending = t.sending /\ Chat!ClearTimer(t).retried = t.retried
         /\ Chat!ClearTimer(t).cancel = t.cancel /\ Chat!ClearTimer(t).local = t.local
         /\ Chat!ClearTimer(t).step = t.step /\ Chat!ClearTimer(t).load = t.load
  BY DEF Chat!ClearTimer, Chat!Tab, SameRest

LEMMA SettleRunIs ==
  ASSUME NEW t \in Chat!Tab
  PROVE  Chat!SettleRun(t) \in Chat!Tab /\ Chat!SettleRun(t) = [t EXCEPT !.run = Chat!NoRun]
  BY DEF Chat!SettleRun, Chat!Tab

LEMMA SilentLoadIs ==
  ASSUME NEW t \in Chat!Tab
  PROVE  /\ Chat!SilentLoad(t) \in Chat!Tab /\ SameRest(t, Chat!SilentLoad(t))
         /\ Chat!SilentLoad(t).sending = t.sending /\ Chat!SilentLoad(t).retried = t.retried
         /\ Chat!SilentLoad(t).cancel = t.cancel /\ Chat!SilentLoad(t).local = t.local
         /\ Chat!SilentLoad(t).step = t.step /\ Chat!SilentLoad(t).timers = t.timers
         /\ SameOrNewLoad(t, Chat!SilentLoad(t))
         /\ x5 => Chat!SilentLoad(t).load.on
<1>1. Chat!Stored \in SUBSET Chat!Sends
  BY DEF Chat!Stored
<1>2. [on |-> TRUE, from |-> Chat!Stored] \in [on : BOOLEAN, from : SUBSET Chat!Sends]
  BY <1>1
<1>. QED BY <1>2 DEF Chat!SilentLoad, Chat!StartLoad, Chat!Tab, SameRest, SameOrNewLoad

LEMMA ReturnIs ==
  ASSUME NEW t \in Chat!Tab, NEW s \in Chat!Sends
  PROVE  /\ Chat!Return(t, s) \in Chat!Tab /\ SameRest(t, Chat!Return(t, s))
         /\ Chat!Return(t, s).sending = t.sending
         /\ Chat!Return(t, s).cancel = t.cancel /\ Chat!Return(t, s).local = t.local
         /\ Chat!Return(t, s).timers = t.timers /\ Chat!Return(t, s).load = t.load
         /\ Chat!Return(t, s).step = [t.step EXCEPT ![s] = "done"]
  BY DEF Chat!Return, Chat!Tab, SameRest

\* The call of s is over, or waits for the connection; the chat sends no more,
\* if the timer of an earlier call has not freed it before.
CallEnds(t, u, s, code) ==
    /\ SameRest(t, u) /\ u.cancel = t.cancel /\ SameOrNewLoad(t, u)
    /\ \A q \in Chat!Sends \ {s} : u.step[q] = t.step[q]
    /\ u.step[s] \in {"done", "after", "rewait"}
    /\ ~u.sending \/ (t.settled /\ code = "channel" /\ u.sending = t.sending /\ u.timers = t.timers)
    /\ u.local = {} \/ (u.local = t.local /\ (t.accepted \/ (t.settled /\ code = "channel")))

LEMMA CatchEnds ==
  ASSUME NEW t \in Chat!Tab, NEW s \in Chat!Sends, NEW code
  PROVE  Chat!Catch(t, s, code) \in Chat!Tab /\ CallEnds(t, Chat!Catch(t, s, code), s, code)
<1>0. /\ t.step \in [Chat!Sends -> {"new", "upload", "stuck", "asked", "rewait", "after", "recon", "reused", "done"}]
      /\ Chat!Sends = DOMAIN t.step
  BY DEF Chat!Tab
\* Of a tab that is t but for its timers and what is local, and sends no more.
<1>1. ASSUME NEW u \in Chat!Tab, SameRest(t, u), ~u.sending, u.cancel = t.cancel,
             SameOrNewLoad(t, u), u.step = t.step,
             u.local = {} \/ (u.local = t.local /\ t.accepted)
      PROVE  Chat!Return(u, s) \in Chat!Tab /\ CallEnds(t, Chat!Return(u, s), s, code)
  <2>. DEFINE v == Chat!Return(u, s)
  <2>1. /\ v \in Chat!Tab /\ SameRest(u, v) /\ v.sending = u.sending /\ v.cancel = u.cancel
        /\ v.local = u.local /\ v.load = u.load /\ v.step = [t.step EXCEPT ![s] = "done"]
    BY <1>1, ReturnIs
  <2>. HIDE DEF v
  <2>2. v.step[s] = "done" /\ \A q \in Chat!Sends \ {s} : v.step[q] = t.step[q]
    BY <1>0, <2>1
  <2>3. SameRest(t, v) /\ SameOrNewLoad(t, v)
    BY <1>1, <2>1 DEF SameRest, SameOrNewLoad
  <2>4. v \in Chat!Tab /\ CallEnds(t, v, s, code)
    BY <1>1, <2>1, <2>2, <2>3 DEF CallEnds
  <2>. QED BY <2>4 DEF v
<1>2. ASSUME NEW u \in Chat!Tab, SameRest(t, u), ~u.sending, u.cancel = t.cancel,
             SameOrNewLoad(t, u), u.step = t.step, NEW next0 \in {"after", "rewait"},
             u.local = {} \/ (u.local = t.local /\ t.accepted)
      PROVE  [u EXCEPT !.step[s] = next0] \in Chat!Tab /\ CallEnds(t, [u EXCEPT !.step[s] = next0], s, code)
  <2>1. [u EXCEPT !.step[s] = next0] \in Chat!Tab
    BY <1>2 DEF Chat!Tab
  <2>2. /\ SameRest(u, [u EXCEPT !.step[s] = next0])
        /\ [u EXCEPT !.step[s] = next0].cancel = u.cancel
        /\ [u EXCEPT !.step[s] = next0].sending = u.sending
        /\ [u EXCEPT !.step[s] = next0].local = u.local
        /\ [u EXCEPT !.step[s] = next0].load = u.load
        /\ [u EXCEPT !.step[s] = next0].step = [u.step EXCEPT ![s] = next0]
    BY <1>2 DEF Chat!Tab, SameRest
  <2>. QED BY <1>0, <1>2, <2>1, <2>2 DEF SameRest, SameOrNewLoad, CallEnds
<1>3. ASSUME t.settled, code = "channel"
      PROVE  Chat!Return(t, s) \in Chat!Tab /\ CallEnds(t, Chat!Return(t, s), s, code)
  <2>. DEFINE v == Chat!Return(t, s)
  <2>1. /\ v \in Chat!Tab /\ SameRest(t, v) /\ v.sending = t.sending /\ v.cancel = t.cancel
        /\ v.local = t.local /\ v.load = t.load /\ v.step = [t.step EXCEPT ![s] = "done"]
        /\ v.timers = t.timers
    BY ReturnIs
  <2>. HIDE DEF v
  <2>2. v.step[s] = "done" /\ \A q \in Chat!Sends \ {s} : v.step[q] = t.step[q]
    BY <1>0, <2>1
  <2>3. v \in Chat!Tab /\ CallEnds(t, v, s, code)
    BY <1>3, <2>1, <2>2 DEF CallEnds, SameOrNewLoad
  <2>. QED BY <2>3 DEF v
<1>4. Chat!Return(Chat!Quiet(Chat!NoLocal(t)), s) \in Chat!Tab
      /\ CallEnds(t, Chat!Return(Chat!Quiet(Chat!NoLocal(t)), s), s, code)
  <2>. DEFINE u == Chat!Quiet(Chat!NoLocal(t))
  <2>1. /\ u \in Chat!Tab /\ SameRest(t, u) /\ ~u.sending /\ u.cancel = t.cancel
        /\ SameOrNewLoad(t, u) /\ u.step = t.step /\ u.local = {}
    BY NoLocalIs, QuietIs DEF SameRest, SameOrNewLoad
  <2>. HIDE DEF u
  <2>2. Chat!Return(u, s) \in Chat!Tab /\ CallEnds(t, Chat!Return(u, s), s, code)
    BY <2>1, <1>1
  <2>. QED BY <2>2 DEF u
<1>5. ASSUME t.accepted
      PROVE  /\ Chat!Return(Chat!Quiet(Chat!ClearTimer(t)), s) \in Chat!Tab
             /\ CallEnds(t, Chat!Return(Chat!Quiet(Chat!ClearTimer(t)), s), s, code)
             /\ [Chat!Quiet(Chat!ClearTimer(t)) EXCEPT !.step[s] = "after"] \in Chat!Tab
             /\ CallEnds(t, [Chat!Quiet(Chat!ClearTimer(t)) EXCEPT !.step[s] = "after"], s, code)
             /\ Chat!Return(Chat!SilentLoad(Chat!Quiet(Chat!ClearTimer(t))), s) \in Chat!Tab
             /\ CallEnds(t, Chat!Return(Chat!SilentLoad(Chat!Quiet(Chat!ClearTimer(t))), s), s, code)
  <2>. DEFINE u == Chat!Quiet(Chat!ClearTimer(t))
              v == Chat!SilentLoad(u)
  <2>1. /\ u \in Chat!Tab /\ SameRest(t, u) /\ ~u.sending /\ u.cancel = t.cancel
        /\ u.load = t.load /\ u.step = t.step /\ u.local = t.local
    BY ClearTimerIs, QuietIs DEF SameRest
  <2>. HIDE DEF u
  <2>2. /\ v \in Chat!Tab /\ SameRest(t, v) /\ ~v.sending /\ v.cancel = t.cancel
        /\ SameOrNewLoad(t, v) /\ v.step = t.step /\ v.local = t.local
    BY <2>1, SilentLoadIs DEF SameRest, SameOrNewLoad
  <2>. HIDE DEF v
  <2>3. SameOrNewLoad(t, u)
    BY <2>1 DEF SameOrNewLoad
  <2>4. Chat!Return(u, s) \in Chat!Tab /\ CallEnds(t, Chat!Return(u, s), s, code)
    BY <2>1, <2>3, <1>1, <1>5
  <2>5. [u EXCEPT !.step[s] = "after"] \in Chat!Tab /\ CallEnds(t, [u EXCEPT !.step[s] = "after"], s, code)
    BY <2>1, <2>3, <1>2, <1>5
  <2>6. Chat!Return(v, s) \in Chat!Tab /\ CallEnds(t, Chat!Return(v, s), s, code)
    BY <2>2, <1>1, <1>5
  <2>. QED BY <2>4, <2>5, <2>6 DEF u, v
<1>6. /\ Chat!Return(Chat!Quiet(Chat!CleanupStreaming(t)), s) \in Chat!Tab
      /\ CallEnds(t, Chat!Return(Chat!Quiet(Chat!CleanupStreaming(t)), s), s, code)
      /\ [Chat!Quiet(Chat!CleanupStreaming(t)) EXCEPT !.step[s] = "rewait"] \in Chat!Tab
      /\ CallEnds(t, [Chat!Quiet(Chat!CleanupStreaming(t)) EXCEPT !.step[s] = "rewait"], s, code)
  <2>. DEFINE u == Chat!Quiet(Chat!CleanupStreaming(t))
  <2>1. /\ u \in Chat!Tab /\ SameRest(t, u) /\ ~u.sending /\ u.cancel = t.cancel
        /\ SameOrNewLoad(t, u) /\ u.step = t.step /\ u.local = {}
    BY ClearTimerIs, NoLocalIs, QuietIs DEF SameRest, SameOrNewLoad, Chat!CleanupStreaming
  <2>. HIDE DEF u
  <2>2. Chat!Return(u, s) \in Chat!Tab /\ CallEnds(t, Chat!Return(u, s), s, code)
    BY <2>1, <1>1
  <2>3. [u EXCEPT !.step[s] = "rewait"] \in Chat!Tab /\ CallEnds(t, [u EXCEPT !.step[s] = "rewait"], s, code)
    BY <2>1, <1>2
  <2>. QED BY <2>2, <2>3 DEF u
<1>7. ASSUME ~t.accepted
      PROVE  /\ Chat!Return(Chat!Quiet(Chat!ClearTimer(Chat!NoLocal(t))), s) \in Chat!Tab
             /\ CallEnds(t, Chat!Return(Chat!Quiet(Chat!ClearTimer(Chat!NoLocal(t))), s), s, code)
  <2>. DEFINE u == Chat!Quiet(Chat!ClearTimer(Chat!NoLocal(t)))
  <2>1. /\ u \in Chat!Tab /\ SameRest(t, u) /\ ~u.sending /\ u.cancel = t.cancel
        /\ SameOrNewLoad(t, u) /\ u.step = t.step /\ u.local = {}
    BY ClearTimerIs, NoLocalIs, QuietIs DEF SameRest, SameOrNewLoad
  <2>. HIDE DEF u
  <2>2. Chat!Return(u, s) \in Chat!Tab /\ CallEnds(t, Chat!Return(u, s), s, code)
    BY <2>1, <1>1
  <2>. QED BY <2>2 DEF u
<1>. QED BY <1>3, <1>4, <1>5, <1>6, <1>7 DEF Chat!Catch, Chat!IsDisconnect

\* cancelReject ends the race that is on, if there is one.
LEMMA CancelRaceIs ==
  ASSUME NEW t \in Chat!Tab
  PROVE  LET r == Chat!CancelRace(t)
             on == t.cancel # Chat!None /\ t.step[t.cancel] = "asked"
         IN  /\ r \in Chat!Tab /\ SameRest(t, r) /\ r.cancel = Chat!None /\ SameOrNewLoad(t, r)
             /\ \A q \in Chat!Sends : (q # t.cancel \/ ~on) => r.step[q] = t.step[q]
             /\ on => r.step[t.cancel] \in {"done", "after", "rewait"}
             /\ ~t.sending => ~r.sending
             /\ r.local = {} \/ (r.local = t.local /\ (t.accepted \/ t.settled \/ ~on))
<1>. DEFINE r == Chat!CancelRace(t)
            on == t.cancel # Chat!None /\ t.step[t.cancel] = "asked"
<1>0. /\ t.cancel \in Chat!Sends \cup {Chat!None}
      /\ t.sending \in BOOLEAN
  BY DEF Chat!Tab
<1>1. CASE on
  <2>1. t.cancel \in Chat!Sends
    BY <1>0, <1>1
  <2>. DEFINE u == Chat!Catch(t, t.cancel, "cancelled")
  <2>2. u \in Chat!Tab /\ CallEnds(t, u, t.cancel, "cancelled")
    BY <2>1, CatchEnds
  <2>3. r = [u EXCEPT !.cancel = Chat!None]
    BY <1>1 DEF Chat!CancelRace
  <2>. HIDE DEF u, r
  <2>4. /\ r \in Chat!Tab /\ SameRest(u, r) /\ r.cancel = Chat!None /\ r.load = u.load
        /\ r.step = u.step /\ r.sending = u.sending /\ r.local = u.local
    BY <2>2, <2>3 DEF Chat!Tab, SameRest
  <2>5. SameRest(t, r) /\ SameOrNewLoad(t, r)
    BY <2>2, <2>4 DEF SameRest, SameOrNewLoad, CallEnds
  <2>6. /\ \A q \in Chat!Sends : q # t.cancel => r.step[q] = t.step[q]
        /\ r.step[t.cancel] \in {"done", "after", "rewait"}
        /\ ~t.sending => ~r.sending
        /\ r.local = {} \/ (r.local = t.local /\ (t.accepted \/ t.settled))
    BY <2>2, <2>4 DEF CallEnds
  <2>. QED BY <1>1, <2>4, <2>5, <2>6 DEF r
<1>2. CASE ~on
  <2>1. r = [t EXCEPT !.cancel = Chat!None]
    BY <1>2 DEF Chat!CancelRace
  <2>. HIDE DEF r
  <2>2. /\ r \in Chat!Tab /\ SameRest(t, r) /\ r.cancel = Chat!None /\ r.load = t.load
        /\ r.step = t.step /\ r.sending = t.sending /\ r.local = t.local
    BY <2>1 DEF Chat!Tab, SameRest
  <2>. QED BY <1>2, <2>2 DEF SameOrNewLoad, r
<1>. QED BY <1>1, <1>2

\* cancelUpload ends the call that uploads a file, if there is one.
LEMMA CancelUploadIs ==
  ASSUME NEW t \in Chat!Tab
  PROVE  LET r == Chat!CancelUpload(t)
         IN  \/ r = t /\ \A s \in Chat!Sends : t.step[s] # "upload"
             \/ r \in Chat!Tab /\ \E s \in Chat!Sends : t.step[s] = "upload" /\ CallEnds(t, r, s, "upload cancelled")
<1>1. CASE \E s \in Chat!Sends : t.step[s] = "upload"
  <2>. DEFINE s == CHOOSE s \in Chat!Sends : t.step[s] = "upload"
  <2>1. s \in Chat!Sends /\ t.step[s] = "upload"
    BY <1>1
  <2>2. Chat!CancelUpload(t) = Chat!Catch(t, s, "upload cancelled")
    BY <1>1 DEF Chat!CancelUpload
  <2>. HIDE DEF s
  <2>. QED BY <2>1, <2>2, CatchEnds
<1>2. CASE ~ \E s \in Chat!Sends : t.step[s] = "upload"
  BY <1>2 DEF Chat!CancelUpload
<1>. QED BY <1>1, <1>2

\* The request is handed over, and timed.
LEMMA AskIs ==
  ASSUME NEW t \in Chat!Tab, NEW s \in Chat!Sends
  PROVE  /\ Chat!Ask(t, s) \in Chat!Tab
         /\ Chat!Ask(t, s).sending = t.sending /\ Chat!Ask(t, s).accepted = t.accepted
         /\ Chat!Ask(t, s).settled = t.settled /\ Chat!Ask(t, s).run = t.run
         /\ Chat!Ask(t, s).shown = t.shown /\ Chat!Ask(t, s).load = t.load
         /\ Chat!Ask(t, s).local = t.local /\ Chat!Ask(t, s).cancel = s
         /\ Chat!Ask(t, s).step = [t.step EXCEPT ![s] = "asked"]
         /\ Chat!Ask(t, s).req[s] # "acked"
         /\ \A q \in Chat!Sends \ {s} : Chat!Ask(t, s).req[q] = t.req[q]
         /\ Chat!Ask(t, s).timers = t.timers \cup {[of |-> s, post |-> FALSE]}
<1>. DEFINE m == [of |-> s, post |-> FALSE]
            next0 == IF x5 THEN "pending" ELSE "closed"
            a == [t EXCEPT !.step[s] = "asked"]
            b == [a EXCEPT !.cancel = s]
            c == [b EXCEPT !.timers = @ \cup {m}]
            d == [c EXCEPT !.ref = m]
            e == [d EXCEPT !.req[s] = next0]
<1>1. m \in Chat!Timer
  BY DEF Chat!Timer
<1>2. next0 \in {"pending", "closed"}
  OBVIOUS
<1>3. e = Chat!Ask(t, s)
  BY DEF Chat!Ask
<1>. HIDE DEF m, next0
<1>4. a \in Chat!Tab /\ SameRest(t, a) /\ a.sending = t.sending /\ a.local = t.local
      /\ a.load = t.load /\ a.timers = t.timers /\ a.step = [t.step EXCEPT ![s] = "asked"]
  BY DEF Chat!Tab, SameRest
<1>. HIDE DEF a
<1>5. b \in Chat!Tab /\ SameRest(t, b) /\ b.sending = t.sending /\ b.local = t.local
      /\ b.load = t.load /\ b.timers = t.timers /\ b.step = [t.step EXCEPT ![s] = "asked"]
      /\ b.cancel = s
  BY <1>4 DEF Chat!Tab, SameRest
<1>. HIDE DEF b
<1>6. c \in Chat!Tab /\ SameRest(t, c) /\ c.sending = t.sending /\ c.local = t.local
      /\ c.load = t.load /\ c.timers = t.timers \cup {m} /\ c.step = [t.step EXCEPT ![s] = "asked"]
      /\ c.cancel = s
  BY <1>1, <1>5 DEF Chat!Tab, SameRest
<1>. HIDE DEF c
<1>7. d \in Chat!Tab /\ SameRest(t, d) /\ d.sending = t.sending /\ d.local = t.local
      /\ d.load = t.load /\ d.timers = t.timers \cup {m} /\ d.step = [t.step EXCEPT ![s] = "asked"]
      /\ d.cancel = s
  BY <1>1, <1>6 DEF Chat!Tab, SameRest
<1>. HIDE DEF d
<1>8. e \in Chat!Tab /\ e.sending = t.sending /\ e.local = t.local /\ e.accepted = t.accepted
      /\ e.settled = t.settled /\ e.run = t.run /\ e.shown = t.shown
      /\ e.load = t.load /\ e.timers = t.timers \cup {m} /\ e.step = [t.step EXCEPT ![s] = "asked"]
      /\ e.cancel = s /\ e.req = [t.req EXCEPT ![s] = next0]
  BY <1>2, <1>7 DEF Chat!Tab, SameRest
<1>9. e.req[s] # "acked" /\ \A q \in Chat!Sends \ {s} : e.req[q] = t.req[q]
  <2>1. t.req \in [Chat!Sends -> {"none", "pending", "acked", "lost", "closed"}]
    BY DEF Chat!Tab
  <2>. HIDE DEF e
  <2>. QED BY <1>2, <1>8, <2>1
<1>. HIDE DEF e
<1>. QED BY <1>3, <1>8, <1>9 DEF m

-----------------------------------------------------------------------------
(* A chat: the invariant *)

Calls(s) == x1.step[s] \in {"asked", "upload"}

\* The chat that is sending is ended by a timer: by that of 30 minutes if the
\* message was accepted, as only the other one is ever cleared with no successor.
Timed ==
    x1.sending =>
        IF x1.accepted THEN \E m \in x1.timers : m.post
        ELSE x1.timers # {} \/ \E s \in Chat!Sends : x1.step[s] \in {"upload", "stuck"}

\* What the tab was told, or a load has found, is what the agent has done.
HeardRight ==
    /\ \A s \in Chat!Sends : x3[s] <= x2[s]
    /\ x1.run.settling => x2[x1.run.of] = 2
    /\ x1.load.from \subseteq Chat!Stored
    /\ \A s \in Chat!Sends :
         x1.step[s] = "recon" => x2[s] = 2 /\ (x1.load.on => s \in x1.load.from)

\* Until the chat is crossed there is one call of sendMessage at a time, whose
\* is what is local, and nothing is when its message was accepted.
OneCall ==
    ~x7 =>
        /\ \A s, r \in Chat!Sends : Calls(s) /\ Calls(r) => s = r
        /\ \A s \in Chat!Sends : Calls(s) => x1.sending /\ ~x1.settled /\ x1.local \subseteq {s}
        /\ (\A s \in Chat!Sends : ~Calls(s)) => x1.local = {}
        /\ \A s \in Chat!Sends :
             x1.step[s] = "asked" => x1.cancel = s /\ (x1.req[s] = "acked" => x1.accepted)
        /\ x1.accepted => x1.local = {}

ChatInv == Chat!TypeOK /\ Timed /\ HeardRight /\ OneCall

\* What is said of a step; crossed follows it.
Steady == Chat!TypeOK' /\ Timed' /\ HeardRight' /\ OneCall' /\ Chat!KeepsRun
Marks == x7' = (x7 \/ Chat!Crosses)

Steps0 == {"new", "upload", "stuck", "asked", "rewait", "after", "recon", "reused", "done"}
LEMMA TabType ==
  ASSUME NEW t \in Chat!Tab
  PROVE  /\ t.sending \in BOOLEAN /\ t.accepted \in BOOLEAN /\ t.settled \in BOOLEAN
         /\ t.local \in SUBSET Chat!Sends /\ t.step \in [Chat!Sends -> Steps0]
         /\ t.req \in [Chat!Sends -> {"none", "pending", "acked", "lost", "closed"}]
         /\ t.run \in Chat!Run \cup {Chat!NoRun} /\ t.load \in [on : BOOLEAN, from : SUBSET Chat!Sends]
         /\ t.cancel \in Chat!Sends \cup {Chat!None} /\ t.shown \in SUBSET Chat!Sends
         /\ t.timers \in SUBSET Chat!Timer
  BY DEF Chat!Tab, Steps0

LEMMA SendsAre == Chat!Sends \subseteq Nat \ {Chat!None}
  BY BoundsAssumption DEF Chat!Sends, Chat!None

LEMMA InitChat == ASSUME Chat!Init PROVE ChatInv
<1>1. Chat!NoTimer \in Chat!Timer \cup {Chat!NoTimer} /\ Chat!NoRun \in Chat!Run \cup {Chat!NoRun}
      /\ Chat!Idle \in [on : BOOLEAN, from : SUBSET Chat!Sends]
  BY DEF Chat!Idle
<1>2. /\ x1 \in Chat!Tab
      /\ x1.sending = FALSE /\ x1.accepted = FALSE /\ x1.local = {} /\ x1.run = Chat!NoRun
      /\ x1.load = Chat!Idle /\ x1.step = [s \in Chat!Sends |-> "new"]
  BY <1>1 DEF Chat!Init, Chat!Tab
<1>3. Chat!TypeOK
  <2>1. /\ x2 = [s \in Chat!Sends |-> 0] /\ x3 = [s \in Chat!Sends |-> 0] /\ x4 = {}
        /\ x5 = TRUE /\ x6 = TRUE /\ x7 = FALSE
    BY DEF Chat!Init
  <2>2. x2 \in [Chat!Sends -> 0..2] /\ x3 \in [Chat!Sends -> 0..2] /\ x4 \subseteq Chat!Sends
    BY <2>1
  <2>3. x5 \in BOOLEAN /\ x6 \in BOOLEAN /\ x7 \in BOOLEAN
    BY <2>1
  <2>. QED BY <1>2, <2>2, <2>3 DEF Chat!TypeOK
<1>4. Timed
  BY <1>2 DEF Timed
<1>5. HeardRight
  BY <1>2 DEF HeardRight, Chat!Init, Chat!Idle, Chat!NoRun
<1>6. OneCall
  BY <1>2 DEF OneCall, Calls
<1>. QED BY <1>3, <1>4, <1>5, <1>6 DEF ChatInv

\* Most steps change the tab alone, and of what was heard only a load's start.
LEMMA TabStep ==
  ASSUME ChatInv, x1' \in Chat!Tab, x2' = x2, x3' = x3 \/ x3' = x2,
         x4' = x4 \/ x4' \in SUBSET Chat!Sends, x5' \in BOOLEAN, x6' \in BOOLEAN,
         x7' \in BOOLEAN,
         \/ x1'.run = Chat!NoRun
         \/ x1'.run.of = x1.run.of /\ x1'.run.settling = x1.run.settling,
         \/ x1'.load = x1.load \/ x1'.load = Chat!Idle
         \/ x1'.load = [on |-> TRUE, from |-> Chat!Stored],
         \A s \in Chat!Sends : x1'.step[s] = "recon" => x1.step[s] = "recon"
  PROVE  Chat!TypeOK' /\ HeardRight'
<1>1. Chat!TypeOK'
  BY DEF ChatInv, Chat!TypeOK
<1>2. Chat!Stored' = Chat!Stored
  BY DEF Chat!Stored
<1>3. x1'.run.settling => x2'[x1'.run.of] = 2
  <2>1. CASE x1'.run = Chat!NoRun
    BY <2>1 DEF Chat!NoRun
  <2>2. CASE x1'.run.of = x1.run.of /\ x1'.run.settling = x1.run.settling
    BY <2>2 DEF ChatInv, HeardRight
  <2>. QED BY <2>1, <2>2
<1>4. x1'.load.from \subseteq Chat!Stored
  BY DEF ChatInv, HeardRight, Chat!Idle
<1>5. ASSUME NEW s \in Chat!Sends, x1'.step[s] = "recon"
      PROVE  x2'[s] = 2 /\ (x1'.load.on => s \in x1'.load.from)
  <2>1. x2[s] = 2 /\ (x1.load.on => s \in x1.load.from) /\ s \in Chat!Stored
    BY <1>5 DEF ChatInv, HeardRight, Chat!Stored
  <2>2. CASE x1'.load = x1.load
    BY <2>1, <2>2
  <2>3. CASE x1'.load = Chat!Idle
    BY <2>1, <2>3 DEF Chat!Idle
  <2>4. CASE x1'.load = [on |-> TRUE, from |-> Chat!Stored]
    BY <2>1, <2>4
  <2>. QED BY <2>2, <2>3, <2>4
<1>6. \A s \in Chat!Sends : x3'[s] <= x2'[s]
  BY DEF ChatInv, HeardRight, Chat!TypeOK
<1>. QED BY <1>1, <1>2, <1>3, <1>4, <1>5, <1>6 DEF HeardRight

LEMMA MarksType == ASSUME ChatInv, Marks PROVE x7' \in BOOLEAN
  BY DEF ChatInv, Chat!TypeOK, Marks

\* A run that stays, or is let go of as it may be.
LEMMA RunStays == ASSUME x1'.run.of = x1.run.of PROVE Chat!KeepsRun
  BY DEF Chat!KeepsRun, Chat!LetGo

\* No call is left.
LEMMA NoCall ==
  ASSUME \A q \in Chat!Sends : ~Calls(q)', x1'.local = {}
  PROVE  OneCall'
  BY DEF OneCall, Calls

\* The calls are left as they are.
LEMMA SameCalls ==
  ASSUME OneCall, Marks, x1'.sending = x1.sending, x1'.settled = x1.settled,
         x1'.local = x1.local, x1'.cancel = x1.cancel, x1'.accepted = x1.accepted,
         \A s \in Chat!Sends : \/ x1'.step[s] = x1.step[s] 
                               \/ ~Calls(s) /\ ~Calls(s)',
         \A s \in Chat!Sends : x1'.req[s] = "acked" => x1.req[s] = "acked"
  PROVE  OneCall'
<1> SUFFICES ASSUME ~x7' PROVE OneCall'
  BY DEF OneCall
<1>1. ~x7
  BY DEF Marks
<1>2. \A s \in Chat!Sends : Calls(s)' <=> Calls(s)
  BY DEF Calls
<1>3. \A s \in Chat!Sends : x1'.step[s] = "asked" => x1.step[s] = "asked"
  BY DEF Calls
<1>. QED BY <1>1, <1>2, <1>3 DEF OneCall

\* The call of s is over: it was the only one.
LEMMA CallOver ==
  ASSUME OneCall, ~x7, NEW s \in Chat!Sends, Calls(s), ~Calls(s)',
         \A q \in Chat!Sends \ {s} : x1'.step[q] = x1.step[q],
         x1'.local = {} \/ (x1'.local = x1.local /\ (x1.accepted \/ x1.settled))
  PROVE  OneCall'
<1>1. \A q \in Chat!Sends : ~Calls(q)'
  BY DEF OneCall, Calls
<1>2. x1'.local = {}
  BY DEF OneCall
<1>. QED BY <1>1, <1>2, NoCall

\* The chat is freed while no call ends: it is crossed, or there is no call.
LEMMA Freed ==
  ASSUME ChatInv, Marks, x1'.sending = FALSE,
         x1'.local = {} \/ x1'.local = x1.local,
         \A s \in Chat!Sends : \/ x1'.step[s] = x1.step[s] 
                               \/ ~Calls(s) /\ ~Calls(s)'
  PROVE  OneCall'
<1> SUFFICES ASSUME ~x7' PROVE OneCall'
  BY DEF OneCall
<1>1. ~x7 /\ ~Chat!Crosses
  BY DEF Marks
<1>2. \A s \in Chat!Sends : Calls(s)' <=> Calls(s)
  BY DEF Calls
<1>3. \A s \in Chat!Sends : ~Calls(s)
  <2> SUFFICES ASSUME NEW s \in Chat!Sends, Calls(s) PROVE FALSE
    OBVIOUS
  <2>1. x1.sending
    BY <1>1 DEF ChatInv, OneCall
  <2>2. Chat!Crosses
    BY <1>2, <2>1 DEF Chat!Crosses, Chat!Busy, Calls
  <2>. QED BY <1>1, <2>2
<1>4. x1'.local = {}
  BY <1>1, <1>3 DEF ChatInv, OneCall
<1>. QED BY <1>2, <1>3, <1>4, NoCall

-----------------------------------------------------------------------------
(* A chat: the user's steps *)

LEMMA BeginIs ==
  ASSUME NEW t \in Chat!Tab, NEW s \in Chat!Sends
  PROVE  LET u == [Chat!Begin(t) EXCEPT !.local = @ \cup {s}]
         IN  /\ Chat!Begin(t) \in Chat!Tab /\ u \in Chat!Tab
             /\ u.sending = TRUE /\ u.settled = FALSE /\ u.accepted = FALSE
             /\ u.local = t.local \cup {s} /\ u.step = t.step /\ u.cancel = t.cancel
             /\ u.run = t.run /\ u.shown = t.shown /\ u.load = t.load /\ u.req = t.req
             /\ u.timers = t.timers
<1>. DEFINE b == Chat!Begin(t)
            u == [b EXCEPT !.local = @ \cup {s}]
<1>1. /\ b \in Chat!Tab /\ b.sending = TRUE /\ b.settled = FALSE /\ b.accepted = FALSE
      /\ b.local = t.local /\ b.step = t.step /\ b.cancel = t.cancel
      /\ b.run = t.run /\ b.shown = t.shown /\ b.load = t.load /\ b.req = t.req
      /\ b.timers = t.timers
  BY DEF Chat!Begin, Chat!Tab
<1>. HIDE DEF b
<1>2. /\ u \in Chat!Tab /\ u.sending = TRUE /\ u.settled = FALSE /\ u.accepted = FALSE
      /\ u.local = t.local \cup {s} /\ u.step = t.step /\ u.cancel = t.cancel
      /\ u.run = t.run /\ u.shown = t.shown /\ u.load = t.load /\ u.req = t.req
      /\ u.timers = t.timers
  BY <1>1 DEF Chat!Tab
<1>. QED BY <1>1, <1>2 DEF b

\* A message is handed over by a chat that was not sending, by a new call or by
\* the retry of one that has waited for the connection.
LEMMA StartKeeps ==
  ASSUME ChatInv, Marks, NEW s \in Chat!Sends, ~x1.sending, x1.step[s] \in {"new", "rewait"},
         NEW t \in Chat!Tab, t = [Chat!Begin(x1) EXCEPT !.local = @ \cup {s}] \/
                             t = [Chat!Begin(x1) EXCEPT !.local = @ \cup {s}, !.retried = s],
         x1' = Chat!Ask(t, s), Chat!Handed(s), UNCHANGED <<x2, x5, x6>>
  PROVE  Steady
<1>1. x1 \in Chat!Tab
  BY DEF ChatInv, Chat!TypeOK
<1>2. /\ t.sending = TRUE /\ t.settled = FALSE /\ t.accepted = FALSE
      /\ t.local = x1.local \cup {s} /\ t.step = x1.step /\ t.run = x1.run
      /\ t.load = x1.load /\ t.req = x1.req /\ t.timers = x1.timers
  <2>. DEFINE u == [Chat!Begin(x1) EXCEPT !.local = @ \cup {s}]
  <2>1. /\ u \in Chat!Tab /\ u.sending = TRUE /\ u.settled = FALSE /\ u.accepted = FALSE
        /\ u.local = x1.local \cup {s} /\ u.step = x1.step /\ u.run = x1.run
        /\ u.load = x1.load /\ u.req = x1.req /\ u.timers = x1.timers
    BY <1>1, BeginIs
  <2>2. t = u \/ t = [u EXCEPT !.retried = s]
    OBVIOUS
  <2>. HIDE DEF u
  <2>. QED BY <2>1, <2>2 DEF Chat!Tab
<1>3. /\ x1' \in Chat!Tab /\ x1'.sending = TRUE /\ x1'.settled = FALSE /\ x1'.accepted = FALSE
      /\ x1'.local = x1.local \cup {s} /\ x1'.step = [x1.step EXCEPT ![s] = "asked"]
      /\ x1'.run = x1.run /\ x1'.load = x1.load /\ x1'.cancel = s /\ x1'.req[s] # "acked"
      /\ x1'.timers = x1.timers \cup {[of |-> s, post |-> FALSE]}
  BY <1>2, AskIs
<1>4. x1.step \in [Chat!Sends -> Steps0]
  BY <1>1, TabType
<1>5. Chat!TypeOK'
  <2>1. x7' \in BOOLEAN
    BY MarksType
  <2>2. x3' \in [Chat!Sends -> 0..2] /\ x4' \subseteq Chat!Sends
    BY DEF Chat!Handed, ChatInv, Chat!TypeOK
  <2>. QED BY <1>3, <2>1, <2>2 DEF ChatInv, Chat!TypeOK
<1>6. Timed'
  BY <1>3 DEF Timed
<1>7. HeardRight'
  <2>1. \A q \in Chat!Sends : x3'[q] <= x2'[q]
    BY DEF Chat!Handed, ChatInv, HeardRight, Chat!TypeOK
  <2>2. Chat!Stored' = Chat!Stored
    BY DEF Chat!Stored
  <2>3. \A q \in Chat!Sends : x1'.step[q] = "recon" => x1.step[q] = "recon"
    BY <1>3, <1>4
  <2>. QED BY <1>3, <2>1, <2>2, <2>3 DEF ChatInv, HeardRight
<1>8. OneCall'
  <2> SUFFICES ASSUME ~x7' PROVE OneCall'
    BY DEF OneCall
  <2>1. ~x7
    BY DEF Marks
  <2>2. \A q \in Chat!Sends : ~Calls(q)
    BY <2>1 DEF ChatInv, OneCall
  <2>3. x1.local = {}
    BY <2>1, <2>2 DEF ChatInv, OneCall
  <2>4. \A q \in Chat!Sends : Calls(q)' <=> q = s
    BY <1>3, <1>4, <2>2 DEF Calls
  <2>5. \A q \in Chat!Sends : x1'.step[q] = "asked" => q = s
    BY <2>4 DEF Calls
  <2>6. x1'.local = {s}
    BY <1>3, <2>3
  <2>. QED BY <1>3, <2>4, <2>5, <2>6 DEF OneCall
<1>9. Chat!KeepsRun
  BY <1>3, RunStays
<1>. QED BY <1>5, <1>6, <1>7, <1>8, <1>9 DEF Steady

LEMMA SendKeeps ==
  ASSUME ChatInv, Marks, NEW s \in Chat!Sends, Chat!Send(s)
  PROVE  Steady
<1>. DEFINE t == [Chat!Begin(x1) EXCEPT !.local = @ \cup {s}]
<1>1. x1 \in Chat!Tab
  BY DEF ChatInv, Chat!TypeOK
<1>2. t \in Chat!Tab
  BY <1>1, BeginIs
<1>3. /\ ~x1.sending /\ x1.step[s] = "new" /\ x1' = Chat!Ask(t, s)
      /\ Chat!Handed(s) /\ UNCHANGED <<x2, x5, x6>>
  BY DEF Chat!Send, Chat!MaySend
<1>4. t = [Chat!Begin(x1) EXCEPT !.local = @ \cup {s}]
  OBVIOUS
<1>. HIDE DEF t
<1>. QED BY <1>2, <1>3, <1>4, StartKeeps

LEMMA SendFilesKeeps ==
  ASSUME ChatInv, Marks, NEW s \in Chat!Sends, Chat!SendFiles(s)
  PROVE  Steady
<1>. DEFINE t == [Chat!Begin(x1) EXCEPT !.local = @ \cup {s}]
<1>1. x1 \in Chat!Tab /\ x1.step \in [Chat!Sends -> Steps0]
  BY TabType DEF ChatInv, Chat!TypeOK
<1>2. /\ t \in Chat!Tab /\ t.sending = TRUE /\ t.settled = FALSE /\ t.accepted = FALSE
      /\ t.local = x1.local \cup {s} /\ t.step = x1.step /\ t.run = x1.run
      /\ t.load = x1.load /\ t.req = x1.req /\ t.timers = x1.timers
  BY <1>1, BeginIs
<1>3. /\ ~x1.sending /\ x1.step[s] = "new" /\ x1' = [t EXCEPT !.step[s] = "upload"]
      /\ UNCHANGED <<x2, x3, x4, x5, x6>>
  BY DEF Chat!SendFiles, Chat!MaySend, Chat!Others
<1>. HIDE DEF t
<1>4. /\ x1' \in Chat!Tab /\ x1'.sending = TRUE /\ x1'.settled = FALSE /\ x1'.accepted = FALSE
      /\ x1'.local = x1.local \cup {s} /\ x1'.step = [x1.step EXCEPT ![s] = "upload"]
      /\ x1'.run = x1.run /\ x1'.load = x1.load
  BY <1>2, <1>3 DEF Chat!Tab
<1>5. Chat!TypeOK' /\ HeardRight'
  <2>1. \A q \in Chat!Sends : x1'.step[q] = "recon" => x1.step[q] = "recon"
    BY <1>1, <1>4
  <2>2. x5' \in BOOLEAN /\ x6' \in BOOLEAN /\ x7' \in BOOLEAN
    BY <1>3, MarksType DEF ChatInv, Chat!TypeOK
  <2>. QED BY <1>3, <1>4, <2>1, <2>2, TabStep
<1>6. Timed'
  <2>1. x1'.step[s] = "upload"
    BY <1>1, <1>4
  <2>. QED BY <1>4, <2>1 DEF Timed
<1>8. OneCall'
  <2> SUFFICES ASSUME ~x7' PROVE OneCall'
    BY DEF OneCall
  <2>1. ~x7
    BY DEF Marks
  <2>2. \A q \in Chat!Sends : ~Calls(q)
    BY <1>3, <2>1 DEF ChatInv, OneCall
  <2>3. x1.local = {}
    BY <2>1, <2>2 DEF ChatInv, OneCall
  <2>4. \A q \in Chat!Sends : /\ Calls(q)' <=> q = s
                              /\ x1'.step[q] # "asked"
    BY <1>1, <1>4, <2>2 DEF Calls
  <2>6. x1'.local = {s}
    BY <1>4, <2>3
  <2>. QED BY <1>4, <2>4, <2>6 DEF OneCall
<1>9. Chat!KeepsRun
  BY <1>4, RunStays
<1>. QED BY <1>5, <1>6, <1>8, <1>9 DEF Steady

\* Of a tab u that is the store but for its requests, and whose call s is over.
SameCall(u) ==
    /\ u.sending = x1.sending /\ u.accepted = x1.accepted /\ u.settled = x1.settled
    /\ u.run = x1.run /\ u.load = x1.load /\ u.local = x1.local /\ u.step = x1.step
    /\ u.timers = x1.timers

LEMMA EndKeeps ==
  ASSUME ChatInv, Marks, NEW s \in Chat!Sends, NEW u \in Chat!Tab, SameCall(u),
         NEW code, Calls(s), code = "channel" => x1.step[s] = "asked",
         x1' \in Chat!Tab, CallEnds(u, x1', s, code), UNCHANGED <<x2, x3, x5, x6>>,
         x4' = x4 \/ x4' \in SUBSET Chat!Sends
  PROVE  Steady
<1>1. /\ x1'.accepted = x1.accepted /\ x1'.run = x1.run
      /\ x1'.load = x1.load \/ x1'.load = [on |-> TRUE, from |-> Chat!Stored]
      /\ \A q \in Chat!Sends \ {s} : x1'.step[q] = x1.step[q]
      /\ x1'.step[s] \in {"done", "after", "rewait"}
      /\ \/ ~x1'.sending
         \/ code = "channel" /\ x1'.sending = x1.sending /\ x1'.timers = x1.timers
      /\ x1'.local = {} \/ (x1'.local = x1.local /\ (x1.accepted \/ x1.settled))
  BY DEF CallEnds, SameRest, SameOrNewLoad, SameCall
<1>2. ~Calls(s)'
  BY <1>1 DEF Calls
<1>3. Chat!TypeOK' /\ HeardRight'
  <2>1. \A q \in Chat!Sends : x1'.step[q] = "recon" => x1.step[q] = "recon"
    BY <1>1
  <2>2. x5' \in BOOLEAN /\ x6' \in BOOLEAN /\ x7' \in BOOLEAN
    BY MarksType DEF ChatInv, Chat!TypeOK
  <2>. QED BY <1>1, <2>1, <2>2, TabStep
<1>4. Timed'
  <2>1. CASE ~x1'.sending
    BY <2>1 DEF Timed
  <2>2. CASE code = "channel" /\ x1'.sending = x1.sending /\ x1'.timers = x1.timers
    <3>1. x1.step[s] = "asked"
      BY <2>2
    <3>2. \A q \in Chat!Sends : x1.step[q] \in {"upload", "stuck"} => x1'.step[q] = x1.step[q]
      BY <1>1, <3>1
    <3>3. Timed
      BY DEF ChatInv
    <3>. QED BY <1>1, <2>2, <3>2, <3>3 DEF Timed
  <2>. QED BY <1>1, <2>1, <2>2
<1>5. OneCall'
  <2> SUFFICES ASSUME ~x7' PROVE OneCall'
    BY DEF OneCall
  <2>1. ~x7 /\ OneCall
    BY DEF Marks, ChatInv
  <2>. QED BY <1>1, <1>2, <2>1, CallOver
<1>6. Chat!KeepsRun
  BY <1>1, RunStays
<1>. QED BY <1>3, <1>4, <1>5, <1>6 DEF Steady

\* The chat stays as it is but for what is said here of a request or a wait.
LEMMA IdleKeeps ==
  ASSUME ChatInv, Marks, x1' \in Chat!Tab, x2' = x2, x3' = x3 \/ x3' = x2,
         x4' = x4 \/ x4' \in SUBSET Chat!Sends, x5' \in BOOLEAN, x6' \in BOOLEAN,
         x1'.run.of = x1.run.of, x1'.run.settling = x1.run.settling,
         x1'.sending = x1.sending, x1'.settled = x1.settled,
         x1'.local = x1.local, x1'.cancel = x1.cancel, x1'.accepted = x1.accepted,
         x1'.timers = x1.timers,
         \/ x1'.load = x1.load \/ x1'.load = Chat!Idle
         \/ x1'.load = [on |-> TRUE, from |-> Chat!Stored],
         \A s \in Chat!Sends : \/ x1'.step[s] = x1.step[s]
                               \/ /\ x1.step[s] \notin {"asked", "upload", "stuck"}
                                  /\ x1'.step[s] = "done",
         \A s \in Chat!Sends : x1'.req[s] = "acked" => x1.req[s] = "acked"
  PROVE  Steady
<1>1. Chat!TypeOK' /\ HeardRight'
  <2>1. \A q \in Chat!Sends : x1'.step[q] = "recon" => x1.step[q] = "recon"
    OBVIOUS
  <2>. QED BY <2>1, MarksType, TabStep
<1>2. Timed'
  <2>1. \A q \in Chat!Sends : x1.step[q] \in {"upload", "stuck"} => x1'.step[q] = x1.step[q]
    OBVIOUS
  <2>2. Timed
    BY DEF ChatInv
  <2>. QED BY <2>1, <2>2 DEF Timed
<1>3. OneCall'
  <2>1. \A s \in Chat!Sends : x1'.step[s] = x1.step[s] \/ (~Calls(s) /\ ~Calls(s)')
    BY DEF Calls
  <2>. QED BY <2>1, SameCalls DEF ChatInv
<1>4. Chat!KeepsRun
  BY RunStays
<1>. QED BY <1>1, <1>2, <1>3, <1>4 DEF Steady

LEMMA SendUnreadableKeeps ==
  ASSUME ChatInv, Marks, NEW s \in Chat!Sends, Chat!SendUnreadable(s)
  PROVE  Steady
<1>. DEFINE t == Chat!Begin(x1)
<1>1. x1 \in Chat!Tab /\ x1.step \in [Chat!Sends -> Steps0]
  BY TabType DEF ChatInv, Chat!TypeOK
<1>2. /\ t \in Chat!Tab /\ t.sending = TRUE /\ t.settled = FALSE /\ t.accepted = FALSE
      /\ t.local = x1.local /\ t.step = x1.step /\ t.run = x1.run /\ t.load = x1.load
  BY <1>1 DEF Chat!Begin, Chat!Tab
<1>3. /\ ~x1.sending /\ x1.step[s] = "new" /\ x1' = [t EXCEPT !.step[s] = "stuck"]
      /\ UNCHANGED <<x2, x3, x4, x5, x6>>
  BY DEF Chat!SendUnreadable, Chat!MaySend, Chat!Others
<1>. HIDE DEF t
<1>4. /\ x1' \in Chat!Tab /\ x1'.sending = TRUE /\ x1'.accepted = FALSE
      /\ x1'.local = x1.local /\ x1'.step = [x1.step EXCEPT ![s] = "stuck"]
      /\ x1'.run = x1.run /\ x1'.load = x1.load
  BY <1>2, <1>3 DEF Chat!Tab
<1>5. Chat!TypeOK' /\ HeardRight'
  <2>1. \A q \in Chat!Sends : x1'.step[q] = "recon" => x1.step[q] = "recon"
    BY <1>1, <1>4
  <2>2. x5' \in BOOLEAN /\ x6' \in BOOLEAN /\ x7' \in BOOLEAN
    BY <1>3, MarksType DEF ChatInv, Chat!TypeOK
  <2>. QED BY <1>3, <1>4, <2>1, <2>2, TabStep
<1>6. Timed'
  <2>1. x1'.step[s] = "stuck"
    BY <1>1, <1>4
  <2>. QED BY <1>4, <2>1 DEF Timed
<1>7. OneCall'
  <2> SUFFICES ASSUME ~x7' PROVE OneCall'
    BY DEF OneCall
  <2>1. ~x7
    BY DEF Marks
  <2>2. \A q \in Chat!Sends : ~Calls(q)
    BY <1>3, <2>1 DEF ChatInv, OneCall
  <2>3. x1'.local = {}
    BY <1>4, <2>1, <2>2 DEF ChatInv, OneCall
  <2>4. \A q \in Chat!Sends : ~Calls(q)'
    BY <1>1, <1>4, <2>2 DEF Calls
  <2>. QED BY <2>3, <2>4, NoCall
<1>8. Chat!KeepsRun
  BY <1>4, RunStays
<1>. QED BY <1>5, <1>6, <1>7, <1>8 DEF Steady

LEMMA UploadedKeeps ==
  ASSUME ChatInv, Marks, NEW s \in Chat!Sends, Chat!Uploaded(s)
  PROVE  Steady
<1>1. x1 \in Chat!Tab /\ x1.step \in [Chat!Sends -> Steps0]
  BY TabType DEF ChatInv, Chat!TypeOK
<1>2. /\ x1.step[s] = "upload" /\ x1' = Chat!Ask(x1, s)
      /\ Chat!Handed(s) /\ UNCHANGED <<x2, x5, x6>>
  BY DEF Chat!Uploaded
<1>3. /\ x1' \in Chat!Tab /\ x1'.sending = x1.sending /\ x1'.accepted = x1.accepted
      /\ x1'.settled = x1.settled /\ x1'.run = x1.run /\ x1'.load = x1.load
      /\ x1'.local = x1.local /\ x1'.cancel = s /\ x1'.req[s] # "acked"
      /\ x1'.step = [x1.step EXCEPT ![s] = "asked"]
      /\ x1'.timers = x1.timers \cup {[of |-> s, post |-> FALSE]}
  BY <1>1, <1>2, AskIs
<1>4. Chat!TypeOK'
  <2>1. x7' \in BOOLEAN
    BY MarksType
  <2>2. x3' \in [Chat!Sends -> 0..2] /\ x4' \subseteq Chat!Sends
    BY <1>2 DEF Chat!Handed, ChatInv, Chat!TypeOK
  <2>. QED BY <1>2, <1>3, <2>1, <2>2 DEF ChatInv, Chat!TypeOK
<1>5. Timed'
  BY <1>3 DEF ChatInv, Timed
<1>6. HeardRight'
  <2>1. \A q \in Chat!Sends : x3'[q] <= x2'[q]
    BY <1>2 DEF Chat!Handed, ChatInv, HeardRight, Chat!TypeOK
  <2>2. Chat!Stored' = Chat!Stored
    BY <1>2 DEF Chat!Stored
  <2>3. \A q \in Chat!Sends : x1'.step[q] = "recon" => x1.step[q] = "recon"
    BY <1>1, <1>3
  <2>. QED BY <1>2, <1>3, <2>1, <2>2, <2>3 DEF ChatInv, HeardRight
<1>7. OneCall'
  <2> SUFFICES ASSUME ~x7' PROVE OneCall'
    BY DEF OneCall
  <2>1. ~x7
    BY DEF Marks
  <2>2. Calls(s)
    BY <1>2 DEF Calls
  <2>3. /\ \A q \in Chat!Sends : Calls(q) => q = s
        /\ x1.sending /\ ~x1.settled /\ x1.local \subseteq {s}
        /\ x1.accepted => x1.local = {}
    BY <2>1, <2>2 DEF ChatInv, OneCall
  <2>4. \A q \in Chat!Sends : Calls(q)' <=> q = s
    BY <1>1, <1>3, <2>3 DEF Calls
  <2>5. \A q \in Chat!Sends : x1'.step[q] = "asked" => q = s
    BY <2>4 DEF Calls
  <2>. QED BY <1>3, <2>3, <2>4, <2>5 DEF OneCall
<1>8. Chat!KeepsRun
  BY <1>3, RunStays
<1>. QED BY <1>4, <1>5, <1>6, <1>7, <1>8 DEF Steady

LEMMA UploadFailsKeeps ==
  ASSUME ChatInv, Marks, NEW s \in Chat!Sends, Chat!UploadFails(s)
  PROVE  Steady
<1>1. x1 \in Chat!Tab /\ SameCall(x1)
  BY DEF ChatInv, Chat!TypeOK, SameCall
<1>2. Calls(s) /\ x1' = Chat!Catch(x1, s, "upload") /\ UNCHANGED <<x2, x3, x4, x5, x6>>
  BY DEF Chat!UploadFails, Calls, Chat!Others
<1>. DEFINE code == "upload"
<1>3. x1' \in Chat!Tab /\ CallEnds(x1, x1', s, code) /\ code # "channel"
  BY <1>1, <1>2, CatchEnds
<1>. HIDE DEF code
<1>. QED BY <1>1, <1>2, <1>3, EndKeeps

Over == {"done", "after", "rewait"}

\* cancelUpload, in a chat that the invariant holds of
LEMMA UploadCancelled ==
  ASSUME ChatInv, NEW a, a = Chat!CancelUpload(x1)
  PROVE  /\ a \in Chat!Tab /\ SameRest(x1, a) /\ a.cancel = x1.cancel /\ SameOrNewLoad(x1, a)
         /\ \A q \in Chat!Sends : a.step[q] = x1.step[q] \/ a.step[q] \in Over
         /\ ~x7 => /\ \A q \in Chat!Sends : a.step[q] # "upload"
                   /\ a.local = {} \/ a.local = x1.local
                   /\ \/ \A q \in Chat!Sends : a.step[q] # "asked" /\ a.local = {}
                      \/ a.step = x1.step /\ a.local = x1.local
<1>1. x1 \in Chat!Tab
  BY DEF ChatInv, Chat!TypeOK
<1>2. CASE a = x1 /\ \A s \in Chat!Sends : x1.step[s] # "upload"
  BY <1>1, <1>2 DEF SameRest, SameOrNewLoad
<1>3. CASE a \in Chat!Tab /\ \E s \in Chat!Sends :
             x1.step[s] = "upload" /\ CallEnds(x1, a, s, "upload cancelled")
  <2>1. PICK s \in Chat!Sends : x1.step[s] = "upload" /\ CallEnds(x1, a, s, "upload cancelled")
    BY <1>3
  <2>2. /\ SameRest(x1, a) /\ a.cancel = x1.cancel /\ SameOrNewLoad(x1, a)
        /\ \A q \in Chat!Sends \ {s} : a.step[q] = x1.step[q]
        /\ a.step[s] \in Over
        /\ a.local = {} \/ (a.local = x1.local /\ (x1.accepted \/ x1.settled))
    BY <2>1 DEF CallEnds, Over
  <2>3. ASSUME ~x7
        PROVE  \A q \in Chat!Sends : a.step[q] # "upload" /\ a.step[q] # "asked" /\ a.local = {}
    <3>1. Calls(s) /\ OneCall
      BY <2>1 DEF Calls, ChatInv
    <3>2. a.local = {}
      BY <2>2, <2>3, <3>1 DEF OneCall
    <3>3. \A q \in Chat!Sends \ {s} : ~Calls(q)
      BY <2>3, <3>1 DEF OneCall
    <3>. QED BY <2>2, <3>2, <3>3 DEF Calls, Over
  <2>4. ASSUME ~x7 PROVE a.local = {}
    BY <2>3, <2>1, <2>4
  <2>. QED BY <1>3, <2>2, <2>3, <2>4
<1>. QED BY <1>1, <1>2, <1>3, CancelUploadIs

\* And cancelReject after it, of a tab c that is as cancelUpload leaves it but
\* for what is local, if that is no more.
LEMMA RaceCancelled ==
  ASSUME ChatInv, NEW a, a = Chat!CancelUpload(x1), NEW c \in Chat!Tab,
         c.step = a.step, c.cancel = a.cancel, c.local = {} \/ c.local = a.local,
         c.accepted = a.accepted, c.settled = a.settled,
         NEW b, b = Chat!CancelRace(c)
  PROVE  /\ \A q \in Chat!Sends : b.step[q] = x1.step[q] \/ b.step[q] \in Over
         /\ ~x7 => /\ \A q \in Chat!Sends : b.step[q] \notin {"asked", "upload"}
                   /\ b.local = {}
<1>. DEFINE on == c.cancel # Chat!None /\ c.step[c.cancel] = "asked"
<1>1. /\ \A q \in Chat!Sends : (q # c.cancel \/ ~on) => b.step[q] = c.step[q]
      /\ on => b.step[c.cancel] \in Over
      /\ b.local = {} \/ (b.local = c.local /\ (c.accepted \/ c.settled \/ ~on))
  BY CancelRaceIs DEF Over
<1>2. c.cancel \in Chat!Sends \cup {Chat!None}
  BY DEF Chat!Tab
<1>3. /\ a.cancel = x1.cancel /\ a.accepted = x1.accepted /\ a.settled = x1.settled
      /\ \A q \in Chat!Sends : a.step[q] = x1.step[q] \/ a.step[q] \in Over
  BY UploadCancelled DEF SameRest
<1>4. \A q \in Chat!Sends : b.step[q] = x1.step[q] \/ b.step[q] \in Over
  <2> SUFFICES ASSUME NEW q \in Chat!Sends PROVE b.step[q] = x1.step[q] \/ b.step[q] \in Over
    OBVIOUS
  <2>1. CASE q = c.cancel /\ on
    BY <1>1, <2>1
  <2>2. CASE ~(q = c.cancel /\ on)
    <3>1. b.step[q] = c.step[q]
      BY <1>1, <2>2
    <3>. QED BY <1>3, <3>1
  <2>. QED BY <2>1, <2>2
<1>5. ASSUME ~x7
      PROVE  /\ \A q \in Chat!Sends : b.step[q] \notin {"asked", "upload"}
             /\ b.local = {}
  <2>1. \A q \in Chat!Sends : a.step[q] # "upload"
    BY <1>5, UploadCancelled
  <2>2. CASE \A q \in Chat!Sends : a.step[q] # "asked" /\ a.local = {}
    <3>1. ~on
      BY <1>2, <2>2 
    <3>2. \A q \in Chat!Sends : b.step[q] = a.step[q]
      BY <1>1, <3>1
    <3>3. b.local = {}
      <4>1. CASE Chat!Sends = {}
        <5>1. x1.local \in SUBSET Chat!Sends /\ a.local \in SUBSET Chat!Sends
          BY UploadCancelled, TabType DEF ChatInv, Chat!TypeOK
        <5>. QED BY <1>1, <4>1, <5>1
      <4>2. CASE Chat!Sends # {}
        BY <1>1, <2>2, <4>2
      <4>. QED BY <4>1, <4>2
    <3>. QED BY <2>1, <2>2, <3>2, <3>3
  <2>3. CASE a.step = x1.step /\ a.local = x1.local
    <3>1. CASE \E s \in Chat!Sends : x1.step[s] = "asked"
      <4>1. PICK s \in Chat!Sends : x1.step[s] = "asked"
        BY <3>1
      <4>2. Calls(s) /\ OneCall
        BY <4>1 DEF Calls, ChatInv
      <4>3. /\ x1.cancel = s /\ ~x1.settled
            /\ \A q \in Chat!Sends \ {s} : ~Calls(q)
            /\ x1.accepted => x1.local = {}
        BY <1>5, <4>1, <4>2 DEF OneCall
      <4>4. s # Chat!None
        BY SendsAre
      <4>5. on /\ c.cancel = s
        BY <1>3, <2>3, <4>1, <4>3, <4>4
      <4>6. b.step[s] \in Over /\ \A q \in Chat!Sends \ {s} : b.step[q] = x1.step[q]
        BY <1>1, <2>3, <4>5
      <4>7. b.local = {}
        BY <1>1, <1>3, <2>3, <4>3, <4>5
      <4>. QED BY <4>3, <4>6, <4>7 DEF Calls, Over
    <3>2. CASE \A s \in Chat!Sends : x1.step[s] # "asked"
      <4>1. \A q \in Chat!Sends : ~Calls(q)
        BY <2>1, <2>3, <3>2 DEF Calls
      <4>2. x1.local = {}
        BY <1>5, <4>1 DEF ChatInv, OneCall
      <4>3. ~on
        BY <1>2, <2>3, <3>2
      <4>4. \A q \in Chat!Sends : b.step[q] = x1.step[q]
        BY <1>1, <2>3, <4>3
      <4>. QED BY <1>1, <2>3, <4>1, <4>2, <4>4 DEF Calls
    <3>. QED BY <3>1, <3>2
  <2>. QED BY <1>5, <2>2, <2>3, UploadCancelled
<1>. QED BY <1>4, <1>5

\* The chat is let go of: nothing is sent any more.
LEMMA LeftKeeps ==
  ASSUME ChatInv, Marks, x1' \in Chat!Tab, UNCHANGED <<x2, x3, x4, x5>>, x6' \in BOOLEAN,
         x1'.sending = FALSE, x1'.run = x1.run \/ x1'.run = Chat!NoRun,
         \/ x1'.load = x1.load \/ x1'.load = [on |-> TRUE, from |-> Chat!Stored],
         \A q \in Chat!Sends : x1'.step[q] = x1.step[q] \/ x1'.step[q] \in Over,
         ~x7 => /\ \A q \in Chat!Sends : x1'.step[q] \notin {"asked", "upload"}
                /\ x1'.local = {}
  PROVE  Chat!TypeOK' /\ Timed' /\ HeardRight' /\ OneCall'
<1>1. Chat!TypeOK' /\ HeardRight'
  <2>1. \A q \in Chat!Sends : x1'.step[q] = "recon" => x1.step[q] = "recon"
    BY DEF Over
  <2>2. x5' \in BOOLEAN /\ x7' \in BOOLEAN
    BY MarksType DEF ChatInv, Chat!TypeOK
  <2>. QED BY <2>1, <2>2, TabStep
<1>2. Timed'
  BY DEF Timed
<1>3. OneCall'
  <2> SUFFICES ASSUME ~x7' PROVE OneCall'
    BY DEF OneCall
  <2>1. ~x7
    BY DEF Marks
  <2>. QED BY <2>1, NoCall DEF Calls
<1>. QED BY <1>1, <1>2, <1>3

LEMMA LeaveKeeps == ASSUME ChatInv, Marks, Chat!Leave PROVE Steady
<1>. DEFINE a == Chat!CancelUpload(x1)
            b == Chat!CancelRace(a)
            d == Chat!ClearTimer(b)
<1>1. x1' = Chat!Quiet(d) /\ x6' = FALSE /\ UNCHANGED <<x2, x3, x4, x5>>
  BY DEF Chat!Leave, Chat!Cleanup
<1>2. a \in Chat!Tab /\ SameRest(x1, a) /\ SameOrNewLoad(x1, a)
  BY UploadCancelled
<1>3. /\ \A q \in Chat!Sends : b.step[q] = x1.step[q] \/ b.step[q] \in Over
      /\ ~x7 => /\ \A q \in Chat!Sends : b.step[q] \notin {"asked", "upload"}
                /\ b.local = {}
  BY <1>2, RaceCancelled
<1>4. b \in Chat!Tab /\ SameRest(a, b) /\ SameOrNewLoad(a, b)
  BY <1>2, CancelRaceIs
<1>. HIDE DEF a, b
<1>5. d \in Chat!Tab /\ SameRest(b, d) /\ d.step = b.step /\ d.local = b.local /\ d.load = b.load
  BY <1>4, ClearTimerIs
<1>. HIDE DEF d
<1>6. /\ x1' \in Chat!Tab /\ SameRest(d, x1') /\ ~x1'.sending /\ x1'.step = d.step
      /\ x1'.local = d.local /\ x1'.load = d.load
  BY <1>1, <1>5, QuietIs
<1>7. x1'.run = x1.run /\ (x1'.load = x1.load \/ x1'.load = [on |-> TRUE, from |-> Chat!Stored])
  BY <1>2, <1>4, <1>5, <1>6 DEF SameRest, SameOrNewLoad
<1>8. x1'.sending = FALSE
  BY <1>6, TabType
<1>9. Chat!TypeOK' /\ Timed' /\ HeardRight' /\ OneCall'
  BY <1>1, <1>3, <1>5, <1>6, <1>7, <1>8, LeftKeeps
<1>. QED BY <1>7, <1>9, RunStays DEF Steady

LEMMA CancelSendKeeps == ASSUME ChatInv, Marks, Chat!CancelSend PROVE Steady
<1>. DEFINE a == Chat!CancelUpload(x1)
            c == IF a.accepted THEN Chat!SilentLoad(Chat!Quiet(Chat!ClearTimer(Chat!SettleRun(a))))
                 ELSE Chat!Quiet(Chat!CleanupStreaming(a))
<1>1. x1' = Chat!CancelRace(c) /\ UNCHANGED <<x2, x3, x4, x5, x6>>
  BY DEF Chat!CancelSend, Chat!Others
<1>2. a \in Chat!Tab /\ SameRest(x1, a) /\ SameOrNewLoad(x1, a)
  BY UploadCancelled
<1>3. a = Chat!CancelUpload(x1)
  OBVIOUS
<1>. HIDE DEF a
<1>4. /\ c \in Chat!Tab /\ c.step = a.step /\ c.cancel = a.cancel /\ (c.local = {} \/ c.local = a.local)
      /\ c.accepted = a.accepted /\ c.settled = a.settled /\ ~c.sending
      /\ SameOrNewLoad(a, c) /\ (c.run = a.run \/ c.run = Chat!NoRun)
  <2>1. CASE a.accepted
    <3>. DEFINE d == Chat!SettleRun(a)
                e == Chat!ClearTimer(d)
                f == Chat!Quiet(e)
    <3>1. c = Chat!SilentLoad(f)
      BY <2>1
    <3>2. /\ d \in Chat!Tab /\ d.step = a.step /\ d.cancel = a.cancel /\ d.local = a.local
          /\ d.accepted = a.accepted /\ d.settled = a.settled /\ d.load = a.load /\ d.run = Chat!NoRun
      BY <1>2, SettleRunIs DEF Chat!Tab
    <3>. HIDE DEF c, d
    <3>3. /\ e \in Chat!Tab /\ e.step = a.step /\ e.cancel = a.cancel /\ e.local = a.local
          /\ e.accepted = a.accepted /\ e.settled = a.settled /\ e.load = a.load /\ e.run = Chat!NoRun
      BY <3>2, ClearTimerIs DEF SameRest
    <3>. HIDE DEF e
    <3>4. /\ f \in Chat!Tab /\ f.step = a.step /\ f.cancel = a.cancel /\ f.local = a.local
          /\ f.accepted = a.accepted /\ f.settled = a.settled /\ f.load = a.load /\ f.run = Chat!NoRun
          /\ ~f.sending
      BY <3>3, QuietIs DEF SameRest
    <3>. HIDE DEF f
    <3>5. /\ c \in Chat!Tab /\ SameRest(f, c) /\ c.step = a.step /\ c.cancel = a.cancel
          /\ c.local = a.local /\ ~c.sending /\ SameOrNewLoad(f, c)
      BY <3>1, <3>4, SilentLoadIs
    <3>. QED BY <3>4, <3>5 DEF SameRest, SameOrNewLoad
  <2>2. CASE ~a.accepted
    <3>1. c = Chat!Quiet(Chat!CleanupStreaming(a))
      BY <2>2
    <3>. HIDE DEF c
    <3>. QED BY <1>2, <3>1, ClearTimerIs, NoLocalIs, QuietIs
         DEF SameRest, SameOrNewLoad, Chat!CleanupStreaming
  <2>. QED BY <2>1, <2>2
<1>. HIDE DEF c
<1>5. /\ \A q \in Chat!Sends : x1'.step[q] = x1.step[q] \/ x1'.step[q] \in Over
      /\ ~x7 => /\ \A q \in Chat!Sends : x1'.step[q] \notin {"asked", "upload"}
                /\ x1'.local = {}
  BY <1>1, <1>3, <1>4, RaceCancelled
<1>6. x1' \in Chat!Tab /\ SameRest(c, x1') /\ SameOrNewLoad(c, x1') /\ ~x1'.sending
  BY <1>1, <1>4, CancelRaceIs
<1>7. /\ x1'.run = x1.run \/ x1'.run = Chat!NoRun
      /\ x1'.load = x1.load \/ x1'.load = [on |-> TRUE, from |-> Chat!Stored]
  BY <1>2, <1>4, <1>6 DEF SameRest, SameOrNewLoad
<1>8. x1'.sending = FALSE /\ x6' \in BOOLEAN
  BY <1>1, <1>6, TabType DEF ChatInv, Chat!TypeOK
<1>9. Chat!TypeOK' /\ Timed' /\ HeardRight' /\ OneCall'
  BY <1>1, <1>5, <1>6, <1>7, <1>8, LeftKeeps
<1>10. Chat!KeepsRun
  <2>1. \A s \in Chat!Sends : x1'.run.of = s => x1.run.of = s
    BY <1>7, SendsAre DEF Chat!NoRun, Chat!None
  <2>. QED BY <2>1 DEF Chat!KeepsRun
<1>. QED BY <1>9, <1>10 DEF Steady

-----------------------------------------------------------------------------
(* A chat: the data channel *)

\* A silent load is asked for, and nothing else.
LEMMA LoadKeeps ==
  ASSUME ChatInv, Marks, x1' = x1 \/ x1' = Chat!SilentLoad(x1), UNCHANGED <<x2, x3, x4, x5>>,
         x6' \in BOOLEAN
  PROVE  Steady
<1>1. x1 \in Chat!Tab /\ x5' \in BOOLEAN
  BY DEF ChatInv, Chat!TypeOK
<1>2. /\ x1' \in Chat!Tab /\ x1'.run = x1.run /\ x1'.sending = x1.sending /\ x1'.settled = x1.settled
      /\ x1'.local = x1.local /\ x1'.cancel = x1.cancel /\ x1'.accepted = x1.accepted
      /\ x1'.timers = x1.timers /\ x1'.step = x1.step /\ x1'.req = x1.req
      /\ x1'.load = x1.load \/ x1'.load = [on |-> TRUE, from |-> Chat!Stored]
  <2>1. CASE x1' = x1
    BY <1>1, <2>1
  <2>2. CASE x1' = Chat!SilentLoad(x1)
    BY <1>1, <2>2, SilentLoadIs DEF SameRest, SameOrNewLoad
  <2>. QED BY <2>1, <2>2
<1>. QED BY <1>1, <1>2, IdleKeeps

LEMMA PageKeeps == ASSUME ChatInv, Marks, Chat!Enter \/ Chat!Refresh PROVE Steady
<1>1. /\ x1' = x1 \/ x1' = Chat!SilentLoad(x1)
      /\ UNCHANGED <<x2, x3, x4, x5>>
      /\ x6' \in BOOLEAN
  BY DEF Chat!Enter, Chat!Refresh, Chat!Others, ChatInv, Chat!TypeOK
<1>. QED BY <1>1, LoadKeeps

\* The calls that wait for a load go on.
LEMMA LoadEndsIs ==
  ASSUME NEW t \in Chat!Tab
  PROVE  LET r == Chat!LoadEnds(t)
         IN  /\ r \in Chat!Tab /\ r.run = t.run
             /\ r.sending = t.sending /\ r.accepted = t.accepted /\ r.settled = t.settled
             /\ r.local = t.local /\ r.cancel = t.cancel /\ r.timers = t.timers
             /\ r.req = t.req /\ r.load = Chat!Idle /\ r.shown = t.shown
             /\ \A s \in Chat!Sends : \/ r.step[s] = t.step[s]
                                      \/ t.step[s] \in {"recon", "reused"} /\ r.step[s] = "done"
             /\ \A s \in Chat!Sends : r.step[s] \notin {"recon", "reused"}
<1>. DEFINE r == Chat!LoadEnds(t)
            a == [t EXCEPT !.load = Chat!Idle]
            step == [s \in Chat!Sends |-> IF t.step[s] \in {"recon", "reused"} THEN "done" ELSE t.step[s]]
<1>1. Chat!Idle \in [on : BOOLEAN, from : SUBSET Chat!Sends]
  BY DEF Chat!Idle
<1>2. /\ a \in Chat!Tab /\ a.run = t.run
      /\ a.sending = t.sending /\ a.accepted = t.accepted /\ a.settled = t.settled
      /\ a.local = t.local /\ a.cancel = t.cancel /\ a.timers = t.timers
      /\ a.req = t.req /\ a.load = Chat!Idle /\ a.shown = t.shown /\ a.step = t.step
  BY <1>1 DEF Chat!Tab
<1>3. t.step \in [Chat!Sends -> Steps0]
  BY TabType
<1>4. step \in [Chat!Sends -> Steps0]
  BY <1>3 DEF Steps0
<1>5. r = [a EXCEPT !.step = step]
  BY DEF Chat!LoadEnds, Chat!Tab
<1>. HIDE DEF a, r
<1>6. /\ \A s \in Chat!Sends : \/ step[s] = t.step[s]
                               \/ t.step[s] \in {"recon", "reused"} /\ step[s] = "done"
      /\ \A s \in Chat!Sends : step[s] \notin {"recon", "reused"}
  OBVIOUS
<1>. HIDE DEF step
<1>7. /\ r \in Chat!Tab /\ r.run = t.run
      /\ r.sending = t.sending /\ r.accepted = t.accepted /\ r.settled = t.settled
      /\ r.local = t.local /\ r.cancel = t.cancel /\ r.timers = t.timers
      /\ r.req = t.req /\ r.load = Chat!Idle /\ r.shown = t.shown /\ r.step = step
  BY <1>2, <1>4, <1>5 DEF Chat!Tab, Steps0
<1>. QED BY <1>6, <1>7 DEF r

\* The requests are rejected, and the load with them.
LEMMA RejectedIs ==
  ASSUME NEW t \in Chat!Tab, NEW how \in {"lost", "closed"}
  PROVE  LET r == Chat!Rejected(t, how)
         IN  /\ r \in Chat!Tab /\ r.run = t.run
             /\ r.sending = t.sending /\ r.accepted = t.accepted /\ r.settled = t.settled
             /\ r.local = t.local /\ r.cancel = t.cancel /\ r.timers = t.timers
             /\ r.load = Chat!Idle
             /\ \A s \in Chat!Sends : \/ r.step[s] = t.step[s]
                                      \/ t.step[s] \in {"recon", "reused"} /\ r.step[s] = "done"
             /\ \A s \in Chat!Sends : r.req[s] # "acked"
<1>. DEFINE u == Chat!LoadEnds(t)
            req == [s \in Chat!Sends |-> IF t.req[s] \in {"pending", "acked"} THEN how ELSE t.req[s]]
            r == Chat!Rejected(t, how)
<1>1. /\ u \in Chat!Tab /\ u.run = t.run
      /\ u.sending = t.sending /\ u.accepted = t.accepted /\ u.settled = t.settled
      /\ u.local = t.local /\ u.cancel = t.cancel /\ u.timers = t.timers
      /\ u.req = t.req /\ u.load = Chat!Idle
      /\ \A s \in Chat!Sends : \/ u.step[s] = t.step[s]
                               \/ t.step[s] \in {"recon", "reused"} /\ u.step[s] = "done"
  BY LoadEndsIs
<1>2. t.req \in [Chat!Sends -> {"none", "pending", "acked", "lost", "closed"}]
  BY TabType
<1>3. r = [u EXCEPT !.req = [s \in Chat!Sends |-> IF u.req[s] \in {"pending", "acked"} THEN how ELSE u.req[s]]]
  BY <1>1 DEF Chat!Rejected, Chat!Tab
<1>4. r = [u EXCEPT !.req = req]
  BY <1>1, <1>3
<1>. HIDE DEF u, r
<1>5. /\ req \in [Chat!Sends -> {"none", "pending", "acked", "lost", "closed"}]
      /\ \A s \in Chat!Sends : req[s] # "acked"
  BY <1>2
<1>. HIDE DEF req
<1>6. /\ r \in Chat!Tab /\ r.run = u.run
      /\ r.sending = u.sending /\ r.accepted = u.accepted /\ r.settled = u.settled
      /\ r.local = u.local /\ r.cancel = u.cancel /\ r.timers = u.timers
      /\ r.load = u.load /\ r.step = u.step /\ r.req = req
  BY <1>1, <1>4, <1>5 DEF Chat!Tab
<1>. QED BY <1>1, <1>5, <1>6 DEF r

LEMMA ChannelLostKeeps == ASSUME ChatInv, Marks, Chat!ChannelLost PROVE Steady
<1>. DEFINE how == "lost"
            r == Chat!Rejected(x1, how)
<1>1. x1 \in Chat!Tab /\ how \in {"lost", "closed"}
  BY DEF ChatInv, Chat!TypeOK
<1>2. x1' = r /\ x5' = FALSE /\ x3' = x2 /\ UNCHANGED <<x2, x4, x6>>
  BY DEF Chat!ChannelLost
<1>. HIDE DEF how
<1>3. /\ r \in Chat!Tab /\ r.run = x1.run
      /\ r.sending = x1.sending /\ r.accepted = x1.accepted /\ r.settled = x1.settled
      /\ r.local = x1.local /\ r.cancel = x1.cancel /\ r.timers = x1.timers
      /\ r.load = Chat!Idle
      /\ \A s \in Chat!Sends : \/ r.step[s] = x1.step[s]
                               \/ x1.step[s] \in {"recon", "reused"} /\ r.step[s] = "done"
      /\ \A s \in Chat!Sends : r.req[s] # "acked"
  BY <1>1, RejectedIs
<1>. HIDE DEF r
<1>4. x5' \in BOOLEAN /\ x6' \in BOOLEAN
  BY <1>2 DEF ChatInv, Chat!TypeOK
<1>. QED BY <1>2, <1>3, <1>4, IdleKeeps

\* A run that is let go of for a reason that is named.
LEMMA RunGoes ==
  ASSUME x1'.run = Chat!NoRun, Chat!RunTimeout \/ Chat!BotRemoved \/ Chat!OtherChat
  PROVE  Chat!KeepsRun
<1>1. \A s \in Chat!Sends : x1'.run.of # s
  BY SendsAre DEF Chat!NoRun
<1>. QED BY <1>1 DEF Chat!KeepsRun

\* The bot is removed: what is sent fails now, or with its request, or is the
\* upload that is cancelled.
LEMMA BotRemovedKeeps == ASSUME ChatInv, Marks, Chat!BotRemoved PROVE Steady
<1>. DEFINE how == "closed"
            r == Chat!Rejected(x1, how)
            t == Chat!SettleRun(r)
<1>1. x1 \in Chat!Tab /\ how \in {"lost", "closed"}
  BY DEF ChatInv, Chat!TypeOK
<1>2. x1' = (IF x6 THEN Chat!Exit(t) ELSE t) /\ x5' = FALSE /\ x3' = x2 /\ UNCHANGED <<x2, x4>>
      /\ x6' \in {FALSE, x6}
  BY DEF Chat!BotRemoved
<1>. HIDE DEF how
<1>3. /\ r \in Chat!Tab
      /\ r.sending = x1.sending /\ r.accepted = x1.accepted /\ r.settled = x1.settled
      /\ r.local = x1.local /\ r.cancel = x1.cancel /\ r.timers = x1.timers
      /\ r.load = Chat!Idle
      /\ \A s \in Chat!Sends : \/ r.step[s] = x1.step[s]
                               \/ x1.step[s] \in {"recon", "reused"} /\ r.step[s] = "done"
      /\ \A s \in Chat!Sends : r.req[s] # "acked"
  BY <1>1, RejectedIs
<1>. HIDE DEF r
<1>4. t \in Chat!Tab /\ t = [r EXCEPT !.run = Chat!NoRun]
  BY <1>3, SettleRunIs
<1>5. /\ t.run = Chat!NoRun
      /\ t.sending = x1.sending /\ t.accepted = x1.accepted /\ t.settled = x1.settled
      /\ t.local = x1.local /\ t.cancel = x1.cancel /\ t.timers = x1.timers
      /\ t.load = Chat!Idle /\ t.step = r.step /\ t.req = r.req
  BY <1>3, <1>4 DEF Chat!Tab
<1>. HIDE DEF t
<1>6. \A s \in Chat!Sends : \/ t.step[s] = x1.step[s]
                            \/ x1.step[s] \in {"recon", "reused"} /\ t.step[s] = "done"
  BY <1>3, <1>5
<1>7. x5' \in BOOLEAN /\ x6' \in BOOLEAN /\ x7' \in BOOLEAN
  BY <1>2, MarksType DEF ChatInv, Chat!TypeOK
<1>8. CASE x1' = t
  <2>1. Chat!TypeOK' /\ HeardRight'
    <3>1. \A q \in Chat!Sends : x1'.step[q] = "recon" => x1.step[q] = "recon"
      BY <1>6, <1>8
    <3>. QED BY <1>2, <1>4, <1>5, <1>7, <1>8, <3>1, TabStep
  <2>2. Timed'
    <3>1. \A q \in Chat!Sends : x1.step[q] \in {"upload", "stuck"} => x1'.step[q] = x1.step[q]
      BY <1>6, <1>8
    <3>2. Timed
      BY DEF ChatInv
    <3>. QED BY <1>5, <1>8, <3>1, <3>2 DEF Timed
  <2>3. OneCall'
    <3>1. \A q \in Chat!Sends : x1'.step[q] = x1.step[q] \/ (~Calls(q) /\ ~Calls(q)')
      BY <1>6, <1>8 DEF Calls
    <3>2. \A q \in Chat!Sends : x1'.req[q] # "acked"
      BY <1>3, <1>5, <1>8
    <3>. QED BY <1>5, <1>8, <3>1, <3>2, SameCalls DEF ChatInv
  <2>4. Chat!KeepsRun
    BY <1>5, <1>8, RunGoes
  <2>. QED BY <2>1, <2>2, <2>3, <2>4 DEF Steady
<1>9. CASE x1' = Chat!Exit(t)
  <2>. DEFINE u == Chat!CancelUpload(t)
              v == Chat!ClearTimer(u)
              w == Chat!Quiet(v)
  <2>1. \/ u = t /\ \A s \in Chat!Sends : t.step[s] # "upload"
        \/ u \in Chat!Tab /\ \E s \in Chat!Sends : t.step[s] = "upload" /\ CallEnds(t, u, s, "upload cancelled")
    BY <1>4, CancelUploadIs
  <2>2. x1' = IF u.sending /\ \E s \in Chat!Sends : u.step[s] = "asked" THEN u ELSE w
    BY <1>9 DEF Chat!Exit
  <2>. HIDE DEF u
  <2>3. ASSUME u \in Chat!Tab, x1' = w
        PROVE  /\ x1' \in Chat!Tab /\ x1'.run = u.run /\ x1'.step = u.step /\ x1'.local = u.local
               /\ x1'.load = u.load /\ x1'.sending = FALSE
    <3>1. v \in Chat!Tab /\ SameRest(u, v) /\ v.step = u.step /\ v.local = u.local /\ v.load = u.load
      BY <2>3, ClearTimerIs
    <3>. HIDE DEF v
    <3>2. /\ w \in Chat!Tab /\ SameRest(v, w) /\ ~w.sending /\ w.step = v.step
          /\ w.local = v.local /\ w.load = v.load
      BY <3>1, QuietIs
    <3>3. w.sending = FALSE
      BY <3>2, TabType
    <3>. HIDE DEF w
    <3>. QED BY <2>3, <3>1, <3>2, <3>3 DEF SameRest
  <2>. HIDE DEF w
  <2>4. ASSUME x1' = w, u \in Chat!Tab, u.run = Chat!NoRun, OneCall',
               u.load = Chat!Idle \/ u.load = [on |-> TRUE, from |-> Chat!Stored],
               \A q \in Chat!Sends : u.step[q] = "recon" => t.step[q] = "recon"
        PROVE  Steady
    <3>1. Chat!TypeOK' /\ HeardRight'
      <4>1. \A q \in Chat!Sends : x1'.step[q] = "recon" => x1.step[q] = "recon"
        BY <1>6, <2>3, <2>4
      <4>. QED BY <1>2, <1>7, <2>3, <2>4, <4>1, TabStep
    <3>2. Timed'
      BY <2>3, <2>4 DEF Timed
    <3>3. Chat!KeepsRun
      BY <2>3, <2>4, RunGoes
    <3>. QED BY <2>4, <3>1, <3>2, <3>3 DEF Steady
  <2>5. CASE u = t
    <3>1. CASE x1' = w
      <4>1. \A q \in Chat!Sends : x1'.step[q] = x1.step[q] \/ (~Calls(q) /\ ~Calls(q)')
        BY <1>4, <1>6, <2>3, <2>5, <3>1 DEF Calls
      <4>2. OneCall'
        BY <1>4, <1>5, <2>3, <2>5, <3>1, <4>1, Freed
      <4>. QED BY <1>4, <1>5, <2>4, <2>5, <3>1, <4>2
    <3>. QED BY <1>8, <2>2, <2>5, <3>1
  <2>6. CASE u \in Chat!Tab /\ \E s \in Chat!Sends : t.step[s] = "upload" /\ CallEnds(t, u, s, "upload cancelled")
    <3>1. PICK s \in Chat!Sends : t.step[s] = "upload" /\ CallEnds(t, u, s, "upload cancelled")
      BY <2>6
    <3>2. /\ ~u.sending /\ u.run = Chat!NoRun /\ u.step[s] \in Over
          /\ \A q \in Chat!Sends \ {s} : u.step[q] = t.step[q]
          /\ u.load = Chat!Idle \/ u.load = [on |-> TRUE, from |-> Chat!Stored]
          /\ u.local = {} \/ (u.local = x1.local /\ x1.accepted)
      BY <1>5, <3>1 DEF CallEnds, SameRest, SameOrNewLoad, Over
    <3>3. x1' = w
      BY <2>2, <3>2
    <3>4. OneCall'
      <4> SUFFICES ASSUME ~x7' PROVE OneCall'
        BY DEF OneCall
      <4>1. ~x7
        BY DEF Marks
      <4>2. x1.step[s] = "upload" /\ Calls(s)
        BY <1>6, <3>1 DEF Calls
      <4>3. \A q \in Chat!Sends \ {s} : ~Calls(q)
        BY <4>1, <4>2 DEF ChatInv, OneCall
      <4>4. \A q \in Chat!Sends : ~Calls(q)'
        <5>1. \A q \in Chat!Sends \ {s} : t.step[q] \notin {"asked", "upload"}
          BY <1>6, <4>3 DEF Calls
        <5>. QED BY <2>3, <2>6, <3>2, <3>3, <5>1 DEF Calls, Over
      <4>5. x1'.local = {}
        <5>1. x1.accepted => x1.local = {}
          BY <4>1 DEF ChatInv, OneCall
        <5>. QED BY <2>3, <2>6, <3>2, <3>3, <5>1
      <4>. QED BY <4>4, <4>5, NoCall
    <3>5. \A q \in Chat!Sends : u.step[q] = "recon" => t.step[q] = "recon"
      BY <3>2 DEF Over
    <3>. QED BY <2>4, <2>6, <3>2, <3>3, <3>4, <3>5
  <2>. QED BY <2>1, <2>5, <2>6
<1>. QED BY <1>2, <1>8, <1>9

LEMMA ChannelReadyKeeps == ASSUME ChatInv, Marks, Chat!ChannelReady PROVE Steady
<1>1. x1 \in Chat!Tab /\ x5' \in BOOLEAN /\ x6' \in BOOLEAN
  BY DEF ChatInv, Chat!TypeOK, Chat!ChannelReady
<1>2. UNCHANGED <<x1, x2, x3, x4>>
  BY DEF Chat!ChannelReady
<1>. QED BY <1>1, <1>2, IdleKeeps

\* A request that is answered or lost is none any more.
LEMMA RequestGone ==
  ASSUME NEW t \in Chat!Tab, NEW s \in Chat!Sends
  PROVE  LET u == [t EXCEPT !.req[s] = "none"]
         IN  /\ u \in Chat!Tab /\ u.sending = t.sending /\ u.accepted = t.accepted
             /\ u.settled = t.settled /\ u.run = t.run /\ u.load = t.load /\ u.local = t.local
             /\ u.step = t.step /\ u.timers = t.timers /\ u.cancel = t.cancel
             /\ \A q \in Chat!Sends : u.req[q] = "acked" => t.req[q] = "acked"
<1>. DEFINE u == [t EXCEPT !.req[s] = "none"]
<1>1. t.req \in [Chat!Sends -> {"none", "pending", "acked", "lost", "closed"}]
  BY TabType
<1>2. /\ u \in Chat!Tab /\ u.sending = t.sending /\ u.accepted = t.accepted
      /\ u.settled = t.settled /\ u.run = t.run /\ u.load = t.load /\ u.local = t.local
      /\ u.step = t.step /\ u.timers = t.timers /\ u.cancel = t.cancel
      /\ u.req = [t.req EXCEPT ![s] = "none"]
  BY DEF Chat!Tab
<1>. HIDE DEF u
<1>3. \A q \in Chat!Sends : u.req[q] = "acked" => t.req[q] = "acked"
  BY <1>1, <1>2
<1>. QED BY <1>2, <1>3 DEF u

\* The request of s fails with code.
LEMMA FailKeeps ==
  ASSUME ChatInv, Marks, NEW s \in Chat!Sends, NEW code, NEW t, t = [x1 EXCEPT !.req[s] = "none"],
         x1' = IF t.step[s] = "asked" THEN Chat!Catch(t, s, code) ELSE t,
         UNCHANGED <<x2, x3, x5, x6>>, x4' = x4 \/ x4' \in SUBSET Chat!Sends
  PROVE  Steady
<1>1. x1 \in Chat!Tab /\ x5' \in BOOLEAN /\ x6' \in BOOLEAN
  BY DEF ChatInv, Chat!TypeOK
<1>2. /\ t \in Chat!Tab /\ t.sending = x1.sending /\ t.accepted = x1.accepted
      /\ t.settled = x1.settled /\ t.run = x1.run /\ t.load = x1.load /\ t.local = x1.local
      /\ t.step = x1.step /\ t.timers = x1.timers /\ t.cancel = x1.cancel
      /\ \A q \in Chat!Sends : t.req[q] = "acked" => x1.req[q] = "acked"
  BY <1>1, RequestGone
<1>3. CASE x1.step[s] = "asked"
  <2>1. SameCall(t) /\ Calls(s)
    BY <1>2, <1>3 DEF SameCall, Calls
  <2>2. x1' \in Chat!Tab /\ CallEnds(t, x1', s, code)
    BY <1>2, <1>3, CatchEnds
  <2>. QED BY <1>2, <1>3, <2>1, <2>2, EndKeeps
<1>4. CASE x1.step[s] # "asked"
  <2>1. x1' = t
    BY <1>2, <1>4
  <2>. QED BY <1>1, <1>2, <2>1, IdleKeeps
<1>. QED BY <1>3, <1>4

LEMMA RequestFailsKeeps ==
  ASSUME ChatInv, Marks, NEW s \in Chat!Sends, NEW code, Chat!RequestFails(s, code)
  PROVE  Steady
<1>. DEFINE t == [x1 EXCEPT !.req[s] = "none"]
<1>1. /\ x1' = IF t.step[s] = "asked" THEN Chat!Catch(t, s, code) ELSE t
      /\ UNCHANGED <<x2, x3, x4, x5, x6>>
  BY DEF Chat!RequestFails, Chat!Others
<1>2. t = [x1 EXCEPT !.req[s] = "none"]
  OBVIOUS
<1>. HIDE DEF t
<1>. QED BY <1>1, <1>2, FailKeeps

LEMMA RefusedKeeps ==
  ASSUME ChatInv, Marks, NEW s \in Chat!Sends, Chat!Refused(s)
  PROVE  Steady
<1>. DEFINE t == [x1 EXCEPT !.req[s] = "none"]
            code == "refused"
<1>1. /\ x1' = IF t.step[s] = "asked" THEN Chat!Catch(t, s, code) ELSE t
      /\ x4' = x4 \ {s} /\ UNCHANGED <<x2, x3, x5, x6>>
  BY DEF Chat!Refused
<1>2. t = [x1 EXCEPT !.req[s] = "none"]
  OBVIOUS
<1>3. x4' \in SUBSET Chat!Sends
  BY <1>1 DEF ChatInv, Chat!TypeOK
<1>. HIDE DEF t, code
<1>. QED BY <1>1, <1>2, <1>3, FailKeeps

LEMMA RetryKeeps ==
  ASSUME ChatInv, Marks, NEW s \in Chat!Sends, Chat!Retry(s)
  PROVE  Steady
<1>1. x1 \in Chat!Tab /\ x5' \in BOOLEAN /\ x6' \in BOOLEAN /\ x1.step \in [Chat!Sends -> Steps0]
  BY TabType DEF ChatInv, Chat!TypeOK, Chat!Retry
<1>2. CASE x1.sending
  <2>1. /\ x1.step[s] = "rewait" /\ x1' = [x1 EXCEPT !.step[s] = "done"]
        /\ UNCHANGED <<x2, x3, x4>>
    BY <1>2 DEF Chat!Retry
  <2>2. /\ x1' \in Chat!Tab /\ x1'.run = x1.run /\ x1'.sending = x1.sending /\ x1'.settled = x1.settled
        /\ x1'.local = x1.local /\ x1'.cancel = x1.cancel /\ x1'.accepted = x1.accepted
        /\ x1'.timers = x1.timers /\ x1'.step = [x1.step EXCEPT ![s] = "done"]
        /\ x1'.req = x1.req /\ x1'.load = x1.load
    BY <1>1, <2>1 DEF Chat!Tab
  <2>3. \A q \in Chat!Sends : \/ x1'.step[q] = x1.step[q]
                              \/ /\ x1.step[q] \notin {"asked", "upload", "stuck"}
                                 /\ x1'.step[q] = "done"
    BY <1>1, <2>1, <2>2
  <2>. QED BY <1>1, <2>1, <2>2, <2>3, IdleKeeps
<1>3. CASE ~x1.sending
  <2>. DEFINE t == [Chat!Begin(x1) EXCEPT !.local = @ \cup {s}, !.retried = s]
  <2>1. /\ x1.step[s] = "rewait" /\ x1' = Chat!Ask(t, s) /\ Chat!Handed(s)
        /\ UNCHANGED <<x2, x5, x6>>
    BY <1>3 DEF Chat!Retry
  <2>2. t \in Chat!Tab
    <3>. DEFINE u == [Chat!Begin(x1) EXCEPT !.local = @ \cup {s}]
    <3>1. u \in Chat!Tab
      BY <1>1, BeginIs
    <3>2. t = [u EXCEPT !.retried = s]
      OBVIOUS
    <3>. HIDE DEF u, t
    <3>. QED BY <3>1, <3>2 DEF Chat!Tab
  <2>3. t = [Chat!Begin(x1) EXCEPT !.local = @ \cup {s}, !.retried = s]
    OBVIOUS
  <2>. HIDE DEF t
  <2>. QED BY <1>3, <2>1, <2>2, <2>3, StartKeeps
<1>. QED BY <1>2, <1>3

LEMMA ReconnectedKeeps ==
  ASSUME ChatInv, Marks, NEW s \in Chat!Sends, Chat!Reconnected(s)
  PROVE  Steady
<1>. DEFINE u == Chat!SilentLoad(x1)
<1>1. /\ x1.step[s] = "after" /\ x1' = Chat!Return(u, s) /\ UNCHANGED <<x2, x3, x4, x5, x6>>
  BY DEF Chat!Reconnected, Chat!Others
<1>2. x1 \in Chat!Tab /\ x5' \in BOOLEAN /\ x6' \in BOOLEAN /\ x1.step \in [Chat!Sends -> Steps0]
  BY <1>1, TabType DEF ChatInv, Chat!TypeOK
<1>3. /\ u \in Chat!Tab /\ SameRest(x1, u) /\ u.sending = x1.sending /\ u.cancel = x1.cancel
      /\ u.local = x1.local /\ u.step = x1.step /\ u.timers = x1.timers /\ SameOrNewLoad(x1, u)
  BY <1>2, SilentLoadIs
<1>. HIDE DEF u
<1>4. /\ x1' \in Chat!Tab /\ SameRest(u, x1') /\ x1'.sending = u.sending /\ x1'.cancel = u.cancel
      /\ x1'.local = u.local /\ x1'.step = [x1.step EXCEPT ![s] = "done"]
      /\ x1'.timers = u.timers /\ x1'.load = u.load
  BY <1>1, <1>3, ReturnIs
<1>5. /\ x1'.accepted = x1.accepted /\ x1'.settled = x1.settled /\ x1'.run = x1.run /\ x1'.req = x1.req
      /\ x1'.load = x1.load \/ x1'.load = [on |-> TRUE, from |-> Chat!Stored]
  BY <1>3, <1>4 DEF SameRest, SameOrNewLoad
<1>6. \A q \in Chat!Sends : \/ x1'.step[q] = x1.step[q]
                            \/ /\ x1.step[q] \notin {"asked", "upload", "stuck"}
                               /\ x1'.step[q] = "done"
  BY <1>1, <1>2, <1>4
<1>. QED BY <1>1, <1>2, <1>3, <1>4, <1>5, <1>6, IdleKeeps

\* The chat is freed by a timer or by the end of a wait.
LEMMA FreeKeeps ==
  ASSUME ChatInv, Marks, x1' \in Chat!Tab, UNCHANGED <<x2, x3, x4, x5, x6>>,
         x1'.sending = FALSE, x1'.run = x1.run \/ x1'.run = Chat!NoRun,
         \/ x1'.load = x1.load \/ x1'.load = [on |-> TRUE, from |-> Chat!Stored],
         x1'.local = {} \/ x1'.local = x1.local,
         \A q \in Chat!Sends : \/ x1'.step[q] = x1.step[q]
                               \/ ~Calls(q) /\ x1'.step[q] = "done"
  PROVE  Chat!TypeOK' /\ Timed' /\ HeardRight' /\ OneCall'
<1>1. Chat!TypeOK' /\ HeardRight'
  <2>1. \A q \in Chat!Sends : x1'.step[q] = "recon" => x1.step[q] = "recon"
    OBVIOUS
  <2>2. x5' \in BOOLEAN /\ x6' \in BOOLEAN /\ x7' \in BOOLEAN
    BY MarksType DEF ChatInv, Chat!TypeOK
  <2>. QED BY <2>1, <2>2, TabStep
<1>2. Timed'
  BY DEF Timed
<1>3. OneCall'
  <2>1. \A q \in Chat!Sends : x1'.step[q] = x1.step[q] \/ (~Calls(q) /\ ~Calls(q)')
    BY DEF Calls
  <2>. QED BY <2>1, Freed
<1>. QED BY <1>1, <1>2, <1>3

LEMMA WaitFailsKeeps ==
  ASSUME ChatInv, Marks, NEW s \in Chat!Sends, Chat!WaitFails(s)
  PROVE  Steady
<1>1. /\ x1 \in Chat!Tab /\ x1.step \in [Chat!Sends -> Steps0]
      /\ x5' \in BOOLEAN /\ x6' \in BOOLEAN /\ UNCHANGED <<x2, x3, x4, x5, x6>>
      /\ x1.step[s] \in {"rewait", "after"}
  BY TabType DEF ChatInv, Chat!TypeOK, Chat!WaitFails, Chat!Others
<1>2. CASE x1.step[s] = "after"
  <2>1. x1' = Chat!Return(x1, s)
    BY <1>2 DEF Chat!WaitFails
  <2>2. /\ x1' \in Chat!Tab /\ SameRest(x1, x1') /\ x1'.sending = x1.sending /\ x1'.cancel = x1.cancel
        /\ x1'.local = x1.local /\ x1'.step = [x1.step EXCEPT ![s] = "done"]
        /\ x1'.timers = x1.timers /\ x1'.load = x1.load
    BY <1>1, <2>1, ReturnIs
  <2>3. \A q \in Chat!Sends : \/ x1'.step[q] = x1.step[q]
                              \/ /\ x1.step[q] \notin {"asked", "upload", "stuck"}
                                 /\ x1'.step[q] = "done"
    BY <1>1, <1>2, <2>2
  <2>. QED BY <1>1, <2>2, <2>3, IdleKeeps DEF SameRest
<1>3. CASE x1.step[s] = "rewait"
  <2>1. PICK u : /\ u \in Chat!Tab /\ SameRest(x1, u) /\ ~u.sending /\ u.step = x1.step
                 /\ SameOrNewLoad(x1, u) /\ (u.local = {} \/ u.local = x1.local)
                 /\ x1' = Chat!Return(u, s)
    <3>1. CASE x1.accepted
      <4>. DEFINE v == Chat!Quiet(Chat!ClearTimer(x1))
                  u == Chat!SilentLoad(v)
      <4>1. x1' = Chat!Return(u, s)
        BY <1>3, <3>1 DEF Chat!WaitFails
      <4>2. /\ v \in Chat!Tab /\ SameRest(x1, v) /\ ~v.sending /\ v.step = x1.step
            /\ v.load = x1.load /\ v.local = x1.local
        BY <1>1, ClearTimerIs, QuietIs DEF SameRest
      <4>. HIDE DEF v
      <4>3. /\ u \in Chat!Tab /\ SameRest(x1, u) /\ ~u.sending /\ u.step = x1.step
            /\ SameOrNewLoad(x1, u) /\ u.local = x1.local
        BY <4>2, SilentLoadIs DEF SameRest, SameOrNewLoad
      <4>. HIDE DEF u
      <4>. QED BY <4>1, <4>3
    <3>2. CASE ~x1.accepted
      <4>. DEFINE u == Chat!Quiet(Chat!CleanupStreaming(x1))
      <4>1. x1' = Chat!Return(u, s)
        BY <1>3, <3>2 DEF Chat!WaitFails
      <4>2. /\ u \in Chat!Tab /\ SameRest(x1, u) /\ ~u.sending /\ u.step = x1.step
            /\ SameOrNewLoad(x1, u) /\ u.local = {}
        BY <1>1, ClearTimerIs, NoLocalIs, QuietIs DEF SameRest, SameOrNewLoad, Chat!CleanupStreaming
      <4>. HIDE DEF u
      <4>. QED BY <4>1, <4>2
    <3>. QED BY <3>1, <3>2
  <2>2. /\ x1' \in Chat!Tab /\ SameRest(u, x1') /\ x1'.sending = u.sending
        /\ x1'.local = u.local /\ x1'.step = [x1.step EXCEPT ![s] = "done"] /\ x1'.load = u.load
    BY <2>1, ReturnIs
  <2>3. /\ x1'.run = x1.run /\ (x1'.local = {} \/ x1'.local = x1.local)
        /\ x1'.load = x1.load \/ x1'.load = [on |-> TRUE, from |-> Chat!Stored]
    BY <2>1, <2>2 DEF SameRest, SameOrNewLoad
  <2>4. x1'.sending = FALSE
    BY <2>1, <2>2, TabType
  <2>5. \A q \in Chat!Sends : \/ x1'.step[q] = x1.step[q]
                              \/ ~Calls(q) /\ x1'.step[q] = "done"
    BY <1>1, <1>3, <2>2 DEF Calls
  <2>6. Chat!TypeOK' /\ Timed' /\ HeardRight' /\ OneCall'
    BY <1>1, <2>2, <2>3, <2>4, <2>5, FreeKeeps
  <2>. QED BY <2>3, <2>6, RunStays DEF Steady
<1>. QED BY <1>1, <1>2, <1>3

-----------------------------------------------------------------------------
(* A chat: the agent, and what the tab is told *)

LEMMA AgentKeeps ==
  ASSUME ChatInv, Marks, NEW s \in Chat!Sends, Chat!Accepts(s) \/ Chat!Ends(s)
  PROVE  Steady
<1>1. /\ UNCHANGED <<x1, x3, x5, x6>> /\ (x4' = x4 \/ x4' = x4 \ {s})
      /\ x2[s] # 2 /\ \E n \in 1..2 : x2' = [x2 EXCEPT ![s] = n] /\ x2[s] < n
  BY DEF Chat!Accepts, Chat!Ends
<1>2. x2 \in [Chat!Sends -> 0..2] /\ x2' \in [Chat!Sends -> 0..2] /\ x7' \in BOOLEAN
  BY <1>1, MarksType DEF ChatInv, Chat!TypeOK
<1>3. \A q \in Chat!Sends : /\ x2[q] <= x2'[q]
                            /\ x2[q] = 2 => x2'[q] = 2
  BY <1>1, <1>2
<1>4. Chat!TypeOK'
  BY <1>1, <1>2 DEF ChatInv, Chat!TypeOK
<1>5. HeardRight'
  <2>1. \A q \in Chat!Sends : x3'[q] <= x2'[q]
    <3> SUFFICES ASSUME NEW q \in Chat!Sends PROVE x3'[q] <= x2'[q]
      OBVIOUS
    <3>1. x3[q] <= x2[q] /\ x2[q] <= x2'[q] /\ x3'[q] = x3[q]
      BY <1>1, <1>3 DEF ChatInv, HeardRight
    <3>2. x3[q] \in Nat /\ x2[q] \in Nat /\ x2'[q] \in Nat
      BY <1>2 DEF ChatInv, Chat!TypeOK
    <3>. QED BY <3>1, <3>2
  <2>2. x1'.run.settling => x2'[x1'.run.of] = 2
    <3>1. CASE x1.run = Chat!NoRun
      BY <1>1, <3>1 DEF Chat!NoRun
    <3>2. CASE x1.run \in Chat!Run
      BY <1>1, <1>3, <3>2 DEF ChatInv, HeardRight, Chat!Run
    <3>3. x1.run \in Chat!Run \cup {Chat!NoRun}
      BY TabType DEF ChatInv, Chat!TypeOK
    <3>. QED BY <3>1, <3>2, <3>3
  <2>3. Chat!Stored \subseteq Chat!Stored'
    BY <1>3 DEF Chat!Stored
  <2>. QED BY <1>1, <1>3, <2>1, <2>2, <2>3 DEF ChatInv, HeardRight
<1>6. Timed'
  BY <1>1 DEF ChatInv, Timed
<1>7. OneCall'
  BY <1>1, SameCalls DEF ChatInv
<1>. QED BY <1>1, <1>4, <1>5, <1>6, <1>7, RunStays DEF Steady

\* onAccepted: the run takes what is local, and a timer of its own.
AcceptTab(t, s) ==
    Chat!Register([Chat!SwitchTimer(t, s) EXCEPT !.accepted = TRUE, !.req[s] = "acked"], s)
NewRun(s, msgs) == [Chat!NoRun EXCEPT !.of = s, !.msgs = msgs]

LEMMA NewRunIs ==
  ASSUME NEW s \in Chat!Sends, NEW msgs \in SUBSET Chat!Sends
  PROVE  /\ NewRun(s, msgs) \in Chat!Run /\ NewRun(s, msgs).of = s
         /\ NewRun(s, msgs).msgs = msgs /\ NewRun(s, msgs).settling = FALSE
<1>. DEFINE run == NewRun(s, msgs)
            Runs == [of : Chat!Sends \cup {Chat!None}, msgs : SUBSET Chat!Sends,
                     seen : BOOLEAN, settling : BOOLEAN]
            n == [Chat!NoRun EXCEPT !.of = s]
<1>1. Chat!NoRun \in Runs /\ Chat!NoRun.settling = FALSE
  BY DEF Chat!NoRun
<1>2. n \in Runs /\ n.of = s /\ n.settling = FALSE
  BY <1>1
<1>3. run = [n EXCEPT !.msgs = msgs]
  BY DEF NewRun
<1>. HIDE DEF n, run
<1>4. run \in Runs /\ run.of = s /\ run.msgs = msgs /\ run.settling = FALSE
  BY <1>2, <1>3
<1>. QED BY <1>4 DEF Chat!Run, run

LEMMA RegisterIs ==
  ASSUME NEW t \in Chat!Tab, NEW s \in Chat!Sends
  PROVE  LET r == AcceptTab(t, s)
         IN  /\ r \in Chat!Tab /\ r.accepted = TRUE /\ r.local = {} /\ r.sending = t.sending
             /\ r.settled = t.settled /\ r.step = t.step /\ r.cancel = t.cancel
             /\ r.load = t.load
             /\ \E m \in r.timers : m.post
             /\ r.run.of = s /\ r.run.msgs = t.local /\ r.run.settling = FALSE
             /\ \A q \in Chat!Sends \ {s} : r.req[q] = t.req[q]
<1>. DEFINE r == AcceptTab(t, s)
            m == [of |-> s, post |-> TRUE]
            a == Chat!ClearTimer(t)
            b == [a EXCEPT !.timers = @ \cup {m}]
            c == [b EXCEPT !.ref = m]
            d == [c EXCEPT !.accepted = TRUE]
            e == [d EXCEPT !.req[s] = "acked"]
            run == NewRun(s, e.local)
            f == [e EXCEPT !.run = run]
<1>1. m \in Chat!Timer /\ m.post
  BY DEF Chat!Timer
<1>2. r = [f EXCEPT !.local = {}]
  <2>1. e = [Chat!SwitchTimer(t, s) EXCEPT !.accepted = TRUE, !.req[s] = "acked"]
    BY DEF Chat!SwitchTimer
  <2>2. r = Chat!Register(e, s)
    BY <2>1 DEF AcceptTab
  <2>. HIDE DEF e, r
  <2>. QED BY <2>2 DEF Chat!Register, NewRun
<1>3. /\ a \in Chat!Tab /\ a.local = t.local /\ a.sending = t.sending
      /\ a.settled = t.settled /\ a.step = t.step /\ a.cancel = t.cancel /\ a.load = t.load
      /\ a.req = t.req
  BY ClearTimerIs DEF SameRest
<1>. HIDE DEF m, a, r
<1>4. /\ b \in Chat!Tab /\ b.local = t.local /\ b.sending = t.sending
      /\ b.settled = t.settled /\ b.step = t.step /\ b.cancel = t.cancel /\ b.load = t.load
      /\ b.req = t.req /\ m \in b.timers
  BY <1>1, <1>3 DEF Chat!Tab
<1>. HIDE DEF b
<1>5. /\ c \in Chat!Tab /\ c.local = t.local /\ c.sending = t.sending
      /\ c.settled = t.settled /\ c.step = t.step /\ c.cancel = t.cancel /\ c.load = t.load
      /\ c.req = t.req /\ m \in c.timers
  BY <1>1, <1>4 DEF Chat!Tab
<1>. HIDE DEF c
<1>6. /\ d \in Chat!Tab /\ d.local = t.local /\ d.sending = t.sending /\ d.accepted = TRUE
      /\ d.settled = t.settled /\ d.step = t.step /\ d.cancel = t.cancel /\ d.load = t.load
      /\ d.req = t.req /\ m \in d.timers
  BY <1>5 DEF Chat!Tab
<1>. HIDE DEF d
<1>7. /\ e \in Chat!Tab /\ e.local = t.local /\ e.sending = t.sending /\ e.accepted = TRUE
      /\ e.settled = t.settled /\ e.step = t.step /\ e.cancel = t.cancel /\ e.load = t.load
      /\ e.req = [t.req EXCEPT ![s] = "acked"] /\ m \in e.timers
  BY <1>6 DEF Chat!Tab
<1>. HIDE DEF e
<1>8. run \in Chat!Run /\ run.of = s /\ run.msgs = t.local /\ run.settling = FALSE
  <2>1. e.local = t.local /\ t.local \in SUBSET Chat!Sends
    BY <1>7, TabType
  <2>. DEFINE msgs == e.local
  <2>2. msgs \in SUBSET Chat!Sends /\ run = NewRun(s, msgs) /\ msgs = t.local
    BY <2>1
  <2>. HIDE DEF msgs, run
  <2>3. /\ NewRun(s, msgs) \in Chat!Run /\ NewRun(s, msgs).of = s
        /\ NewRun(s, msgs).msgs = msgs /\ NewRun(s, msgs).settling = FALSE
    BY <2>2, NewRunIs
  <2>. QED BY <2>2, <2>3
<1>. HIDE DEF run
<1>9. /\ f \in Chat!Tab /\ f.sending = t.sending /\ f.accepted = TRUE
      /\ f.settled = t.settled /\ f.step = t.step /\ f.cancel = t.cancel /\ f.load = t.load
      /\ f.req = [t.req EXCEPT ![s] = "acked"] /\ m \in f.timers /\ f.run = run
  BY <1>7, <1>8 DEF Chat!Tab
<1>. HIDE DEF f
<1>10. /\ r \in Chat!Tab /\ r.sending = t.sending /\ r.accepted = TRUE /\ r.local = {}
       /\ r.settled = t.settled /\ r.step = t.step /\ r.cancel = t.cancel /\ r.load = t.load
       /\ r.req = [t.req EXCEPT ![s] = "acked"] /\ m \in r.timers /\ r.run = run
  BY <1>2, <1>9 DEF Chat!Tab
<1>11. \A q \in Chat!Sends \ {s} : r.req[q] = t.req[q]
  BY <1>10, TabType
<1>. QED BY <1>1, <1>8, <1>10, <1>11 DEF r

LEMMA ToldAcceptedKeeps ==
  ASSUME ChatInv, Marks, NEW s \in Chat!Sends, Chat!ToldAccepted(s)
  PROVE  Steady
<1>1. x1 \in Chat!Tab
  BY DEF ChatInv, Chat!TypeOK
<1>2. /\ x1' = AcceptTab(x1, s)
      /\ x2[s] > 0 /\ x3' = [x3 EXCEPT ![s] = IF @ = 0 THEN 1 ELSE @]
      /\ UNCHANGED <<x2, x4, x5, x6>>
  BY DEF Chat!ToldAccepted, AcceptTab
<1>3. /\ x1' \in Chat!Tab /\ x1'.accepted = TRUE /\ x1'.local = {} /\ x1'.sending = x1.sending
      /\ x1'.settled = x1.settled /\ x1'.step = x1.step /\ x1'.cancel = x1.cancel
      /\ x1'.load = x1.load /\ \E m \in x1'.timers : m.post
      /\ x1'.run.of = s /\ x1'.run.msgs = x1.local /\ x1'.run.settling = FALSE
      /\ \A q \in Chat!Sends \ {s} : x1'.req[q] = x1.req[q]
  <2>. DEFINE r == AcceptTab(x1, s)
  <2>1. /\ r \in Chat!Tab /\ r.accepted = TRUE /\ r.local = {} /\ r.sending = x1.sending
        /\ r.settled = x1.settled /\ r.step = x1.step /\ r.cancel = x1.cancel
        /\ r.load = x1.load
        /\ \E m \in r.timers : m.post
        /\ r.run.of = s /\ r.run.msgs = x1.local /\ r.run.settling = FALSE
        /\ \A q \in Chat!Sends \ {s} : r.req[q] = x1.req[q]
    BY <1>1, RegisterIs
  <2>2. x1' = r
    BY <1>2
  <2>. HIDE DEF r
  <2>. QED BY <2>1, <2>2
<1>4. Chat!TypeOK'
  <2>1. x3' \in [Chat!Sends -> 0..2] /\ x7' \in BOOLEAN
    BY <1>2, MarksType DEF ChatInv, Chat!TypeOK
  <2>. QED BY <1>2, <1>3, <2>1 DEF ChatInv, Chat!TypeOK
<1>5. Timed'
  BY <1>3 DEF Timed
<1>6. HeardRight'
  <2>1. \A q \in Chat!Sends : x3'[q] <= x2'[q]
    BY <1>2 DEF ChatInv, HeardRight, Chat!TypeOK
  <2>2. Chat!Stored' = Chat!Stored
    BY <1>2 DEF Chat!Stored
  <2>. QED BY <1>2, <1>3, <2>1, <2>2 DEF ChatInv, HeardRight
<1>7. OneCall'
  <2> SUFFICES ASSUME ~x7' PROVE OneCall'
    BY DEF OneCall
  <2>1. ~x7
    BY DEF Marks
  <2>2. \A q \in Chat!Sends : Calls(q)' <=> Calls(q)
    BY <1>3 DEF Calls
  <2>. QED BY <1>3, <2>1, <2>2 DEF ChatInv, OneCall
<1>8. Chat!KeepsRun
  <2>1. ASSUME NEW q \in Chat!Sends, Chat!LetGo(q)
        PROVE  \E r \in Chat!Sends : r # q /\ Chat!ToldAccepted(r)
    BY <1>3, <2>1 DEF Chat!LetGo
  <2>2. ASSUME NEW q \in Chat!Sends, x1'.run.of = q, ~(x1'.run.msgs \subseteq {q})
        PROVE  Chat!ToldAccepted(q) /\ (x1.step[q] # "asked" \/ x7)
    <3>1. q = s /\ ~(x1.local \subseteq {s})
      BY <1>3, <2>2
    <3>2. x1.step[s] = "asked" => Calls(s)
      BY DEF Calls
    <3>3. ~x7 /\ Calls(s) => x1.local \subseteq {s}
      BY DEF ChatInv, OneCall
    <3>. QED BY <3>1, <3>2, <3>3
  <2>. QED BY <2>1, <2>2 DEF Chat!KeepsRun
<1>. QED BY <1>4, <1>5, <1>6, <1>7, <1>8 DEF Steady

\* An event, and the last one: the run is marked.
SeenTab(t) == [t EXCEPT !.run.seen = TRUE]
EndedTab(t) == [t EXCEPT !.run.seen = TRUE, !.run.settling = TRUE]

LEMMA MarkedIs ==
  ASSUME NEW t \in Chat!Tab, NEW s \in Chat!Sends, t.run.of = s,
         NEW r, r = SeenTab(t) \/ r = EndedTab(t)
  PROVE  /\ r \in Chat!Tab /\ r.run.of = s
         /\ r = SeenTab(t) => r.run.settling = t.run.settling
         /\ r.sending = t.sending /\ r.accepted = t.accepted /\ r.settled = t.settled
         /\ r.local = t.local /\ r.cancel = t.cancel /\ r.timers = t.timers /\ r.step = t.step
         /\ r.req = t.req /\ r.load = t.load
<1>. DEFINE seen == [t.run EXCEPT !.seen = TRUE]
            ended == [seen EXCEPT !.settling = TRUE]
<1>1. t.run \in Chat!Run
  <2>1. t.run \in Chat!Run \cup {Chat!NoRun}
    BY TabType
  <2>2. t.run # Chat!NoRun
    BY SendsAre DEF Chat!NoRun
  <2>. QED BY <2>1, <2>2
<1>2. seen \in Chat!Run /\ seen.of = s /\ seen.settling = t.run.settling
  BY <1>1 DEF Chat!Run
<1>3. SeenTab(t) = [t EXCEPT !.run = seen]
  BY DEF SeenTab, Chat!Tab
<1>4. EndedTab(t) = [t EXCEPT !.run = ended]
  <2>. DEFINE a == [t EXCEPT !.run = seen]
  <2>1. a \in Chat!Tab /\ a.run = seen
    BY <1>2 DEF Chat!Tab
  <2>2. [a EXCEPT !.run.settling = TRUE] = [a EXCEPT !.run = ended]
    BY <2>1
  <2>3. EndedTab(t) = [a EXCEPT !.run.settling = TRUE]
    BY DEF EndedTab
  <2>4. [a EXCEPT !.run = ended] = [t EXCEPT !.run = ended]
    OBVIOUS
  <2>. QED BY <2>2, <2>3, <2>4
<1>. HIDE DEF seen
<1>5. ended \in Chat!Run /\ ended.of = s
  BY <1>2 DEF Chat!Run
<1>. HIDE DEF ended
<1>6. CASE r = SeenTab(t)
  BY <1>2, <1>3, <1>6 DEF Chat!Tab
<1>7. CASE r = EndedTab(t) /\ r # SeenTab(t)
  BY <1>4, <1>5, <1>7 DEF Chat!Tab
<1>. QED BY <1>6, <1>7

LEMMA ToldEventKeeps ==
  ASSUME ChatInv, Marks, NEW s \in Chat!Sends, Chat!ToldEvent(s)
  PROVE  Steady
<1>. DEFINE r == SeenTab(x1)
<1>1. /\ x1 \in Chat!Tab /\ x1.run.of = s /\ x1' = r /\ UNCHANGED <<x2, x3, x4, x5, x6>>
      /\ x5' \in BOOLEAN /\ x6' \in BOOLEAN
  BY DEF Chat!ToldEvent, Chat!Others, SeenTab, ChatInv, Chat!TypeOK
<1>2. r = SeenTab(x1)
  OBVIOUS
<1>. HIDE DEF r
<1>3. /\ r \in Chat!Tab /\ r.run.of = s /\ r.run.settling = x1.run.settling
      /\ r.sending = x1.sending /\ r.accepted = x1.accepted /\ r.settled = x1.settled
      /\ r.local = x1.local /\ r.cancel = x1.cancel /\ r.timers = x1.timers /\ r.step = x1.step
      /\ r.req = x1.req /\ r.load = x1.load
  BY <1>1, <1>2, MarkedIs
<1>. QED BY <1>1, <1>3, IdleKeeps

LEMMA ToldEndKeeps ==
  ASSUME ChatInv, Marks, NEW s \in Chat!Sends, Chat!ToldEnd(s)
  PROVE  Steady
<1>1. /\ x1 \in Chat!Tab /\ x2[s] = 2 /\ x3' = [x3 EXCEPT ![s] = 2] /\ UNCHANGED <<x2, x4, x5, x6>>
      /\ x1' = IF x1.run.of # s THEN x1 ELSE EndedTab(x1)
  BY DEF Chat!ToldEnd, EndedTab, ChatInv, Chat!TypeOK
<1>2. /\ x1' \in Chat!Tab /\ x1'.run.of = x1.run.of
      /\ x1'.run.settling => x1.run.settling \/ x1.run.of = s
      /\ x1'.sending = x1.sending /\ x1'.accepted = x1.accepted /\ x1'.settled = x1.settled
      /\ x1'.local = x1.local /\ x1'.cancel = x1.cancel /\ x1'.timers = x1.timers
      /\ x1'.step = x1.step /\ x1'.req = x1.req /\ x1'.load = x1.load
  <2>1. CASE x1.run.of # s
    BY <1>1, <2>1
  <2>2. CASE x1.run.of = s
    <3>. DEFINE r == EndedTab(x1)
    <3>1. r = EndedTab(x1) /\ x1' = r
      BY <1>1, <2>2
    <3>. HIDE DEF r
    <3>2. /\ r \in Chat!Tab /\ r.run.of = s
          /\ r.sending = x1.sending /\ r.accepted = x1.accepted /\ r.settled = x1.settled
          /\ r.local = x1.local /\ r.cancel = x1.cancel /\ r.timers = x1.timers
          /\ r.step = x1.step /\ r.req = x1.req /\ r.load = x1.load
      BY <1>1, <2>2, <3>1, MarkedIs
    <3>. QED BY <2>2, <3>1, <3>2
  <2>. QED BY <2>1, <2>2
<1>3. Chat!TypeOK'
  <2>1. x3' \in [Chat!Sends -> 0..2] /\ x7' \in BOOLEAN
    BY <1>1, MarksType DEF ChatInv, Chat!TypeOK
  <2>. QED BY <1>1, <1>2, <2>1 DEF ChatInv, Chat!TypeOK
<1>4. Timed'
  BY <1>2 DEF ChatInv, Timed
<1>5. HeardRight'
  <2>1. \A q \in Chat!Sends : x3'[q] <= x2'[q]
    BY <1>1 DEF ChatInv, HeardRight, Chat!TypeOK
  <2>2. Chat!Stored' = Chat!Stored
    BY <1>1 DEF Chat!Stored
  <2>3. x1'.run.settling => x2'[x1'.run.of] = 2
    BY <1>1, <1>2 DEF ChatInv, HeardRight
  <2>. QED BY <1>1, <1>2, <2>1, <2>2, <2>3 DEF ChatInv, HeardRight
<1>6. OneCall'
  BY <1>2, SameCalls DEF ChatInv
<1>. QED BY <1>2, <1>3, <1>4, <1>5, <1>6, RunStays DEF Steady

LEMMA ToldFinalKeeps ==
  ASSUME ChatInv, Marks, NEW s \in Chat!Sends, Chat!ToldFinal(s)
  PROVE  Steady
<1>. DEFINE t == [x1 EXCEPT !.req[s] = "none"]
            a == [t EXCEPT !.cancel = Chat!None]
            b == Chat!ClearTimer(a)
            c == Chat!Quiet(b)
            d == Chat!SilentLoad(c)
            next0 == IF t.load.on THEN "reused" ELSE "recon"
<1>1. /\ x1 \in Chat!Tab /\ x1.step \in [Chat!Sends -> Steps0]
      /\ x5 = TRUE /\ x1.req[s] = "acked" /\ x3[s] = 2 /\ UNCHANGED <<x2, x3, x4, x5, x6>>
      /\ x5' \in BOOLEAN /\ x6' \in BOOLEAN
  BY TabType DEF ChatInv, Chat!TypeOK, Chat!ToldFinal, Chat!Others
<1>2. x1' = IF t.step[s] # "asked" THEN t ELSE [d EXCEPT !.step[s] = next0]
  BY DEF Chat!ToldFinal
<1>3. /\ t \in Chat!Tab /\ t.sending = x1.sending /\ t.accepted = x1.accepted
      /\ t.settled = x1.settled /\ t.run = x1.run /\ t.load = x1.load /\ t.local = x1.local
      /\ t.step = x1.step /\ t.timers = x1.timers /\ t.cancel = x1.cancel
      /\ \A q \in Chat!Sends : t.req[q] = "acked" => x1.req[q] = "acked"
  BY <1>1, RequestGone
<1>. HIDE DEF t
<1>4. CASE x1.step[s] # "asked"
  <2>1. x1' = t
    BY <1>2, <1>3, <1>4
  <2>. QED BY <1>1, <1>3, <2>1, IdleKeeps
<1>5. CASE x1.step[s] = "asked"
  <2>1. x1' = [d EXCEPT !.step[s] = next0]
    BY <1>2, <1>3, <1>5
  <2>2. next0 \in {"reused", "recon"} /\ (next0 = "recon" => ~x1.load.on)
    BY <1>3
  <2>3. /\ a \in Chat!Tab /\ a.run = x1.run /\ a.load = x1.load /\ a.local = x1.local
        /\ a.step = x1.step /\ a.accepted = x1.accepted /\ a.settled = x1.settled
    BY <1>3 DEF Chat!Tab
  <2>. HIDE DEF a, next0
  <2>4. /\ b \in Chat!Tab /\ b.run = x1.run /\ b.load = x1.load /\ b.local = x1.local
        /\ b.step = x1.step /\ b.accepted = x1.accepted /\ b.settled = x1.settled
    BY <2>3, ClearTimerIs DEF SameRest
  <2>. HIDE DEF b
  <2>5. /\ c \in Chat!Tab /\ c.run = x1.run /\ c.load = x1.load /\ c.local = x1.local
        /\ c.step = x1.step /\ c.accepted = x1.accepted /\ c.settled = x1.settled /\ ~c.sending
    BY <2>4, QuietIs DEF SameRest
  <2>. HIDE DEF c
  <2>6. /\ d \in Chat!Tab /\ d.run = x1.run /\ d.local = x1.local
        /\ d.step = x1.step /\ d.accepted = x1.accepted /\ d.settled = x1.settled /\ ~d.sending
        /\ d.load.on
        /\ d.load = x1.load \/ (~x1.load.on /\ d.load = [on |-> TRUE, from |-> Chat!Stored])
    <3>1. /\ d \in Chat!Tab /\ SameRest(c, d) /\ d.local = c.local /\ d.step = c.step
          /\ d.sending = c.sending /\ SameOrNewLoad(c, d) /\ d.load.on
      BY <1>1, <2>5, SilentLoadIs
    <3>. HIDE DEF d
    <3>. QED BY <2>5, <3>1 DEF SameRest, SameOrNewLoad
  <2>. HIDE DEF d
  <2>7. /\ x1' \in Chat!Tab /\ x1'.run = x1.run /\ x1'.local = x1.local
        /\ x1'.step = [x1.step EXCEPT ![s] = next0] /\ x1'.accepted = x1.accepted /\ ~x1'.sending
        /\ x1'.load = d.load
    BY <2>1, <2>2, <2>6 DEF Chat!Tab
  <2>8. Chat!TypeOK'
    BY <1>1, <2>7, MarksType DEF ChatInv, Chat!TypeOK
  <2>9. Timed'
    BY <2>7 DEF Timed
  <2>10. HeardRight'
    <3>1. x2[s] = 2
      BY <1>1 DEF ChatInv, HeardRight, Chat!TypeOK
    <3>2. s \in Chat!Stored /\ Chat!Stored' = Chat!Stored
      BY <1>1, <3>1 DEF Chat!Stored
    <3>3. x1'.load.from \subseteq Chat!Stored
      BY <2>6, <2>7 DEF ChatInv, HeardRight
    <3>4. ASSUME NEW q \in Chat!Sends, x1'.step[q] = "recon"
          PROVE  x2[q] = 2 /\ q \in x1'.load.from
      <4>1. CASE q = s
        <5>1. next0 = "recon"
          BY <1>1, <2>7, <3>4, <4>1
        <5>2. x1'.load = [on |-> TRUE, from |-> Chat!Stored]
          BY <2>2, <2>6, <2>7, <5>1
        <5>. QED BY <3>1, <3>2, <4>1, <5>2
      <4>2. CASE q # s
        <5>1. x1.step[q] = "recon"
          BY <1>1, <2>7, <3>4, <4>2
        <5>2. x2[q] = 2 /\ (x1.load.on => q \in x1.load.from) /\ q \in Chat!Stored
          BY <5>1 DEF ChatInv, HeardRight, Chat!Stored
        <5>3. CASE d.load = x1.load
          BY <2>6, <2>7, <5>2, <5>3
        <5>4. CASE d.load = [on |-> TRUE, from |-> Chat!Stored]
          BY <2>7, <5>2, <5>4
        <5>. QED BY <2>6, <5>3, <5>4
      <4>. QED BY <4>1, <4>2
    <3>5. \A q \in Chat!Sends : x3'[q] <= x2'[q]
      BY <1>1 DEF ChatInv, HeardRight
    <3>6. x1'.run.settling => x2'[x1'.run.of] = 2
      BY <1>1, <2>7 DEF ChatInv, HeardRight
    <3>. QED BY <1>1, <3>2, <3>3, <3>4, <3>5, <3>6 DEF HeardRight
  <2>11. OneCall'
    <3> SUFFICES ASSUME ~x7' PROVE OneCall'
      BY DEF OneCall
    <3>1. ~x7 /\ Calls(s) /\ OneCall
      BY <1>5 DEF Marks, Calls, ChatInv
    <3>2. x1.accepted /\ x1.local = {}
      BY <1>1, <1>5, <3>1 DEF OneCall
    <3>3. ~Calls(s)' /\ \A q \in Chat!Sends \ {s} : x1'.step[q] = x1.step[q]
      BY <1>1, <2>2, <2>7 DEF Calls
    <3>. QED BY <2>7, <3>1, <3>2, <3>3, CallOver
  <2>. QED BY <2>7, <2>8, <2>9, <2>10, <2>11, RunStays DEF Steady
<1>. QED BY <1>4, <1>5

-----------------------------------------------------------------------------
(* A chat: loads and timers *)

\* A load strips the run of its optimistic messages, and of nothing else.
LEMMA StrippedIs ==
  ASSUME NEW t \in Chat!Tab
  PROVE  LET r == Chat!StripLocalUserMsgs(t)
         IN  /\ r \in Chat!Tab
             /\ r.sending = t.sending /\ r.accepted = t.accepted /\ r.settled = t.settled
             /\ r.local = t.local /\ r.cancel = t.cancel /\ r.timers = t.timers
             /\ r.step = t.step /\ r.req = t.req /\ r.load = t.load /\ r.shown = t.shown
             /\ r.run.of = t.run.of /\ r.run.settling = t.run.settling
             /\ t.run = Chat!NoRun => r.run = Chat!NoRun
<1>. DEFINE r == Chat!StripLocalUserMsgs(t)
            run == [t.run EXCEPT !.msgs = {}]
<1>1. r = IF t.run # Chat!NoRun THEN [t EXCEPT !.run.msgs = {}] ELSE t
  BY DEF Chat!StripLocalUserMsgs
<1>. HIDE DEF r
<1>2. CASE t.run = Chat!NoRun
  BY <1>1, <1>2 DEF r
<1>3. CASE t.run # Chat!NoRun
  <2>1. t.run \in Chat!Run
    BY <1>3, TabType
  <2>2. run \in Chat!Run /\ run.of = t.run.of /\ run.settling = t.run.settling
    BY <2>1 DEF Chat!Run
  <2>3. r = [t EXCEPT !.run = run]
    BY <1>1, <1>3 DEF Chat!Tab
  <2>. HIDE DEF run
  <2>4. /\ r \in Chat!Tab
        /\ r.sending = t.sending /\ r.accepted = t.accepted /\ r.settled = t.settled
        /\ r.local = t.local /\ r.cancel = t.cancel /\ r.timers = t.timers
        /\ r.step = t.step /\ r.req = t.req /\ r.load = t.load /\ r.shown = t.shown
        /\ r.run = run
    BY <2>2, <2>3 DEF Chat!Tab
  <2>. QED BY <1>3, <2>2, <2>4 DEF r
<1>. QED BY <1>2, <1>3

\* What a load does of the run: it is let go of when it was ended, or when the
\* chat does not send and something complete was found.
LEMMA ReconciledIs ==
  ASSUME NEW t \in Chat!Tab, NEW content \in SUBSET Chat!Sends, NEW stale \in BOOLEAN
  PROVE  LET r == Chat!Reconciled(t, content, stale)
         IN  /\ r \in Chat!Tab
             /\ r.sending = t.sending /\ r.accepted = t.accepted /\ r.settled = t.settled
             /\ r.local = t.local /\ r.cancel = t.cancel /\ r.timers = t.timers
             /\ r.step = t.step /\ r.req = t.req /\ r.load = t.load /\ r.shown = t.shown
             /\ \/ r.run.of = t.run.of /\ r.run.settling = t.run.settling
                \/ r.run = Chat!NoRun /\ (t.run.settling \/ (~t.sending /\ content # {}))
<1>. DEFINE v == Chat!CompleteSettle(t)
            u == Chat!StripLocalUserMsgs(v)
            r == Chat!Reconciled(t, content, stale)
            Rest(w) == /\ w \in Chat!Tab
                       /\ w.sending = t.sending /\ w.accepted = t.accepted /\ w.settled = t.settled
                       /\ w.local = t.local /\ w.cancel = t.cancel /\ w.timers = t.timers
                       /\ w.step = t.step /\ w.req = t.req /\ w.load = t.load /\ w.shown = t.shown
<1>1. Rest(v) /\ (v.run = t.run \/ (v.run = Chat!NoRun /\ t.run.settling))
  BY DEF Chat!CompleteSettle, Chat!SettleRun, Chat!Tab
<1>2. u = Chat!StripLocalUserMsgs(v)
  OBVIOUS
<1>3. r = IF u.sending THEN u ELSE Chat!ReconcileAfterLoad(u, content, stale)
  BY DEF Chat!Reconciled
<1>. HIDE DEF v, u, r
<1>4. /\ Rest(u)
      /\ u.run.of = v.run.of /\ u.run.settling = v.run.settling
      /\ v.run = Chat!NoRun => u.run = Chat!NoRun
  BY <1>1, <1>2, StrippedIs
<1>5. Rest(r) /\ (r.run = u.run \/ (r.run = Chat!NoRun /\ ~u.sending /\ content # {}))
  BY <1>3, <1>4 DEF Chat!ReconcileAfterLoad, Chat!LooksDone, Chat!SettleRun, Chat!Tab
<1>6. \/ r.run.of = t.run.of /\ r.run.settling = t.run.settling
      \/ r.run = Chat!NoRun /\ (t.run.settling \/ (~t.sending /\ content # {}))
  BY <1>1, <1>4, <1>5
<1>. QED BY <1>5, <1>6 DEF r

LEMMA LoadFailsKeeps == ASSUME ChatInv, Marks, Chat!LoadFails PROVE Steady
<1>. DEFINE r == Chat!LoadEnds(x1)
<1>1. /\ x1 \in Chat!Tab /\ x1' = r /\ UNCHANGED <<x2, x3, x4, x5, x6>>
      /\ x5' \in BOOLEAN /\ x6' \in BOOLEAN
  BY DEF Chat!LoadFails, Chat!Others, ChatInv, Chat!TypeOK
<1>2. /\ r \in Chat!Tab /\ r.run = x1.run
      /\ r.sending = x1.sending /\ r.accepted = x1.accepted /\ r.settled = x1.settled
      /\ r.local = x1.local /\ r.cancel = x1.cancel /\ r.timers = x1.timers
      /\ r.req = x1.req /\ r.load = Chat!Idle
      /\ \A s \in Chat!Sends : \/ r.step[s] = x1.step[s]
                               \/ x1.step[s] \in {"recon", "reused"} /\ r.step[s] = "done"
  BY <1>1, LoadEndsIs
<1>. HIDE DEF r
<1>. QED BY <1>1, <1>2, IdleKeeps

\* What a load that is answered brings, and to which run.
LEMMA AnsweredIs ==
  ASSUME ChatInv, Chat!LoadAnswered
  PROVE  \E content \in {x1.load.from, Chat!Stored} :
            /\ x1' \in Chat!Tab /\ content \in SUBSET Chat!Sends
            /\ x1'.sending = x1.sending /\ x1'.accepted = x1.accepted /\ x1'.settled = x1.settled
            /\ x1'.local = x1.local /\ x1'.cancel = x1.cancel /\ x1'.timers = x1.timers
            /\ x1'.req = x1.req /\ x1'.load = Chat!Idle /\ x1'.shown = content
            /\ \A s \in Chat!Sends : \/ x1'.step[s] = x1.step[s]
                                     \/ x1.step[s] \in {"recon", "reused"} /\ x1'.step[s] = "done"
            /\ \/ x1'.run.of = x1.run.of /\ x1'.run.settling = x1.run.settling
               \/ x1'.run = Chat!NoRun /\ (x1.run.settling \/ (~x1.sending /\ content # {}))
<1>1. x1 \in Chat!Tab
  BY DEF ChatInv, Chat!TypeOK
<1>2. PICK content \in {x1.load.from, Chat!Stored}, stale \in BOOLEAN :
         x1' = Chat!Reconciled(Chat!LoadEnds(Chat!Replace(x1, content)), content, stale)
  BY DEF Chat!LoadAnswered
<1>3. content \in SUBSET Chat!Sends
  BY <1>1, TabType DEF Chat!Stored
<1>. DEFINE a == Chat!Replace(x1, content)
            b == Chat!LoadEnds(a)
<1>4. /\ a \in Chat!Tab /\ a.run = x1.run
      /\ a.sending = x1.sending /\ a.accepted = x1.accepted /\ a.settled = x1.settled
      /\ a.local = x1.local /\ a.cancel = x1.cancel /\ a.timers = x1.timers
      /\ a.req = x1.req /\ a.shown = content /\ a.step = x1.step
  BY <1>1, <1>3 DEF Chat!Replace, Chat!Tab
<1>5. x1' = Chat!Reconciled(b, content, stale)
  BY <1>2
<1>. HIDE DEF a
<1>6. /\ b \in Chat!Tab /\ b.run = a.run
      /\ b.sending = a.sending /\ b.accepted = a.accepted /\ b.settled = a.settled
      /\ b.local = a.local /\ b.cancel = a.cancel /\ b.timers = a.timers
      /\ b.req = a.req /\ b.load = Chat!Idle /\ b.shown = a.shown
      /\ \A s \in Chat!Sends : \/ b.step[s] = a.step[s]
                               \/ a.step[s] \in {"recon", "reused"} /\ b.step[s] = "done"
  BY <1>4, LoadEndsIs
<1>. HIDE DEF b
<1>7. /\ x1' \in Chat!Tab
      /\ x1'.sending = b.sending /\ x1'.accepted = b.accepted /\ x1'.settled = b.settled
      /\ x1'.local = b.local /\ x1'.cancel = b.cancel /\ x1'.timers = b.timers
      /\ x1'.step = b.step /\ x1'.req = b.req /\ x1'.load = b.load /\ x1'.shown = b.shown
      /\ \/ x1'.run.of = b.run.of /\ x1'.run.settling = b.run.settling
         \/ x1'.run = Chat!NoRun /\ (b.run.settling \/ (~b.sending /\ content # {}))
  BY <1>3, <1>5, <1>6, ReconciledIs
<1>. QED BY <1>3, <1>4, <1>6, <1>7

LEMMA LoadAnsweredKeeps == ASSUME ChatInv, Marks, Chat!LoadAnswered PROVE Steady
<1>1. PICK content \in {x1.load.from, Chat!Stored} :
            /\ x1' \in Chat!Tab /\ content \in SUBSET Chat!Sends
            /\ x1'.sending = x1.sending /\ x1'.accepted = x1.accepted /\ x1'.settled = x1.settled
            /\ x1'.local = x1.local /\ x1'.cancel = x1.cancel /\ x1'.timers = x1.timers
            /\ x1'.req = x1.req /\ x1'.load = Chat!Idle /\ x1'.shown = content
            /\ \A s \in Chat!Sends : \/ x1'.step[s] = x1.step[s]
                                     \/ x1.step[s] \in {"recon", "reused"} /\ x1'.step[s] = "done"
            /\ \/ x1'.run.of = x1.run.of /\ x1'.run.settling = x1.run.settling
               \/ x1'.run = Chat!NoRun /\ (x1.run.settling \/ (~x1.sending /\ content # {}))
  BY AnsweredIs
<1>2. UNCHANGED <<x2, x3, x4, x5, x6>> /\ x5' \in BOOLEAN /\ x6' \in BOOLEAN
  BY DEF Chat!LoadAnswered, Chat!Others, ChatInv, Chat!TypeOK
<1>3. CASE x1'.run.of = x1.run.of /\ x1'.run.settling = x1.run.settling
  BY <1>1, <1>2, <1>3, IdleKeeps
<1>4. CASE x1'.run = Chat!NoRun /\ (x1.run.settling \/ (~x1.sending /\ content # {}))
  <2>1. Chat!TypeOK' /\ HeardRight'
    BY <1>1, <1>2, <1>4, MarksType, TabStep
  <2>2. Timed'
    <3>1. \A q \in Chat!Sends : x1.step[q] \in {"upload", "stuck"} => x1'.step[q] = x1.step[q]
      BY <1>1
    <3>2. Timed
      BY DEF ChatInv
    <3>. QED BY <1>1, <3>1, <3>2 DEF Timed
  <2>3. OneCall'
    <3>1. \A s \in Chat!Sends : x1'.step[s] = x1.step[s] \/ (~Calls(s) /\ ~Calls(s)')
      BY <1>1 DEF Calls
    <3>. QED BY <1>1, <3>1, SameCalls DEF ChatInv
  <2>4. content \subseteq Chat!Stored
    BY <1>1 DEF ChatInv, HeardRight
  <2>5. ASSUME NEW s \in Chat!Sends, Chat!LetGo(s)
        PROVE  x2[s] = 2 \/ (Chat!LoadAnswered /\ ~x1.sending /\ x1'.shown \ {s} # {})
    <3>1. x1.run.of = s
      BY <2>5 DEF Chat!LetGo
    <3>2. CASE x1.run.settling
      BY <3>1, <3>2 DEF ChatInv, HeardRight
    <3>3. CASE ~x1.sending /\ content # {}
      <4>1. CASE s \in content
        BY <2>4, <4>1 DEF Chat!Stored
      <4>2. CASE s \notin content
        BY <1>1, <3>3, <4>2
      <4>. QED BY <4>1, <4>2
    <3>. QED BY <1>4, <3>2, <3>3
  <2>6. \A s \in Chat!Sends : x1'.run.of # s
    BY <1>4, SendsAre DEF Chat!NoRun
  <2>7. Chat!KeepsRun
    BY <2>5, <2>6 DEF Chat!KeepsRun
  <2>. QED BY <2>1, <2>2, <2>3, <2>7 DEF Steady
<1>. QED BY <1>1, <1>3, <1>4

\* The load after the final answer brings its result.
LEMMA ResultIsShown == ASSUME ChatInv PROVE Chat!ShowsResult
<1> SUFFICES ASSUME NEW s \in Chat!Sends, x1.step[s] = "recon", Chat!LoadAnswered
             PROVE  s \in x1'.shown
  BY DEF Chat!ShowsResult
<1>1. PICK content \in {x1.load.from, Chat!Stored} : x1'.shown = content
  BY AnsweredIs
<1>2. x2[s] = 2 /\ (x1.load.on => s \in x1.load.from) /\ x1.load.on
  BY DEF ChatInv, HeardRight, Chat!LoadAnswered
<1>3. s \in Chat!Stored
  BY <1>2 DEF Chat!Stored
<1>. QED BY <1>1, <1>2, <1>3

\* The run goes by its own timer, or by what another bot's chat does with its key.
LEMMA RunSettledKeeps ==
  ASSUME ChatInv, Marks, x1' = Chat!SettleRun(x1), Chat!Others, Chat!RunTimeout \/ Chat!OtherChat
  PROVE  Steady
<1>. DEFINE r == Chat!SettleRun(x1)
<1>1. /\ x1 \in Chat!Tab /\ x1' = r /\ UNCHANGED <<x2, x3, x4, x5, x6>>
      /\ x5' \in BOOLEAN /\ x6' \in BOOLEAN
  BY DEF Chat!Others, ChatInv, Chat!TypeOK
<1>2. /\ r \in Chat!Tab /\ r.run = Chat!NoRun
      /\ r.sending = x1.sending /\ r.accepted = x1.accepted /\ r.settled = x1.settled
      /\ r.local = x1.local /\ r.cancel = x1.cancel /\ r.timers = x1.timers
      /\ r.req = x1.req /\ r.load = x1.load /\ r.step = x1.step
  BY <1>1, SettleRunIs DEF Chat!Tab
<1>. HIDE DEF r
<1>3. Chat!TypeOK' /\ HeardRight'
  BY <1>1, <1>2, MarksType, TabStep
<1>4. Timed'
  BY <1>1, <1>2 DEF ChatInv, Timed
<1>5. OneCall'
  BY <1>1, <1>2, SameCalls DEF ChatInv
<1>6. Chat!KeepsRun
  BY <1>1, <1>2, RunGoes
<1>. QED BY <1>3, <1>4, <1>5, <1>6 DEF Steady

LEMMA RunTimeoutKeeps == ASSUME ChatInv, Marks, Chat!RunTimeout PROVE Steady
<1>1. x1' = Chat!SettleRun(x1) /\ Chat!Others
  BY DEF Chat!RunTimeout
<1>. QED BY <1>1, RunSettledKeeps

LEMMA OtherChatKeeps == ASSUME ChatInv, Marks, Chat!OtherChat PROVE Steady
<1>1. /\ x1' = Chat!SettleRun(x1) \/ x1' = Chat!StripLocalUserMsgs(x1)
      /\ Chat!Others
  BY DEF Chat!OtherChat
<1>2. CASE x1' = Chat!SettleRun(x1)
  BY <1>1, <1>2, RunSettledKeeps
<1>3. CASE x1' = Chat!StripLocalUserMsgs(x1)
  <2>1. /\ x1 \in Chat!Tab /\ UNCHANGED <<x2, x3, x4, x5, x6>>
        /\ x5' \in BOOLEAN /\ x6' \in BOOLEAN
    BY <1>1 DEF Chat!Others, ChatInv, Chat!TypeOK
  <2>2. /\ x1' \in Chat!Tab /\ x1'.run.of = x1.run.of /\ x1'.run.settling = x1.run.settling
        /\ x1'.sending = x1.sending /\ x1'.accepted = x1.accepted /\ x1'.settled = x1.settled
        /\ x1'.local = x1.local /\ x1'.cancel = x1.cancel /\ x1'.timers = x1.timers
        /\ x1'.req = x1.req /\ x1'.load = x1.load /\ x1'.step = x1.step
    BY <1>3, <2>1, StrippedIs
  <2>. QED BY <2>1, <2>2, IdleKeeps
<1>. QED BY <1>1, <1>2, <1>3

\* A timer has gone off.
LEMMA ExpiredIs ==
  ASSUME NEW t \in Chat!Tab, NEW m \in Chat!Timer
  PROVE  LET r == Chat!Expired(t, m)
         IN  /\ r \in Chat!Tab /\ SameRest(t, r) /\ r.sending = t.sending
             /\ r.cancel = t.cancel /\ r.local = t.local /\ r.step = t.step
             /\ r.load = t.load /\ r.timers = t.timers \ {m}
  BY DEF Chat!Expired, Chat!Tab, SameRest

\* The timeout of s ends its race, if it is on, and the chat is free by then.
LEMMA RaceKeeps ==
  ASSUME ChatInv, Marks, NEW s \in Chat!Sends, NEW u \in Chat!Tab, x1' = Chat!Race(u, s),
         UNCHANGED <<x2, x3, x4, x5, x6>>, u.sending = FALSE,
         u.accepted = x1.accepted, u.run = x1.run \/ u.run = Chat!NoRun,
         SameOrNewLoad(x1, u), u.step = x1.step,
         u.local = {} \/ u.local = x1.local
  PROVE  /\ Chat!TypeOK' /\ Timed' /\ HeardRight' /\ OneCall'
         /\ x1'.run = u.run
<1>. DEFINE code == "timeout"
<1>1. CASE u.step[s] = "asked"
  <2>1. x1' = Chat!Catch(u, s, code)
    BY <1>1 DEF Chat!Race
  <2>2. x1' \in Chat!Tab /\ CallEnds(u, x1', s, code) /\ code # "channel"
    BY <2>1, CatchEnds
  <2>. HIDE DEF code
  <2>3. /\ x1'.sending = FALSE /\ x1'.run = u.run
        /\ \A q \in Chat!Sends \ {s} : x1'.step[q] = x1.step[q]
        /\ x1'.step[s] \in {"done", "after", "rewait"}
        /\ x1'.local = {} \/ x1'.local = u.local
        /\ x1'.load = u.load \/ x1'.load = [on |-> TRUE, from |-> Chat!Stored]
    <3>1. x1'.sending \in BOOLEAN
      BY <2>2, TabType
    <3>. QED BY <2>2, <3>1 DEF CallEnds, SameRest, SameOrNewLoad
  <2>4. Chat!TypeOK' /\ HeardRight'
    <3>1. \A q \in Chat!Sends : x1'.step[q] = "recon" => x1.step[q] = "recon"
      BY <2>3
    <3>2. x5' \in BOOLEAN /\ x6' \in BOOLEAN /\ x7' \in BOOLEAN
      BY MarksType DEF ChatInv, Chat!TypeOK
    <3>3. x1'.load = x1.load \/ x1'.load = [on |-> TRUE, from |-> Chat!Stored]
      BY <2>3 DEF SameOrNewLoad
    <3>. QED BY <2>2, <2>3, <3>1, <3>2, <3>3, TabStep
  <2>5. Timed'
    BY <2>3 DEF Timed
  <2>6. OneCall'
    <3>1. CASE x7
      BY <3>1 DEF Marks, OneCall
    <3>2. CASE ~x7
      <4>1. Calls(s) /\ ~Calls(s)'
        BY <1>1, <2>3 DEF Calls
      <4>2. x1'.local = {}
        <5>1. x1'.local = {} \/ u.accepted
          BY <2>2 DEF CallEnds
        <5>2. u.accepted => x1.local = {}
          BY <3>2 DEF ChatInv, OneCall
        <5>. QED BY <2>3, <5>1, <5>2
      <4>. QED BY <2>3, <3>2, <4>1, <4>2, CallOver DEF ChatInv
    <3>. QED BY <3>1, <3>2 DEF ChatInv, Chat!TypeOK
  <2>. QED BY <2>3, <2>4, <2>5, <2>6
<1>2. CASE u.step[s] # "asked"
  <2>1. x1' = u
    BY <1>2 DEF Chat!Race
  <2>2. x1'.load = x1.load \/ x1'.load = [on |-> TRUE, from |-> Chat!Stored]
    BY <2>1 DEF SameOrNewLoad
  <2>. QED BY <2>1, <2>2, FreeKeeps
<1>. QED BY <1>1, <1>2

LEMMA PreTimeoutKeeps ==
  ASSUME ChatInv, Marks, NEW s \in Chat!Sends, Chat!PreTimeout(s)
  PROVE  Steady
<1>. DEFINE m == [of |-> s, post |-> FALSE]
            t == Chat!Expired(x1, m)
<1>1. /\ x1 \in Chat!Tab /\ m \in Chat!Timer /\ m.post = FALSE
      /\ x5' \in BOOLEAN /\ x6' \in BOOLEAN /\ UNCHANGED <<x2, x3, x4, x5, x6>>
  BY DEF ChatInv, Chat!TypeOK, Chat!PreTimeout, Chat!Others, Chat!Timer
<1>2. x1' = IF t.accepted THEN t
            ELSE Chat!Race([Chat!Quiet(Chat!CleanupStreaming(t)) EXCEPT !.settled = TRUE], s)
  BY DEF Chat!PreTimeout
<1>. HIDE DEF m
<1>3. /\ t \in Chat!Tab /\ SameRest(x1, t) /\ t.sending = x1.sending
      /\ t.cancel = x1.cancel /\ t.local = x1.local /\ t.step = x1.step
      /\ t.load = x1.load /\ t.timers = x1.timers \ {m}
  BY <1>1, ExpiredIs
<1>. HIDE DEF t
<1>4. CASE t.accepted
  <2>1. /\ x1' \in Chat!Tab /\ SameRest(x1, x1') /\ x1'.sending = x1.sending
        /\ x1'.cancel = x1.cancel /\ x1'.local = x1.local /\ x1'.step = x1.step
        /\ x1'.load = x1.load /\ x1'.timers = x1.timers \ {m}
    BY <1>2, <1>3, <1>4
  <2>2. Chat!TypeOK' /\ HeardRight'
    BY <1>1, <2>1, MarksType, TabStep DEF SameRest
  <2>3. Timed'
    <3>1. SUFFICES ASSUME x1.sending PROVE \E k \in x1'.timers : k.post
      BY <1>3, <1>4, <2>1 DEF Timed, SameRest
    <3>2. PICK k \in x1.timers : k.post
      BY <1>3, <1>4, <3>1 DEF ChatInv, Timed, SameRest
    <3>. QED BY <1>1, <2>1, <3>2
  <2>4. OneCall'
    BY <1>1, <2>1, SameCalls DEF ChatInv, SameRest
  <2>5. Chat!KeepsRun
    BY <2>1, RunStays DEF SameRest
  <2>. QED BY <2>2, <2>3, <2>4, <2>5 DEF Steady
<1>5. CASE ~t.accepted
  <2>. DEFINE c == Chat!ClearTimer(t)
              n == Chat!NoLocal(c)
              q == Chat!Quiet(n)
              u == [q EXCEPT !.settled = TRUE]
  <2>1. x1' = Chat!Race(u, s)
    BY <1>2, <1>5 DEF Chat!CleanupStreaming
  <2>2. c \in Chat!Tab /\ SameRest(t, c) /\ c.step = t.step /\ c.load = t.load
    BY <1>3, ClearTimerIs
  <2>. HIDE DEF c
  <2>3. n \in Chat!Tab /\ SameRest(c, n) /\ n.step = c.step /\ n.load = c.load /\ n.local = {}
    BY <2>2, NoLocalIs
  <2>. HIDE DEF n
  <2>4. /\ q \in Chat!Tab /\ SameRest(n, q) /\ q.step = n.step /\ q.load = n.load /\ q.local = {}
        /\ q.sending = FALSE
    <3>1. q \in Chat!Tab /\ SameRest(n, q) /\ q.step = n.step /\ q.load = n.load /\ q.local = n.local
          /\ ~q.sending
      BY <2>3, QuietIs
    <3>2. q.sending \in BOOLEAN
      BY <3>1, TabType
    <3>. QED BY <2>3, <3>1, <3>2
  <2>. HIDE DEF q
  <2>5. /\ u \in Chat!Tab /\ u.accepted = q.accepted /\ u.run = q.run /\ u.step = q.step
        /\ u.load = q.load /\ u.local = {} /\ u.sending = FALSE
    BY <2>4 DEF Chat!Tab
  <2>. HIDE DEF u
  <2>6. /\ u.accepted = x1.accepted /\ u.run = x1.run /\ u.step = x1.step /\ SameOrNewLoad(x1, u)
    BY <1>3, <2>2, <2>3, <2>4, <2>5 DEF SameRest, SameOrNewLoad
  <2>7. /\ Chat!TypeOK' /\ Timed' /\ HeardRight' /\ OneCall'
        /\ x1'.run = u.run
    BY <1>1, <2>1, <2>5, <2>6, RaceKeeps
  <2>8. Chat!KeepsRun
    BY <2>6, <2>7, RunStays
  <2>. QED BY <2>7, <2>8 DEF Steady
<1>6. t.accepted \in BOOLEAN
  BY <1>3, TabType
<1>. QED BY <1>4, <1>5, <1>6

LEMMA PostTimeoutKeeps ==
  ASSUME ChatInv, Marks, NEW s \in Chat!Sends, Chat!PostTimeout(s)
  PROVE  Steady
<1>. DEFINE m == [of |-> s, post |-> TRUE]
            t == Chat!Expired(x1, m)
            q == Chat!Quiet(t)
            d == Chat!SettleRun(q)
            e == [d EXCEPT !.settled = TRUE]
            u == Chat!SilentLoad(e)
<1>1. /\ x1 \in Chat!Tab /\ m \in Chat!Timer
      /\ UNCHANGED <<x2, x3, x4, x5, x6>> /\ x1' = Chat!Race(u, s)
  BY DEF ChatInv, Chat!TypeOK, Chat!PostTimeout, Chat!Others, Chat!Timer
<1>. HIDE DEF m
<1>2. /\ t \in Chat!Tab /\ SameRest(x1, t) /\ t.local = x1.local /\ t.step = x1.step
      /\ t.load = x1.load
  BY <1>1, ExpiredIs
<1>. HIDE DEF t
<1>3. /\ q \in Chat!Tab /\ SameRest(t, q) /\ q.step = t.step /\ q.load = t.load
      /\ q.local = t.local /\ q.sending = FALSE
  <2>1. /\ q \in Chat!Tab /\ SameRest(t, q) /\ q.step = t.step /\ q.load = t.load
        /\ q.local = t.local /\ ~q.sending
    BY <1>2, QuietIs
  <2>2. q.sending \in BOOLEAN
    BY <2>1, TabType
  <2>. QED BY <2>1, <2>2
<1>. HIDE DEF q
<1>4. d \in Chat!Tab /\ d = [q EXCEPT !.run = Chat!NoRun]
  BY <1>3, SettleRunIs
<1>5. /\ d.run = Chat!NoRun /\ d.accepted = q.accepted /\ d.step = q.step /\ d.load = q.load
      /\ d.local = q.local /\ d.sending = FALSE
  BY <1>3, <1>4 DEF Chat!Tab
<1>. HIDE DEF d
<1>6. /\ e \in Chat!Tab /\ e.run = Chat!NoRun /\ e.accepted = d.accepted /\ e.step = d.step
      /\ e.load = d.load /\ e.local = d.local /\ e.sending = FALSE
  BY <1>4, <1>5 DEF Chat!Tab
<1>. HIDE DEF e
<1>7. /\ u \in Chat!Tab /\ SameRest(e, u) /\ u.sending = e.sending /\ u.local = e.local
      /\ u.step = e.step /\ SameOrNewLoad(e, u)
  BY <1>6, SilentLoadIs
<1>. HIDE DEF u
<1>8. /\ u.sending = FALSE /\ u.accepted = x1.accepted /\ u.run = Chat!NoRun
      /\ SameOrNewLoad(x1, u) /\ u.step = x1.step /\ u.local = x1.local
  BY <1>2, <1>3, <1>5, <1>6, <1>7 DEF SameRest, SameOrNewLoad
<1>9. /\ Chat!TypeOK' /\ Timed' /\ HeardRight' /\ OneCall'
      /\ x1'.run = Chat!NoRun
  BY <1>1, <1>7, <1>8, RaceKeeps
<1>10. \A q0 \in Chat!Sends : x1'.run.of # q0
  BY <1>9, SendsAre DEF Chat!NoRun
<1>11. Chat!KeepsRun
  BY <1>10 DEF Chat!KeepsRun
<1>. QED BY <1>9, <1>11 DEF Steady

-----------------------------------------------------------------------------
(* A chat: every step *)

LEMMA ChatStep ==
  ASSUME ChatInv, Chat!Next
  PROVE  ChatInv' /\ Chat!KeepsRun /\ Chat!ShowsResult
<1>1. Marks /\ Chat!Steps
  BY DEF Chat!Next, Marks
<1>2. ASSUME NEW s \in Chat!Sends, Chat!RequestFails(s, "lost") \/ Chat!RequestFails(s, "channel")
      PROVE  Steady
  BY <1>1, <1>2, RequestFailsKeeps
<1>3. ASSUME \/ Chat!CancelSend \/ Chat!Leave \/ Chat!Enter \/ Chat!Refresh
             \/ Chat!ChannelLost \/ Chat!ChannelReady
             \/ Chat!LoadAnswered \/ Chat!LoadFails \/ Chat!RunTimeout
             \/ Chat!BotRemoved \/ Chat!OtherChat
      PROVE  Steady
  BY <1>1, <1>3, CancelSendKeeps, LeaveKeeps, PageKeeps, ChannelLostKeeps, ChannelReadyKeeps,
     LoadAnsweredKeeps, LoadFailsKeeps, RunTimeoutKeeps, BotRemovedKeeps, OtherChatKeeps
<1>4. ASSUME NEW s \in Chat!Sends,
             \/ Chat!Send(s) \/ Chat!SendFiles(s) \/ Chat!SendUnreadable(s)
             \/ Chat!Uploaded(s) \/ Chat!UploadFails(s)
             \/ Chat!Retry(s) \/ Chat!Reconnected(s) \/ Chat!WaitFails(s)
      PROVE  Steady
  BY <1>1, <1>4, SendKeeps, SendFilesKeeps, SendUnreadableKeeps, UploadedKeeps, UploadFailsKeeps,
     RetryKeeps, ReconnectedKeeps, WaitFailsKeeps
<1>5. ASSUME NEW s \in Chat!Sends,
             \/ Chat!Accepts(s) \/ Chat!Ends(s) \/ Chat!Refused(s)
             \/ Chat!ToldAccepted(s) \/ Chat!ToldEvent(s) \/ Chat!ToldEnd(s) \/ Chat!ToldFinal(s)
             \/ Chat!PreTimeout(s) \/ Chat!PostTimeout(s)
      PROVE  Steady
  BY <1>1, <1>5, AgentKeeps, RefusedKeeps, ToldAcceptedKeeps, ToldEventKeeps, ToldEndKeeps,
     ToldFinalKeeps, PreTimeoutKeeps, PostTimeoutKeeps
<1>6. Steady
  BY <1>1, <1>2, <1>3, <1>4, <1>5 DEF Chat!Steps
<1>7. Chat!ShowsResult
  BY ResultIsShown
<1>. QED BY <1>6, <1>7 DEF Steady, ChatInv
-----------------------------------------------------------------------------
(* Recording: hold-to-speak *)

\* A recording that is being started has no timer and is not recording yet, the
\* timer runs as long as a finger is followed, and the microphone of an overlay
\* that is there is its own recorder's.
Held ==
    /\ x2 # "idle" => ~x6.recording /\ ~x6.stopping /\ ~x8
    /\ x6.stopping => ~x6.listening
    /\ x8 => x6.recording /\ x3 # Touch!NoFinger
    /\ x1 /\ x2 = "starting" => x6.record
    /\ x1 /\ x9 => x6.record
    /\ x1 /\ x2 # "idle" => ~x9
    /\ x6.stopping /\ x6.record /\ ~x7 /\ x3 = Touch!NoFinger => x5 # "out"

TouchInv == Touch!TypeOK /\ Held

LEMMA TouchInit == ASSUME Touch!Init PROVE TouchInv
  BY DEF Touch!Init, TouchInv, Touch!TypeOK, Held, Touch!Fresh, Touch!NoFinger, Touch!Places, Touch!Fingers

LEMMA OpenTouchKeeps ==
  ASSUME TouchInv, NEW f \in Touch!Fingers, Touch!Open(f) PROVE TouchInv' /\ Touch!SpeaksOrDrops
  BY DEF TouchInv, Touch!TypeOK, Held, Touch!Open, Touch!Fresh, Touch!NoFinger, Touch!Places,
         Touch!Fingers, Touch!SpeaksOrDrops

LEMMA UnmountTouchKeeps == ASSUME TouchInv, Touch!Unmount PROVE TouchInv' /\ Touch!SpeaksOrDrops
  BY DEF TouchInv, Touch!TypeOK, Held, Touch!Unmount, Touch!DropRecord, Touch!NoFinger, Touch!SpeaksOrDrops

LEMMA AbortsTouchKeeps == ASSUME TouchInv, Touch!Aborts PROVE TouchInv' /\ Touch!SpeaksOrDrops
  BY DEF TouchInv, Touch!TypeOK, Held, Touch!Aborts, Touch!Emit, Touch!NoFinger, Touch!SpeaksOrDrops

LEMMA PermittedTouchKeeps == ASSUME TouchInv, Touch!Permitted PROVE TouchInv' /\ Touch!SpeaksOrDrops
  BY DEF TouchInv, Touch!TypeOK, Held, Touch!Permitted, Touch!NoFinger, Touch!SpeaksOrDrops

\* What stopRecording leaves of the flags.
LEMMA StoppingIs ==
  ASSUME TouchInv
  PROVE  /\ Touch!Stopping \in [recording : BOOLEAN, stopping : BOOLEAN, record : BOOLEAN, listening : BOOLEAN]
         /\ Touch!Stopping.recording = TRUE /\ Touch!Stopping.listening = FALSE
         /\ Touch!Stopping.stopping = x6.record /\ Touch!Stopping.record = x6.record
  BY DEF TouchInv, Touch!TypeOK, Touch!Stopping

LEMMA StartedTouchKeeps == ASSUME TouchInv, Touch!Started PROVE TouchInv' /\ Touch!SpeaksOrDrops
  BY StoppingIs DEF TouchInv, Touch!TypeOK, Held, Touch!Started, Touch!Stop, Touch!Emit, Touch!NoFinger,
         Touch!SpeaksOrDrops

LEMMA StartFailsTouchKeeps == ASSUME TouchInv, Touch!StartFails PROVE TouchInv' /\ Touch!SpeaksOrDrops
  BY DEF TouchInv, Touch!TypeOK, Held, Touch!StartFails, Touch!Emit, Touch!NoFinger, Touch!SpeaksOrDrops

LEMMA TimeoutTouchKeeps == ASSUME TouchInv, Touch!Timeout PROVE TouchInv' /\ Touch!SpeaksOrDrops
  BY StoppingIs DEF TouchInv, Touch!TypeOK, Held, Touch!Timeout, Touch!Stop, Touch!Emit, Touch!NoFinger,
         Touch!SpeaksOrDrops

LEMMA RecordEndTouchKeeps == ASSUME TouchInv, Touch!RecordEnd PROVE TouchInv' /\ Touch!SpeaksOrDrops
  BY DEF TouchInv, Touch!TypeOK, Held, Touch!RecordEnd, Touch!Emit, Touch!NoFinger, Touch!SpeaksOrDrops

\* A finger comes, moves, or is taken away by the system.
LEMMA FingerKeeps ==
  ASSUME TouchInv, NEW f \in Touch!Fingers, NEW p \in Touch!Places,
         Touch!Touch(f, p) \/ Touch!Move(p) \/ Touch!Cancelled(f)
  PROVE  TouchInv' /\ Touch!SpeaksOrDrops
<1>1. f # Touch!NoFinger
  BY DEF Touch!Fingers, Touch!NoFinger
<1>2. /\ UNCHANGED <<x1, x2, x6, x7, x8, x9, x10>>
      /\ x4' \subseteq Touch!Fingers
      /\ \/ x3' = f /\ x5' = p /\ x6.listening
         \/ x3' = x3 /\ x5' = p /\ x6.listening
         \/ UNCHANGED <<x3, x5>>
  <2>1. CASE Touch!Touch(f, p)
    BY <2>1 DEF Touch!Touch, TouchInv, Touch!TypeOK
  <2>2. CASE Touch!Move(p)
    BY <2>2 DEF Touch!Move, TouchInv, Touch!TypeOK
  <2>3. CASE Touch!Cancelled(f)
    BY <2>3 DEF Touch!Cancelled, TouchInv, Touch!TypeOK
  <2>. QED BY <2>1, <2>2, <2>3
<1>3. Touch!TypeOK'
  BY <1>2 DEF TouchInv, Touch!TypeOK
<1>4. Held'
  BY <1>1, <1>2 DEF TouchInv, Held, Touch!TypeOK
<1>5. Touch!SpeaksOrDrops
  BY <1>2 DEF Touch!SpeaksOrDrops
<1>. QED BY <1>3, <1>4, <1>5 DEF TouchInv

LEMMA ReleaseTouchKeeps ==
  ASSUME TouchInv, NEW f \in Touch!Fingers, NEW p \in Touch!Places, Touch!Release(f, p)
  PROVE  TouchInv' /\ Touch!SpeaksOrDrops
  BY StoppingIs DEF TouchInv, Touch!TypeOK, Held, Touch!Release, Touch!Stop, Touch!Emit, Touch!OutOfZone,
         Touch!NoFinger, Touch!SpeaksOrDrops

LEMMA TouchStep == ASSUME TouchInv, Touch!Next PROVE TouchInv' /\ Touch!SpeaksOrDrops
<1>1. CASE \/ Touch!Unmount \/ Touch!Aborts \/ Touch!Permitted \/ Touch!Started \/ Touch!StartFails
           \/ Touch!Timeout \/ Touch!RecordEnd
  BY <1>1, UnmountTouchKeeps, AbortsTouchKeeps, PermittedTouchKeeps, StartedTouchKeeps,
     StartFailsTouchKeeps, TimeoutTouchKeeps, RecordEndTouchKeeps
<1>2. ASSUME NEW p \in Touch!Places, Touch!Move(p) PROVE TouchInv' /\ Touch!SpeaksOrDrops
  <2>1. x3 \in Touch!Fingers
    BY <1>2 DEF Touch!Move, TouchInv, Touch!TypeOK
  <2>. QED BY <1>2, <2>1, FingerKeeps
<1>3. ASSUME NEW f \in Touch!Fingers, Touch!Open(f) \/ Touch!Cancelled(f)
      PROVE  TouchInv' /\ Touch!SpeaksOrDrops
  <2>1. "out" \in Touch!Places
    BY DEF Touch!Places
  <2>. QED BY <1>3, <2>1, OpenTouchKeeps, FingerKeeps
<1>4. ASSUME NEW f \in Touch!Fingers, NEW p \in Touch!Places, Touch!Touch(f, p) \/ Touch!Release(f, p)
      PROVE  TouchInv' /\ Touch!SpeaksOrDrops
  BY <1>4, FingerKeeps, ReleaseTouchKeeps
<1>. QED BY <1>1, <1>2, <1>3, <1>4 DEF Touch!Next
-----------------------------------------------------------------------------
(* Recording: a recorder on a desktop *)

\* Where a recorder is and what it has: the microphone from the end of its start
\* on, the timer while it records, an abort that is left for the end of the start.
\* A recording is kept when the recorder has stopped, and then not cancelled.
Recorded(v) ==
    /\ v.flow \in {"new", "perm"} <=> v.status = "IDLE"
    /\ Voice!Starting(v) <=> v.status = "STARTING"
    /\ v.mic => v.flow = "over"
    /\ v.timer => v.status = "RECORDING"
    /\ v.added => v.status = "STOPPED"
    /\ v.cancelled = "STARTING" => v.abort /\ v.status \in {"STARTING", "CANCELED", "FAILED"}
    /\ v.cancelled = "RECORDING" => v.status = "CANCELED"

\* The current recorder is that of an input that is there, and has the record it
\* is going to destroy.
VoiceInv ==
    /\ Voice!TypeOK
    /\ \A r \in Voice!Recorders : Recorded(x4[r])
    /\ x3 # Voice!None =>
         /\ x1 /\ x4[x3].flow # "new"
         /\ Voice!Starting(x4[x3]) \/ x4[x3].mic => x4[x3].record

VoiceRec == [status : Voice!Status, flow : {"new", "perm", "starting", "hinted", "over"},
             record : BOOLEAN, abort : BOOLEAN, timer : BOOLEAN, mic : BOOLEAN, added : BOOLEAN,
             cancelled : Voice!Status \cup {"no"}]

LEMMA VoiceInit == ASSUME Voice!Init PROVE VoiceInv
<1>1. Voice!New \in VoiceRec /\ Recorded(Voice!New)
  BY DEF Voice!New, VoiceRec, Voice!Status, Recorded, Voice!Starting
<1>. QED BY <1>1 DEF Voice!Init, VoiceInv, Voice!TypeOK, VoiceRec, Voice!Status, Voice!None

\* One recorder changes, and with it what the input shows.
LEMMA VoiceChanges ==
  ASSUME VoiceInv, NEW r \in Voice!Recorders, NEW v \in VoiceRec, Recorded(v),
         x4' = [x4 EXCEPT ![r] = v], x2' \in Voice!Status, UNCHANGED <<x1, x3>>,
         r = x3 => v.flow # "new" /\ (Voice!Starting(v) \/ v.mic => v.record),
         v # x4[r] \/ r = x3,
         r = x3 /\ (v.mic \/ (Voice!Starting(v) /\ ~v.abort)) =>
           x2' \in {"STARTING", "RECORDING", "STOPPING"}
  PROVE  VoiceInv' /\ Voice!KeepsVoice
<1>1. VoiceInv'
  BY DEF VoiceInv, Voice!TypeOK, VoiceRec
<1>2. Voice!CancelHolds
  BY <1>1 DEF VoiceInv, Voice!CancelHolds, Recorded, Voice!Starting
<1>3. Voice!HiddenOnlyByFormer
  <2>1. x4[r] # v => x4'[r] # x4[r]
    BY DEF VoiceInv, Voice!TypeOK
  <2>2. CASE r # x3
    BY <2>1, <2>2 DEF Voice!HiddenOnlyByFormer
  <2>3. CASE r = x3
    <3> SUFFICES ASSUME NEW q \in Voice!Recorders, ~Voice!Hidden(q), Voice!Hidden(q)' PROVE FALSE
      BY DEF Voice!HiddenOnlyByFormer
    <3>1. x4'[r] = v /\ (q # r => x4'[q] = x4[q])
      BY DEF VoiceInv, Voice!TypeOK
    <3>2. x1 /\ x3' = r /\ x1' = x1
      BY <2>3 DEF VoiceInv, Voice!Recorders, Voice!None
    <3>3. CASE q = r
      BY <2>3, <3>1, <3>2, <3>3 DEF Voice!Hidden, Voice!IsDesktopRecording
    <3>4. CASE q # r
      BY <2>3, <3>1, <3>4 DEF Voice!Hidden
    <3>. QED BY <3>3, <3>4
  <2>. QED BY <2>2, <2>3
<1>. QED BY <1>1, <1>2, <1>3 DEF Voice!KeepsVoice

\* What a recorder is left with.
LEMMA DestroyIs ==
  ASSUME NEW v \in VoiceRec
  PROVE  LET u == Voice!Destroy(v) IN
         /\ u \in VoiceRec /\ u.status = v.status /\ u.flow = v.flow /\ u.abort = v.abort
         /\ u.added = v.added /\ u.cancelled = v.cancelled /\ ~u.record /\ ~u.timer
         /\ u.mic => v.mic /\ ~v.record
  BY DEF Voice!Destroy, VoiceRec

LEMMA PermittedVoiceKeeps ==
  ASSUME VoiceInv, NEW r \in Voice!Recorders, Voice!Permitted(r) PROVE VoiceInv' /\ Voice!KeepsVoice
<1> DEFINE old == x4[r]
           v == [old EXCEPT !.status = "STARTING", !.flow = "starting", !.record = TRUE]
<1>1. /\ old \in VoiceRec /\ Recorded(old) /\ old.flow = "perm"
      /\ x4' = [x4 EXCEPT ![r] = v] /\ x2' = v.status /\ UNCHANGED <<x1, x3>>
  BY DEF VoiceInv, Voice!TypeOK, VoiceRec, Voice!Permitted, Voice!Set
<1> HIDE DEF old
<1>2. /\ v \in VoiceRec /\ v.status = "STARTING" /\ v.flow = "starting" /\ v.record
      /\ ~v.mic /\ Recorded(v) /\ v # old
  BY <1>1 DEF VoiceRec, Voice!Status, Recorded, Voice!Starting
<1> HIDE DEF v
<1>. QED BY <1>1, <1>2, VoiceChanges DEF old, Voice!Status

LEMMA HintVoiceKeeps ==
  ASSUME VoiceInv, NEW r \in Voice!Recorders, Voice!Hint(r) PROVE VoiceInv' /\ Voice!KeepsVoice
<1> DEFINE old == x4[r]
           v == [old EXCEPT !.flow = "hinted"]
<1>1. /\ old \in VoiceRec /\ Recorded(old) /\ old.flow = "starting" /\ (r = x3 => old.record)
      /\ x4' = [x4 EXCEPT ![r] = v] /\ x2' = "AUTH_HINT" /\ UNCHANGED <<x1, x3>>
  BY DEF VoiceInv, Voice!TypeOK, VoiceRec, Voice!Hint, Voice!Starting, Voice!Recorders, Voice!None
<1> HIDE DEF old
<1>2. v \in VoiceRec /\ v.flow = "hinted" /\ v.record = old.record /\ Recorded(v) /\ v # old
  BY <1>1 DEF VoiceRec, Recorded, Voice!Starting
<1> HIDE DEF v
<1>3. x4'[r] = v /\ \A q \in Voice!Recorders \ {r} : x4'[q] = x4[q]
  BY <1>1 DEF VoiceInv, Voice!TypeOK
<1>4. VoiceInv'
  BY <1>1, <1>2, <1>3 DEF VoiceInv, Voice!TypeOK, VoiceRec, old
<1>5. Voice!CancelHolds
  BY <1>4 DEF VoiceInv, Voice!CancelHolds, Recorded, Voice!Starting
<1>6. ASSUME NEW q \in Voice!Recorders, q # r, ~Voice!Hidden(q), Voice!Hidden(q)'
      PROVE  r # x3
  BY <1>1, <1>3, <1>6 DEF Voice!Hidden
<1>7. Voice!HiddenOnlyByFormer
  BY <1>2, <1>3, <1>6 DEF Voice!HiddenOnlyByFormer, old
<1>. QED BY <1>4, <1>5, <1>7 DEF Voice!KeepsVoice

LEMMA StartFailsVoiceKeeps ==
  ASSUME VoiceInv, NEW r \in Voice!Recorders, Voice!StartFails(r) PROVE VoiceInv' /\ Voice!KeepsVoice
<1> DEFINE old == x4[r]
           f == [old EXCEPT !.status = "FAILED", !.flow = "over"]
           v == Voice!Destroy(f)
<1>1. /\ old \in VoiceRec /\ Recorded(old) /\ old.flow \in {"perm", "starting", "hinted"}
      /\ x4' = [x4 EXCEPT ![r] = v] /\ x2' = v.status /\ UNCHANGED <<x1, x3>>
  BY DEF VoiceInv, Voice!TypeOK, VoiceRec, Voice!StartFails, Voice!Fail, Voice!Set, Voice!Starting
<1> HIDE DEF old
<1>2. /\ f \in VoiceRec /\ f.status = "FAILED" /\ f.flow = "over" /\ ~f.mic /\ Recorded(f) /\ f # old
  BY <1>1 DEF VoiceRec, Voice!Status, Recorded, Voice!Starting
<1> HIDE DEF f
<1>3. v \in VoiceRec /\ v.status = "FAILED" /\ v.flow = "over" /\ ~v.mic /\ Recorded(v) /\ v # old
  BY <1>1, <1>2, DestroyIs DEF Recorded, Voice!Starting
<1> HIDE DEF v
<1>. QED BY <1>1, <1>3, VoiceChanges DEF old, Voice!Status, Voice!Starting

LEMMA StartedVoiceKeeps ==
  ASSUME VoiceInv, NEW r \in Voice!Recorders, Voice!Started(r) PROVE VoiceInv' /\ Voice!KeepsVoice
<1> DEFINE old == x4[r]
           s == [old EXCEPT !.flow = "over", !.mic = TRUE]
           c == [s EXCEPT !.status = "CANCELED"]
           n == [s EXCEPT !.status = "RECORDING", !.timer = TRUE]
           v == IF s.abort THEN Voice!Destroy(c) ELSE n
<1>1. /\ old \in VoiceRec /\ Recorded(old) /\ Voice!Starting(old) /\ (r = x3 => old.record)
      /\ x4' = [x4 EXCEPT ![r] = v] /\ x2' = v.status /\ UNCHANGED <<x1, x3>>
  BY DEF VoiceInv, Voice!TypeOK, VoiceRec, Voice!Started, Voice!Set, Voice!Recorders, Voice!None
<1> HIDE DEF old
<1>2. /\ s \in VoiceRec /\ s.abort = old.abort
      /\ c \in VoiceRec /\ c.status = "CANCELED" /\ c.flow = "over" /\ c.record = old.record /\ ~c.added
      /\ c.cancelled \in {old.cancelled} /\ c.abort = old.abort
      /\ n \in VoiceRec /\ n.status = "RECORDING" /\ n.flow = "over" /\ n.record = old.record /\ ~n.added
      /\ n.cancelled = old.cancelled /\ n.abort = old.abort
  BY <1>1 DEF VoiceRec, Voice!Status, Recorded, Voice!Starting
<1> HIDE DEF s, c, n
<1>3. /\ v \in VoiceRec /\ v.flow = "over" /\ Recorded(v) /\ v # old
      /\ r = x3 /\ v.mic => v.record /\ v.status = "RECORDING"
  BY <1>1, <1>2, DestroyIs DEF Recorded, Voice!Starting
<1> HIDE DEF v
<1>. QED BY <1>1, <1>3, VoiceChanges DEF old, VoiceRec, Voice!Starting

\* What stop makes of a recorder.
LEMMA StoppedIs ==
  ASSUME NEW v \in VoiceRec, Recorded(v), v.status = "RECORDING"
  PROVE  LET u == Voice!Stopped(v) IN
         /\ u \in VoiceRec /\ u.status = "STOPPING" /\ u.flow = v.flow /\ Recorded(u) /\ u # v
         /\ u.mic = v.mic /\ u.record = v.record
<1> DEFINE u == [v EXCEPT !.status = "STOPPING", !.timer = FALSE]
<1>1. /\ u \in VoiceRec /\ u.status = "STOPPING" /\ u.flow = v.flow /\ u.abort = v.abort
      /\ u.mic = v.mic /\ u.record = v.record /\ u.added = v.added /\ u.cancelled = v.cancelled /\ ~u.timer
  BY DEF VoiceRec, Voice!Status
<1>2. Voice!Stopped(v) = u
  BY DEF Voice!Stopped
<1> HIDE DEF u
<1>. QED BY <1>1, <1>2 DEF Recorded, Voice!Starting

LEMMA StopVoiceKeeps ==
  ASSUME VoiceInv, Voice!Stop \/ \E r \in Voice!Recorders : Voice!MaxDuration(r)
  PROVE  VoiceInv' /\ Voice!KeepsVoice
<1>1. PICK r \in Voice!Recorders : \E old \in {x4[r], [x4[r] EXCEPT !.timer = FALSE]} :
         /\ x4[r].status = "RECORDING" /\ x4' = [x4 EXCEPT ![r] = Voice!Stopped(old)]
         /\ x2' = Voice!Stopped(old).status /\ UNCHANGED <<x1, x3>>
  <2>1. CASE Voice!Stop
    BY <2>1 DEF VoiceInv, Voice!TypeOK, Voice!Stop, Voice!Set
  <2>2. ASSUME NEW r \in Voice!Recorders, Voice!MaxDuration(r)
        PROVE  /\ x4[r].status = "RECORDING" /\ x4' = [x4 EXCEPT ![r] = Voice!Stopped([x4[r] EXCEPT !.timer = FALSE])]
               /\ x2' = Voice!Stopped([x4[r] EXCEPT !.timer = FALSE]).status /\ UNCHANGED <<x1, x3>>
    BY <2>2 DEF VoiceInv, Recorded, Voice!Starting, Voice!MaxDuration, Voice!Set
  <2>. QED BY <2>1, <2>2
<1>0. PICK old \in {x4[r], [x4[r] EXCEPT !.timer = FALSE]} :
         /\ x4[r].status = "RECORDING" /\ x4' = [x4 EXCEPT ![r] = Voice!Stopped(old)]
         /\ x2' = Voice!Stopped(old).status /\ UNCHANGED <<x1, x3>>
  BY <1>1
<1>2. x4[r] \in VoiceRec /\ Recorded(x4[r])
  BY DEF VoiceInv, Voice!TypeOK, VoiceRec
<1>3. /\ old \in VoiceRec /\ Recorded(old) /\ old.status = "RECORDING"
      /\ old.mic = x4[r].mic /\ old.record = x4[r].record /\ old.flow = x4[r].flow
  BY <1>0, <1>2 DEF VoiceRec, Recorded, Voice!Starting
<1> DEFINE v == Voice!Stopped(old)
<1>4. /\ v \in VoiceRec /\ v.status = "STOPPING" /\ v.flow = old.flow /\ Recorded(v)
      /\ v.mic = old.mic /\ v.record = old.record
  BY <1>3, StoppedIs
<1> HIDE DEF v
<1>5. r = x3 => v.flow # "new" /\ (Voice!Starting(v) \/ v.mic => v.record)
  BY <1>3, <1>4 DEF VoiceInv, Voice!Starting, Voice!Recorders, Voice!None
<1>6. v # x4[r]
  BY <1>0, <1>4
<1>. QED BY <1>0, <1>4, <1>5, <1>6, VoiceChanges DEF v, Voice!Status

LEMMA RecordEndVoiceKeeps ==
  ASSUME VoiceInv, NEW r \in Voice!Recorders, Voice!RecordEnd(r) PROVE VoiceInv' /\ Voice!KeepsVoice
<1> DEFINE old == x4[r]
           s == [old EXCEPT !.status = "STOPPED", !.added = TRUE, !.mic = FALSE]
           v == Voice!Destroy(s)
<1>1. /\ old \in VoiceRec /\ Recorded(old) /\ old.status = "STOPPING"
      /\ x4' = [x4 EXCEPT ![r] = v] /\ x2' = "IDLE" /\ UNCHANGED <<x1, x3>>
  BY DEF VoiceInv, Voice!TypeOK, VoiceRec, Voice!RecordEnd
<1> HIDE DEF old
<1>2. /\ s \in VoiceRec /\ s.status = "STOPPED" /\ s.flow = old.flow /\ ~s.mic
      /\ s.cancelled = old.cancelled /\ s.abort = old.abort
  BY <1>1 DEF VoiceRec, Voice!Status
<1> HIDE DEF s
<1>3. /\ v \in VoiceRec /\ v.flow \notin {"new", "perm", "starting", "hinted"} /\ ~v.mic /\ Recorded(v) /\ v # old
  BY <1>1, <1>2, DestroyIs DEF Recorded, Voice!Starting
<1> HIDE DEF v
<1>. QED BY <1>1, <1>3, VoiceChanges DEF old, Voice!Status, Voice!Starting

\* What cancel makes of a recorder.
LEMMA CanceledIs ==
  ASSUME NEW v \in VoiceRec, Recorded(v)
  PROVE  LET u == [Voice!Canceled(v) EXCEPT !.cancelled = v.status] IN
         /\ u \in VoiceRec /\ u.flow = v.flow /\ Recorded(u)
         /\ Voice!Starting(u) => u.record = v.record /\ u.abort
         /\ u.mic => v.mic /\ ~v.record
<1> DEFINE c == [v EXCEPT !.status = "CANCELED", !.mic = FALSE]
           l == [v EXCEPT !.abort = TRUE]
           x == Voice!Canceled(v)
           u == [x EXCEPT !.cancelled = v.status]
<1>1. /\ c \in VoiceRec /\ c.status = "CANCELED" /\ c.flow = v.flow /\ c.added = v.added /\ c.abort = v.abort
      /\ ~c.mic
      /\ l \in VoiceRec /\ l.status = v.status /\ l.flow = v.flow /\ l.added = v.added /\ l.abort = TRUE
      /\ l.mic = v.mic /\ l.record = v.record /\ l.timer = v.timer
  BY DEF VoiceRec, Voice!Status
<1>2. x = IF v.status = "RECORDING" THEN Voice!Destroy(c) ELSE IF v.status = "STARTING" THEN l ELSE Voice!Destroy(v)
  BY DEF Voice!Canceled, Voice!AbortLater
<1> HIDE DEF c, l, x
<1>3. /\ x \in VoiceRec /\ x.flow = v.flow /\ x.added = v.added
      /\ x.status = IF v.status = "RECORDING" THEN "CANCELED" ELSE v.status
      /\ v.status = "STARTING" => x.abort /\ x.record = v.record /\ x.mic = v.mic /\ x.timer = v.timer
      /\ v.status # "STARTING" => ~x.timer
      /\ x.mic => v.mic /\ (~v.record \/ v.status = "STARTING")
  BY <1>1, <1>2, DestroyIs
<1>4. /\ u \in VoiceRec /\ u.flow = x.flow /\ u.added = x.added /\ u.status = x.status /\ u.abort = x.abort
      /\ u.record = x.record /\ u.mic = x.mic /\ u.timer = x.timer /\ u.cancelled = v.status
  BY <1>3 DEF VoiceRec
<1> HIDE DEF u
<1>5. u.flow = v.flow /\ Recorded(u) /\ (Voice!Starting(u) => u.record = v.record /\ u.abort) /\ (u.mic => v.mic /\ ~v.record)
  BY <1>3, <1>4 DEF Recorded, VoiceRec, Voice!Status, Voice!Starting
<1>. QED BY <1>4, <1>5 DEF u, x

LEMMA CancelVoiceKeeps == ASSUME VoiceInv, Voice!Cancel PROVE VoiceInv' /\ Voice!KeepsVoice
<1> DEFINE old == x4[x3]
           v == [Voice!Canceled(old) EXCEPT !.cancelled = old.status]
<1>1. /\ x3 \in Voice!Recorders /\ old \in VoiceRec /\ Recorded(old) /\ old.flow # "new"
      /\ Voice!Starting(old) \/ old.mic => old.record
      /\ x4' = [x4 EXCEPT ![x3] = v] /\ x2' = "IDLE" /\ UNCHANGED <<x1, x3>>
  BY DEF VoiceInv, Voice!TypeOK, VoiceRec, Voice!Cancel
<1> HIDE DEF old
<1>2. /\ v \in VoiceRec /\ v.flow = old.flow /\ Recorded(v) /\ (Voice!Starting(v) => v.record = old.record /\ v.abort)
      /\ v.mic => old.mic /\ ~old.record
  BY <1>1, CanceledIs
<1> HIDE DEF v
<1>. QED BY <1>1, <1>2, VoiceChanges DEF Voice!Status, Voice!Starting

LEMMA StartVoiceKeeps ==
  ASSUME VoiceInv, NEW r \in Voice!Recorders, Voice!Start(r) PROVE VoiceInv' /\ Voice!KeepsVoice
<1> DEFINE old == x4[r]
           v == [old EXCEPT !.flow = "perm"]
<1>1. /\ old \in VoiceRec /\ Recorded(old) /\ old.flow = "new" /\ x1 /\ ~Voice!IsDesktopRecording
      /\ x3' = r /\ x2' = "STARTING" /\ x4' = [x4 EXCEPT ![r] = v] /\ x1' = x1
  BY DEF VoiceInv, Voice!TypeOK, VoiceRec, Voice!Start
<1> HIDE DEF old
<1>2. v \in VoiceRec /\ v.flow = "perm" /\ ~v.mic /\ Recorded(v) /\ v.added = old.added /\ v.cancelled = old.cancelled
  BY <1>1 DEF VoiceRec, Recorded, Voice!Starting
<1> HIDE DEF v
<1>3. x4'[r] = v /\ \A q \in Voice!Recorders \ {r} : x4'[q] = x4[q]
  BY <1>1 DEF VoiceInv, Voice!TypeOK
<1>4. VoiceInv'
  BY <1>1, <1>2, <1>3 DEF VoiceInv, Voice!TypeOK, VoiceRec, Voice!Status, Voice!Starting
<1>5. Voice!CancelHolds
  BY <1>4 DEF VoiceInv, Voice!CancelHolds, Recorded, Voice!Starting
<1>6. Voice!HiddenOnlyByFormer
  BY <1>1, <1>2, <1>3 DEF Voice!HiddenOnlyByFormer, Voice!Hidden, Voice!Starting
<1>. QED BY <1>4, <1>5, <1>6 DEF Voice!KeepsVoice

LEMMA UnmountVoiceKeeps == ASSUME VoiceInv, Voice!Unmount PROVE VoiceInv' /\ Voice!KeepsVoice
<1>1. x1 /\ x1' = FALSE /\ x3' = Voice!None
  BY DEF Voice!Unmount
<1>2. CASE x3 = Voice!None
  <2>1. x4' = x4 /\ x2' = x2
    BY <1>2 DEF Voice!Unmount
  <2>2. VoiceInv'
    BY <1>1, <2>1 DEF VoiceInv, Voice!TypeOK
  <2>3. Voice!CancelHolds
    BY <2>2 DEF VoiceInv, Voice!CancelHolds, Recorded, Voice!Starting
  <2>4. Voice!HiddenOnlyByFormer
    BY <1>2, <2>1 DEF Voice!HiddenOnlyByFormer, Voice!Hidden, Voice!None, Voice!Recorders
  <2>. QED BY <2>2, <2>3, <2>4 DEF Voice!KeepsVoice
<1>3. CASE x3 # Voice!None
  <2> DEFINE old == x4[x3]
             v == Voice!Destroy(old)
  <2>1. /\ x3 \in Voice!Recorders /\ old \in VoiceRec /\ Recorded(old) /\ (old.mic => old.record)
        /\ x4' = [x4 EXCEPT ![x3] = v] /\ x2' = x2
    BY <1>3 DEF VoiceInv, Voice!TypeOK, VoiceRec, Voice!Unmount, Voice!Quietly
  <2> HIDE DEF old
  <2>2. v \in VoiceRec /\ Recorded(v) /\ ~v.mic /\ v.flow = old.flow
    BY <2>1, DestroyIs DEF Recorded, Voice!Starting
  <2> HIDE DEF v
  <2>3. x4'[x3] = v /\ \A q \in Voice!Recorders \ {x3} : x4'[q] = x4[q]
    BY <2>1 DEF VoiceInv, Voice!TypeOK
  <2>4. VoiceInv'
    BY <1>1, <2>1, <2>2, <2>3 DEF VoiceInv, Voice!TypeOK, VoiceRec
  <2>5. Voice!CancelHolds
    BY <2>4 DEF VoiceInv, Voice!CancelHolds, Recorded, Voice!Starting
  <2>6. Voice!HiddenOnlyByFormer
    BY <2>1, <2>2, <2>3 DEF Voice!HiddenOnlyByFormer, Voice!Hidden, Voice!Starting, old
  <2>. QED BY <2>4, <2>5, <2>6 DEF Voice!KeepsVoice
<1>. QED BY <1>2, <1>3

LEMMA VoiceStep == ASSUME VoiceInv, Voice!Next PROVE VoiceInv' /\ Voice!KeepsVoice
  BY StopVoiceKeeps, CancelVoiceKeeps, UnmountVoiceKeeps, StartVoiceKeeps, PermittedVoiceKeeps, HintVoiceKeeps,
     StartFailsVoiceKeeps, StartedVoiceKeeps, RecordEndVoiceKeeps DEF Voice!Next
-----------------------------------------------------------------------------
(* Uploads of a file *)

Ends == {"done", "failed", "cancelled"}
PutRec == [st : {"none", "asked", "receive", "failed", "end", "rename", "over"},
           open : BOOLEAN, closed : BOOLEAN]
UpMsg == {"req", "done", "close"}
DownMsg == {"ready", "ok", "error", "close"}
OkIn(s) == \E i \in 1..Len(s) : s[i] = "ok"

\* TypeOK without what does not count.
UploadType ==
    /\ x1 \in [Upload!Uploads -> Upload!Running \cup Ends \cup {"pending"}]
    /\ x2 \in [Upload!Uploads -> Seq(UpMsg)] /\ x3 \in [Upload!Uploads -> Seq(DownMsg)]
    /\ x4 \in [Upload!Uploads -> PutRec]
    /\ x5 \in [Upload!Uploads -> {"no", "part", "whole"}]
    /\ x6 \in SUBSET Upload!Uploads
    /\ x8 \in [of : Upload!Uploads \cup {Upload!None}, whole : BOOLEAN]

\* The tab or the plugin is at work on an upload, or has been.
Set(t) == x1[t] \in Upload!Running \/ x4[t].st # "none" \/ x4[t].open \/ x2[t] # <<>>

\* What the tab may find when it is told that an upload is done.
Stands(t) ==
    \/ x8 = [of |-> t, whole |-> TRUE] \/ x8 = Upload!Empty
    \/ x8.of # Upload!None /\ x8.of < t /\ Upload!GivenUp(x8.of)

\* An upload begins when all before it have ended; the tab has something to read
\* only as long as it runs; the temporary file of an upload that is renamed is
\* whole if the channel is open; and whoever is done, or is to be told so, or is
\* the file, is over at the plugin.
Placed(t) ==
    /\ x1[t] = "pending" => ~Set(t)
    /\ Set(t) => \A q \in Upload!Uploads : q < t => x1[q] \in Ends
    /\ x3[t] # <<>> => x1[t] \in Upload!Running
    /\ x4[t].st = "failed" => ~x4[t].open
    /\ x4[t].st = "rename" /\ x4[t].open => x5[t] # "part" /\ t \notin x6
    /\ x1[t] = "done" => x4[t].st = "over"
    /\ OkIn(x3[t]) => x4[t].st = "over" /\ Stands(t)
    /\ x8.of = t => x4[t].st = "over"

UploadInv ==
    /\ UploadType
    /\ x8.of = Upload!None => x8.whole
    /\ \A t \in Upload!Uploads : Placed(t)

LEMMA UploadInit == ASSUME Upload!Init PROVE UploadInv
<1>1. UploadType
  BY DEF Upload!Init, UploadType, Upload!Running, Ends, PutRec, UpMsg, DownMsg, Upload!None
<1>2. \A t \in Upload!Uploads : ~OkIn(x3[t])
  BY DEF Upload!Init, OkIn
<1>. QED BY <1>1, <1>2 DEF Upload!Init, UploadInv, Placed, Set, Upload!Running, Upload!None, Upload!Uploads

\* Where there is an ok.
LEMMA OkOfTail ==
  ASSUME NEW s \in Seq(DownMsg), s # <<>>
  PROVE  (OkIn(Tail(s)) => OkIn(s)) /\ (Head(s) = "ok" => OkIn(s)) /\ Tail(s) \in Seq(DownMsg)
<1>1. Len(s) >= 1 /\ Head(s) = s[1] /\ Len(Tail(s)) = Len(s) - 1 /\ \A i \in 1..Len(s) - 1 : Tail(s)[i] = s[i + 1]
  OBVIOUS
<1>2. ASSUME NEW i \in 1..Len(Tail(s)), Tail(s)[i] = "ok" PROVE OkIn(s)
  BY <1>1, <1>2 DEF OkIn
<1>. QED BY <1>1, <1>2 DEF OkIn

LEMMA OkOfCat ==
  ASSUME NEW s \in Seq(DownMsg), NEW m \in Seq(DownMsg)
  PROVE  (OkIn(s \o m) => OkIn(s) \/ OkIn(m)) /\ s \o m \in Seq(DownMsg)
<1>1. /\ Len(s \o m) = Len(s) + Len(m) /\ s \o m \in Seq(DownMsg) /\ Len(s) \in Nat /\ Len(m) \in Nat
      /\ \A i \in 1..Len(s) + Len(m) : (s \o m)[i] = IF i <= Len(s) THEN s[i] ELSE m[i - Len(s)]
  OBVIOUS
<1>2. ASSUME NEW i \in 1..Len(s \o m), (s \o m)[i] = "ok" PROVE OkIn(s) \/ OkIn(m)
  <2>1. CASE i <= Len(s)
    BY <1>1, <1>2, <2>1 DEF OkIn
  <2>2. CASE i > Len(s)
    <3>1. i - Len(s) \in 1..Len(m) /\ m[i - Len(s)] = "ok"
      BY <1>1, <1>2, <2>2
    <3>. QED BY <3>1 DEF OkIn
  <2>. QED BY <1>1, <2>1, <2>2
<1>. QED BY <1>1, <1>2 DEF OkIn

\* The messages of Reply.
LEMMA RepliesAre ==
  /\ <<"ready">> \in Seq(DownMsg) /\ ~OkIn(<<"ready">>)
  /\ <<"error", "close">> \in Seq(DownMsg) /\ ~OkIn(<<"error", "close">>) /\ <<"error", "close">> # <<"ready">>
  /\ <<"ok", "close">> \in Seq(DownMsg) /\ <<"ok", "close">> # <<"ready">>
  /\ <<"close">> \in Seq(DownMsg) /\ ~OkIn(<<"close">>) /\ <<>> \in Seq(DownMsg) /\ ~OkIn(<<>>)
  BY DEF DownMsg, OkIn

\* Nothing is done to the other uploads.
SameBut(t) ==
    \A q \in Upload!Uploads \ {t} :
        /\ x1'[q] = x1[q] /\ x2'[q] = x2[q] /\ x3'[q] = x3[q] /\ x4'[q] = x4[q] /\ x5'[q] = x5[q]
        /\ q \in x6' => q \in x6

\* One upload changes, and not the file.
LEMMA OneUploadChanges ==
  ASSUME UploadInv, UploadType', NEW t \in Upload!Uploads, x8' = x8,
         SameBut(t),
         x1[t] \in Ends => x1'[t] = x1[t],
         x1'[t] = "pending" => ~Set(t)',
         Set(t)' => Set(t) \/ \A q \in Upload!Uploads : q < t => x1[q] \in Ends,
         x3'[t] # <<>> => x1'[t] \in Upload!Running,
         x4'[t].st = "failed" => ~x4'[t].open,
         x4'[t].st = "rename" /\ x4'[t].open => x5'[t] # "part" /\ t \notin x6',
         x1'[t] = "done" => x1[t] = "done" \/ OkIn(x3[t]),
         x4[t].st = "over" => x4'[t].st = "over",
         OkIn(x3'[t]) => OkIn(x3[t])
  PROVE  UploadInv' /\ Upload!ReplacesFile
<1>1. \A q \in Upload!Uploads : x1[q] \in Ends => x1'[q] = x1[q]
  BY DEF SameBut
<1>2. \A q \in Upload!Uploads : Stands(q) => Stands(q)'
  <2> SUFFICES ASSUME NEW q \in Upload!Uploads, Stands(q) PROVE Stands(q)'
    OBVIOUS
  <2>1. x8.of # Upload!None /\ Upload!GivenUp(x8.of) => Upload!GivenUp(x8.of)'
    BY <1>1 DEF UploadInv, UploadType, Upload!GivenUp, Ends
  <2>. QED BY <2>1 DEF Stands, Upload!GivenUp
<1>3. ASSUME NEW q \in Upload!Uploads \ {t} PROVE Placed(q)'
  <2>1. Placed(q) /\ Set(q)' = Set(q)
    BY <1>3 DEF UploadInv, Set, SameBut
  <2>2. OkIn(x3'[q]) => x4'[q].st = "over" /\ Stands(q)'
    BY <1>2, <1>3, <2>1 DEF Placed, SameBut
  <2>. QED BY <1>1, <1>3, <2>1, <2>2 DEF Placed, SameBut
<1>4. Placed(t)'
  <2>1. Placed(t)
    BY DEF UploadInv
  <2>2. OkIn(x3'[t]) => x4'[t].st = "over" /\ Stands(t)'
    BY <1>2, <2>1 DEF Placed
  <2>. QED BY <1>1, <2>1, <2>2 DEF Placed
<1>5. UploadInv'
  BY <1>3, <1>4 DEF UploadInv
<1>6. ASSUME NEW q \in Upload!Uploads, x1[q] # "done", x1'[q] = "done" PROVE Stands(q)
  BY <1>6 DEF UploadInv, Placed, SameBut
<1>. QED BY <1>5, <1>6 DEF Upload!ReplacesFile, Stands

\* The tab's queue.
LEMMA StartUploadKeeps ==
  ASSUME UploadInv, NEW t \in Upload!Uploads, Upload!Start(t) PROVE UploadInv' /\ Upload!ReplacesFile
<1>1. UploadType'
  BY DEF UploadInv, UploadType, Upload!Start, Upload!CreateFileDC, Upload!Running, PutRec
<1>2. \A q \in Upload!Uploads : q < t => x1[q] \in Ends
  <2> SUFFICES ASSUME NEW q \in Upload!Uploads, q < t PROVE x1[q] \in Ends
    OBVIOUS
  <2>1. q \in 1..t - 1
    BY DEF Upload!Uploads
  <2>. QED BY <2>1 DEF UploadInv, UploadType, Upload!Start, Upload!NoneRuns
<1>3. x1'[t] = "opening" /\ x4'[t].st = x4[t].st /\ x3[t] = <<>> /\ x1[t] = "pending" /\ x4[t].st = "none"
  BY DEF UploadInv, Placed, Set, UploadType, Upload!Start, Upload!CreateFileDC, Upload!Running
<1>4. SameBut(t) /\ x8' = x8 /\ x3' = x3
  BY DEF UploadInv, UploadType, Upload!Start, Upload!CreateFileDC, SameBut
<1>. QED BY <1>1, <1>2, <1>3, <1>4, OneUploadChanges DEF Upload!Running, Ends

LEMMA NotStartedKeeps ==
  ASSUME UploadInv, NEW t \in Upload!Uploads, Upload!NotStarted(t) PROVE UploadInv' /\ Upload!ReplacesFile
<1>1. PICK how \in {"failed", "cancelled"} : x1' = [x1 EXCEPT ![t] = how]
  BY DEF Upload!NotStarted
<1>2. UploadType'
  BY <1>1 DEF UploadInv, UploadType, Upload!NotStarted, Ends
<1>3. x1[t] = "pending" /\ Placed(t) /\ UNCHANGED <<x2, x3, x4, x5, x6, x8>>
  BY DEF Upload!NotStarted, UploadInv
<1>4. x1'[t] = how /\ ~Set(t) /\ x3[t] = <<>> /\ ~Set(t)'
  BY <1>1, <1>3 DEF UploadInv, Placed, Set, UploadType, Upload!Running
<1>5. SameBut(t)
  BY <1>1, <1>3 DEF UploadInv, UploadType, SameBut
<1>6. x1'[t] # "pending" /\ x1'[t] # "done" /\ x1[t] \notin Ends /\ x4'[t].st \notin {"failed", "rename"}
  BY <1>3, <1>4 DEF Ends, Set
<1>. QED BY <1>2, <1>3, <1>4, <1>5, <1>6, OneUploadChanges
LEMMA OpenedKeeps ==
  ASSUME UploadInv, NEW t \in Upload!Uploads, Upload!Opened(t) PROVE UploadInv' /\ Upload!ReplacesFile
<1>1. /\ x1[t] = "opening" /\ x1' = [x1 EXCEPT ![t] = "asked"] /\ x2' = [x2 EXCEPT ![t] = Append(@, "req")]
      /\ UNCHANGED <<x3, x4, x5, x6, x8>>
  BY DEF Upload!Opened, Upload!ToPlugin
<1>2. UploadType'
  BY <1>1 DEF UploadInv, UploadType, Upload!Running, UpMsg
<1>3. x1'[t] = "asked" /\ Set(t) /\ Placed(t)
  BY <1>1 DEF UploadInv, UploadType, Set, Upload!Running
<1>4. SameBut(t)
  BY <1>1 DEF UploadInv, UploadType, SameBut
<1>. QED BY <1>1, <1>2, <1>3, <1>4, OneUploadChanges DEF Upload!Running, Ends, Placed

LEMMA SentKeeps ==
  ASSUME UploadInv, NEW t \in Upload!Uploads, Upload!Sent(t) PROVE UploadInv' /\ Upload!ReplacesFile
<1>1. /\ x1[t] = "sending" /\ x1' = [x1 EXCEPT ![t] = "sent"] /\ x2' = [x2 EXCEPT ![t] = Append(@, "done")]
      /\ UNCHANGED <<x3, x4, x5, x6, x8>>
  BY DEF Upload!Sent, Upload!ToPlugin
<1>2. UploadType'
  BY <1>1 DEF UploadInv, UploadType, Upload!Running, UpMsg
<1>3. x1'[t] = "sent" /\ Set(t) /\ Placed(t)
  BY <1>1 DEF UploadInv, UploadType, Set, Upload!Running
<1>4. SameBut(t)
  BY <1>1 DEF UploadInv, UploadType, SameBut
<1>. QED BY <1>1, <1>2, <1>3, <1>4, OneUploadChanges DEF Upload!Running, Ends, Placed

\* The tab has done with an upload; with an answer, or without.
LEMMA SettleKeeps ==
  ASSUME UploadInv, NEW t \in Upload!Uploads, x1[t] \in Upload!Running, NEW how \in Ends,
         how = "done" => OkIn(x3[t]), Upload!Settle(t, how), UNCHANGED <<x4, x5, x6, x8>>
  PROVE  UploadInv' /\ Upload!ReplacesFile
<1>1. /\ x1' = [x1 EXCEPT ![t] = how] /\ x2' = [x2 EXCEPT ![t] = Append(@, "close")]
      /\ x3' = [x3 EXCEPT ![t] = <<>>]
  BY DEF Upload!Settle, Upload!ToPlugin
<1>2. UploadType'
  BY <1>1 DEF UploadInv, UploadType, UpMsg
<1>3. x1'[t] = how /\ x3'[t] = <<>> /\ ~OkIn(x3'[t]) /\ Set(t) /\ Placed(t)
  BY <1>1, RepliesAre DEF UploadInv, UploadType, Set
<1>4. SameBut(t)
  BY <1>1 DEF UploadInv, UploadType, SameBut
<1>. QED BY <1>1, <1>2, <1>3, <1>4, OneUploadChanges DEF Upload!Running, Ends, Placed

LEMMA GivesUpKeeps ==
  ASSUME UploadInv, NEW t \in Upload!Uploads, Upload!GivesUp(t) PROVE UploadInv' /\ Upload!ReplacesFile
<1>1. PICK how \in {"failed", "cancelled"} : Upload!Settle(t, how)
  BY DEF Upload!GivesUp
<1>. QED BY <1>1, SettleKeeps DEF Upload!GivesUp, Upload!Running, Ends

LEMMA ReadyKeeps ==
  ASSUME UploadInv, NEW t \in Upload!Uploads, Upload!Ready(t) PROVE UploadInv' /\ Upload!ReplacesFile
<1>1. /\ x3[t] # <<>> /\ x1' = [x1 EXCEPT ![t] = "sending"] /\ x3' = [x3 EXCEPT ![t] = Tail(@)]
      /\ UNCHANGED <<x2, x4, x5, x6, x8>> /\ x3[t] \in Seq(DownMsg)
  BY DEF Upload!Ready, UploadInv, UploadType
<1>2. Tail(x3[t]) \in Seq(DownMsg) /\ (OkIn(Tail(x3[t])) => OkIn(x3[t]))
  BY <1>1, OkOfTail
<1>3. UploadType'
  BY <1>1, <1>2 DEF UploadInv, UploadType, Upload!Running
<1>4. x1'[t] = "sending" /\ Set(t) /\ Placed(t) /\ x3'[t] = Tail(x3[t]) /\ x1[t] \in Upload!Running
  BY <1>1 DEF UploadInv, UploadType, Set, Placed
<1>5. SameBut(t)
  BY <1>1 DEF UploadInv, UploadType, SameBut
<1>. QED BY <1>1, <1>2, <1>3, <1>4, <1>5, OneUploadChanges DEF Upload!Running, Ends, Placed

LEMMA ResultKeeps ==
  ASSUME UploadInv, NEW t \in Upload!Uploads, Upload!Result(t) PROVE UploadInv' /\ Upload!ReplacesFile
<1>1. /\ x3[t] # <<>> /\ Upload!Settle(t, IF Head(x3[t]) = "ok" THEN "done" ELSE "failed")
      /\ UNCHANGED <<x4, x5, x6, x8>> /\ x3[t] \in Seq(DownMsg) /\ x1[t] \in Upload!Running
  BY DEF Upload!Result, UploadInv, UploadType, Placed
<1>2. Head(x3[t]) = "ok" => OkIn(x3[t])
  BY <1>1, OkOfTail
<1>. QED BY <1>1, <1>2, SettleKeeps DEF Ends

-----------------------------------------------------------------------------
(* Uploads at the plugin *)

\* What Reply does, of which only the answer to a rename says ok.
LEMMA ReplyIs ==
  ASSUME UploadInv, NEW t \in Upload!Uploads,
         NEW st \in {"none", "asked", "receive", "failed", "end", "rename", "over"},
         NEW ms \in Seq(DownMsg), Upload!Reply(t, st, ms)
  PROVE  /\ x3' \in [Upload!Uploads -> Seq(DownMsg)] /\ x4' \in [Upload!Uploads -> PutRec]
         /\ x4'[t].st = st /\ x4'[t].open = (x4[t].open /\ ms = <<"ready">>)
         /\ x3'[t] # <<>> => x1[t] \in Upload!Running \/ x3[t] # <<>>
         /\ OkIn(x3'[t]) => OkIn(x3[t]) \/ (OkIn(ms) /\ x4[t].open /\ x1[t] \in Upload!Running)
         /\ \A q \in Upload!Uploads \ {t} : x3'[q] = x3[q] /\ x4'[q] = x4[q]
<1> DEFINE new == [st |-> st, open |-> x4[t].open /\ ms = <<"ready">>, closed |-> x4[t].closed]
           said == IF x4[t].open /\ x1[t] \in Upload!Running THEN x3[t] \o ms ELSE x3[t]
<1>1. x4' = [x4 EXCEPT ![t] = new] /\ x3' = [x3 EXCEPT ![t] = said]
  BY DEF Upload!Reply
<1>2. x3[t] \in Seq(DownMsg) /\ x4[t] \in PutRec
  BY DEF UploadInv, UploadType
<1>3. new \in PutRec /\ new.st = st /\ new.open = (x4[t].open /\ ms = <<"ready">>)
  BY <1>2 DEF PutRec
<1>4. /\ said \in Seq(DownMsg)
      /\ OkIn(said) => OkIn(x3[t]) \/ (OkIn(ms) /\ x4[t].open /\ x1[t] \in Upload!Running)
  BY <1>2, OkOfCat
<1>5. said # <<>> => x1[t] \in Upload!Running \/ x3[t] # <<>>
  OBVIOUS
<1> HIDE DEF new, said
<1>. QED BY <1>1, <1>3, <1>4, <1>5 DEF UploadInv, UploadType

\* An answer that does not say ok.
LEMMA AnswerKeeps ==
  ASSUME UploadInv, NEW t \in Upload!Uploads,
         NEW st \in {"asked", "receive", "failed", "end", "rename", "over"},
         NEW ms \in {<<"ready">>, <<"error", "close">>}, Upload!Reply(t, st, ms),
         x4[t].st \notin {"none", "over"} \/ (x4[t].open /\ st = "over"),
         st \in {"failed", "rename"} => ms # <<"ready">>,
         UNCHANGED <<x1, x2, x5, x8>>, x6' \in SUBSET Upload!Uploads,
         \A q \in Upload!Uploads \ {t} : q \in x6' => q \in x6
  PROVE  UploadInv' /\ Upload!ReplacesFile
<1>1. /\ x3' \in [Upload!Uploads -> Seq(DownMsg)] /\ x4' \in [Upload!Uploads -> PutRec]
      /\ x4'[t].st = st /\ x4'[t].open = (x4[t].open /\ ms = <<"ready">>)
      /\ x3'[t] # <<>> => x1[t] \in Upload!Running \/ x3[t] # <<>>
      /\ OkIn(x3'[t]) => OkIn(x3[t])
      /\ \A q \in Upload!Uploads \ {t} : x3'[q] = x3[q] /\ x4'[q] = x4[q]
  <2>1. ms \in Seq(DownMsg) /\ ~OkIn(ms)
    BY RepliesAre
  <2>2. st \in {"none", "asked", "receive", "failed", "end", "rename", "over"}
    OBVIOUS
  <2>. QED BY <2>1, <2>2, ReplyIs
<1>2. UploadType'
  BY <1>1 DEF UploadInv, UploadType
<1>3. Set(t) /\ Placed(t) /\ x1[t] # "pending"
  BY DEF UploadInv, Set, Placed
<1>4. SameBut(t)
  BY <1>1 DEF UploadInv, UploadType, SameBut
<1>. QED BY <1>1, <1>2, <1>3, <1>4, OneUploadChanges DEF Upload!Running, Ends, Placed
LEMMA RequestKeeps ==
  ASSUME UploadInv, NEW t \in Upload!Uploads, Upload!Request(t) PROVE UploadInv' /\ Upload!ReplacesFile
<1> DEFINE st == IF x4[t].st = "none" THEN "asked" ELSE x4[t].st
           new == [x4[t] EXCEPT !.st = st]
<1>1. /\ x2[t] # <<>> /\ x2' = [x2 EXCEPT ![t] = Tail(@)] /\ x4' = [x4 EXCEPT ![t] = new]
      /\ UNCHANGED <<x1, x3, x5, x6, x8>> /\ x4[t] \in PutRec /\ x2[t] \in Seq(UpMsg)
  BY DEF Upload!Request, UploadInv, UploadType
<1>2. new \in PutRec /\ new.st = st /\ new.open = x4[t].open /\ Tail(x2[t]) \in Seq(UpMsg)
  BY <1>1 DEF PutRec
<1> HIDE DEF new
<1>3. UploadType' /\ SameBut(t) /\ x4'[t] = new
  BY <1>1, <1>2 DEF UploadInv, UploadType, SameBut
<1>4. Set(t) /\ Placed(t) /\ x1[t] # "pending"
  BY <1>1 DEF UploadInv, Set, Placed
<1>. QED BY <1>1, <1>2, <1>3, <1>4, OneUploadChanges DEF Placed

LEMMA RequestTimeoutKeeps ==
  ASSUME UploadInv, NEW t \in Upload!Uploads, Upload!RequestTimeout(t) PROVE UploadInv' /\ Upload!ReplacesFile
<1>1. /\ x4[t].open /\ Upload!Reply(t, "over", <<"error", "close">>) /\ UNCHANGED <<x1, x2, x5, x6, x8>>
  BY DEF Upload!RequestTimeout, Upload!Fails
<1>2. x6' \in SUBSET Upload!Uploads
  BY <1>1 DEF UploadInv, UploadType
<1>. QED BY <1>1, <1>2, AnswerKeeps

LEMMA PreparedKeeps ==
  ASSUME UploadInv, NEW t \in Upload!Uploads, Upload!Prepared(t) PROVE UploadInv' /\ Upload!ReplacesFile
<1>1. x4[t].st = "asked" /\ UNCHANGED <<x1, x2, x5, x8>> /\ x6 \in SUBSET Upload!Uploads
  BY DEF Upload!Prepared, UploadInv, UploadType
<1>2. CASE Upload!Reply(t, IF x4[t].open THEN "receive" ELSE "over", <<"ready">>)
           /\ x6' = IF x4[t].open THEN x6 \cup {t} ELSE x6
  BY <1>1, <1>2, AnswerKeeps
<1>3. CASE Upload!Reply(t, "over", <<"error", "close">>) /\ x6' = x6
  BY <1>1, <1>3, AnswerKeeps
<1>. QED BY <1>2, <1>3 DEF Upload!Prepared, Upload!Fails

LEMMA CreatedKeeps ==
  ASSUME UploadInv, NEW t \in Upload!Uploads, Upload!Created(t) PROVE UploadInv' /\ Upload!ReplacesFile
<1>1. /\ t \in x6 /\ x6' = x6 \ {t} /\ x5' = [x5 EXCEPT ![t] = "part"] /\ UNCHANGED <<x1, x2, x3, x4, x8>>
  BY DEF Upload!Created
<1>2. UploadType' /\ SameBut(t) /\ Placed(t) /\ Set(t)' = Set(t)
  BY <1>1 DEF UploadInv, UploadType, SameBut, Set
<1>. QED BY <1>1, <1>2, OneUploadChanges DEF Placed

LEMMA DoneSignalKeeps ==
  ASSUME UploadInv, NEW t \in Upload!Uploads, Upload!DoneSignal(t) PROVE UploadInv' /\ Upload!ReplacesFile
<1> DEFINE st == IF x4[t].st = "receive" THEN "end" ELSE IF x4[t].st = "failed" THEN "rename" ELSE x4[t].st
           new == [x4[t] EXCEPT !.st = st]
<1>1. /\ x2[t] # <<>> /\ x2' = [x2 EXCEPT ![t] = Tail(@)] /\ x4' = [x4 EXCEPT ![t] = new]
      /\ UNCHANGED <<x1, x3, x5, x6, x8>> /\ x4[t] \in PutRec /\ x2[t] \in Seq(UpMsg)
  BY DEF Upload!DoneSignal, UploadInv, UploadType
<1>2. new \in PutRec /\ new.st = st /\ new.open = x4[t].open /\ Tail(x2[t]) \in Seq(UpMsg)
  BY <1>1 DEF PutRec
<1> HIDE DEF new
<1>3. UploadType' /\ SameBut(t) /\ x4'[t] = new
  BY <1>1, <1>2 DEF UploadInv, UploadType, SameBut
<1>4. Set(t) /\ Placed(t) /\ x1[t] # "pending" /\ (x4[t].st = "failed" => ~x4[t].open)
  BY <1>1 DEF UploadInv, Set, Placed
<1>. QED BY <1>1, <1>2, <1>3, <1>4, OneUploadChanges DEF Placed

LEMMA EndedKeeps ==
  ASSUME UploadInv, NEW t \in Upload!Uploads, Upload!Ended(t) PROVE UploadInv' /\ Upload!ReplacesFile
<1> DEFINE new == [x4[t] EXCEPT !.st = Upload!AfterEnd(t)]
           tmp == IF x5[t] = "no" THEN "no" ELSE "whole"
<1>1. /\ x4[t].st = "end" /\ t \notin x6 /\ x4' = [x4 EXCEPT ![t] = new] /\ x5' = [x5 EXCEPT ![t] = tmp]
      /\ UNCHANGED <<x1, x2, x3, x6, x8>> /\ x4[t] \in PutRec
  BY DEF Upload!Ended, UploadInv, UploadType
<1>2. new \in PutRec /\ new.st \in {"over", "rename"} /\ new.open = x4[t].open
  BY <1>1 DEF PutRec, Upload!AfterEnd
<1> HIDE DEF new
<1>3. UploadType' /\ SameBut(t) /\ x4'[t] = new /\ x5'[t] = tmp
  BY <1>1, <1>2 DEF UploadInv, UploadType, SameBut
<1>4. Set(t) /\ Placed(t) /\ x1[t] # "pending"
  BY <1>1 DEF UploadInv, Set, Placed
<1>. QED BY <1>1, <1>2, <1>3, <1>4, OneUploadChanges DEF Placed

LEMMA WriteFailsKeeps ==
  ASSUME UploadInv, NEW t \in Upload!Uploads, Upload!WriteFails(t) PROVE UploadInv' /\ Upload!ReplacesFile
<1>1. /\ x4[t].st \in {"receive", "end"} /\ UNCHANGED <<x1, x2, x5, x8>> /\ x6' = x6 \ {t}
      /\ Upload!Reply(t, IF x4[t].st = "receive" THEN "failed" ELSE Upload!AfterEnd(t), <<"error", "close">>)
      /\ x6' \in SUBSET Upload!Uploads
  BY DEF Upload!WriteFails, Upload!Fails, UploadInv, UploadType
<1>2. Upload!AfterEnd(t) \in {"over", "rename"}
  BY DEF Upload!AfterEnd
<1>3. <<"error", "close">> # <<"ready">>
  BY RepliesAre
<1>. QED BY <1>1, <1>2, <1>3, AnswerKeeps

LEMMA ChannelEndsKeeps ==
  ASSUME UploadInv, NEW t \in Upload!Uploads, Upload!ChannelEnds(t) PROVE UploadInv' /\ Upload!ReplacesFile
<1> DEFINE new == [st |-> IF x4[t].st \in {"receive", "failed"} THEN "over" ELSE x4[t].st, open |-> FALSE,
                   closed |-> x4[t].st # "asked"]
<1>1. /\ x4[t].st # "none" /\ x4' = [x4 EXCEPT ![t] = new] /\ x2' = [x2 EXCEPT ![t] = <<>>]
      /\ UNCHANGED <<x1, x3, x5, x6, x8>> /\ x4[t] \in PutRec
  BY DEF Upload!ChannelEnds, UploadInv, UploadType
<1>2. new \in PutRec /\ ~new.open /\ (x4[t].st = "over" => new.st = "over")
  BY <1>1 DEF PutRec
<1> HIDE DEF new
<1>3. UploadType' /\ SameBut(t) /\ x4'[t] = new
  BY <1>1, <1>2 DEF UploadInv, UploadType, SameBut
<1>4. Set(t) /\ Placed(t) /\ x1[t] # "pending"
  BY <1>1 DEF UploadInv, Set, Placed
<1>. QED BY <1>1, <1>2, <1>3, <1>4, OneUploadChanges DEF Placed

LEMMA UnlinkedKeeps ==
  ASSUME UploadInv, NEW t \in Upload!Uploads, Upload!Unlinked(t) PROVE UploadInv' /\ Upload!ReplacesFile
<1>1. x5' = [x5 EXCEPT ![t] = "no"] /\ UNCHANGED <<x1, x2, x3, x4, x6, x8>>
  BY DEF Upload!Unlinked
<1>2. UploadType' /\ SameBut(t) /\ x5'[t] = "no" /\ Placed(t) /\ Set(t)' = Set(t)
  BY <1>1 DEF UploadInv, UploadType, SameBut, Set
<1>. QED BY <1>1, <1>2, OneUploadChanges DEF Placed

\* The file becomes the upload.
LEMMA RenamedKeeps ==
  ASSUME UploadInv, NEW t \in Upload!Uploads, Upload!Renamed(t) PROVE UploadInv' /\ Upload!ReplacesFile
<1>1. /\ x4[t].st = "rename" /\ UNCHANGED <<x1, x2, x6>> /\ Placed(t) /\ Set(t) /\ x6 \in SUBSET Upload!Uploads
  BY DEF Upload!Renamed, UploadInv, UploadType, Set
<1>2. CASE Upload!Reply(t, "over", <<"error", "close">>) /\ UNCHANGED <<x5, x8>>
  BY <1>1, <1>2, AnswerKeeps
<1>3. CASE /\ x5[t] # "no" /\ x8' = [of |-> t, whole |-> x5[t] = "whole"] /\ x5' = [x5 EXCEPT ![t] = "no"]
           /\ Upload!Reply(t, "over", <<"ok", "close">>)
  <2>1. /\ x3' \in [Upload!Uploads -> Seq(DownMsg)] /\ x4' \in [Upload!Uploads -> PutRec]
        /\ x4'[t].st = "over" /\ ~x4'[t].open
        /\ x3'[t] # <<>> => x1[t] \in Upload!Running \/ x3[t] # <<>>
        /\ OkIn(x3'[t]) => OkIn(x3[t]) \/ x4[t].open
        /\ \A q \in Upload!Uploads \ {t} : x3'[q] = x3[q] /\ x4'[q] = x4[q]
    BY <1>3, RepliesAre, ReplyIs
  <2>2. UploadType'
    BY <1>1, <1>3, <2>1 DEF UploadInv, UploadType
  <2>3. \A q \in Upload!Uploads \ {t} : x5'[q] = x5[q]
    BY <1>3 DEF UploadInv, UploadType
  <2>4. x8'.of = t /\ x8'.whole = (x5[t] = "whole") /\ t # Upload!None
    BY <1>3 DEF Upload!Uploads, Upload!None
  <2>5. x4[t].open => x5[t] = "whole"
    BY <1>1, <1>3 DEF Placed, UploadInv, UploadType
  \* An upload before this one has ended, and is not done unless it is over; one
  \* after this one has not begun or has found this one ended.
  <2>6. ASSUME NEW q \in Upload!Uploads, Set(q), t < q PROVE Upload!GivenUp(t)
    BY <1>1, <2>6 DEF UploadInv, Placed, Ends, Upload!GivenUp
  <2>7. Placed(t)'
    <3>1. Set(t)' => Set(t)
      BY <1>1
    <3>2. OkIn(x3'[t]) => Stands(t)'
      BY <1>1, <1>3, <2>4, <2>5, <2>1 DEF Placed, Stands
    <3>. QED BY <1>1, <2>1, <2>4, <3>1, <3>2 DEF Placed
  <2>8. ASSUME NEW q \in Upload!Uploads \ {t} PROVE Placed(q)'
    <3>1. Placed(q) /\ Set(q)' = Set(q)
      BY <1>1, <2>1, <2>8 DEF UploadInv, Set
    <3>2. ASSUME OkIn(x3[q]) PROVE Stands(q)'
      <4>1. x1[q] \in Upload!Running /\ Set(q) /\ x3[q] # <<>>
        <5>1. x3[q] # <<>>
          BY <3>2, RepliesAre
        <5>. QED BY <3>1, <5>1 DEF Placed, Set
      <4>2. ~(q < t)
        BY <1>1, <4>1 DEF Placed, Upload!Running, Ends
      <4>3. t < q
        BY <2>8, <4>2 DEF Upload!Uploads
      <4>4. Upload!GivenUp(t)'
        BY <1>1, <2>6, <4>1, <4>3 DEF Upload!GivenUp
      <4>. QED BY <2>4, <4>3, <4>4 DEF Stands, Upload!GivenUp
    <3>3. x8'.of # q
      BY <2>4, <2>8
    <3>. QED BY <1>1, <2>1, <2>3, <2>8, <3>1, <3>2, <3>3 DEF Placed
  <2>9. UploadInv'
    BY <2>2, <2>4, <2>7, <2>8 DEF UploadInv
  <2>10. x8.of > t => Upload!GivenUp(t)
    <3> SUFFICES ASSUME x8.of > t PROVE Upload!GivenUp(t)
      OBVIOUS
    <3>1. x8.of \in Upload!Uploads
      BY DEF UploadInv, UploadType, Upload!Uploads, Upload!None
    <3>2. Set(x8.of) /\ t < x8.of
      BY <3>1 DEF UploadInv, Placed, Set, Upload!Uploads
    <3>. QED BY <2>6, <3>1, <3>2
  <2>. QED BY <1>1, <2>4, <2>5, <2>9, <2>10 DEF Upload!ReplacesFile
<1>. QED BY <1>2, <1>3 DEF Upload!Renamed, Upload!Told, Upload!Fails
\* The file is gone, or empty.
LEMMA EmptiedKeeps ==
  ASSUME UploadInv, Upload!Delete \/ Upload!CreateWrites PROVE UploadInv' /\ Upload!ReplacesFile
<1>1. /\ x8' = Upload!Empty /\ UNCHANGED <<x1, x2, x3, x4, x5, x6>>
      /\ x8'.of = Upload!None /\ x8'.whole = TRUE
  BY DEF Upload!Delete, Upload!CreateWrites, Upload!transfer, Upload!Empty
<1>2. x8' \in [of : Upload!Uploads \cup {Upload!None}, whole : BOOLEAN]
  BY <1>1 DEF Upload!Empty
<1>3. UploadType'
  BY <1>1, <1>2 DEF UploadInv, UploadType
<1>4. ASSUME NEW t \in Upload!Uploads PROVE Placed(t)' /\ t # Upload!None
  <2>1. Placed(t) /\ Set(t)' = Set(t) /\ t # Upload!None
    BY <1>1 DEF UploadInv, Set, Upload!Uploads, Upload!None
  <2>2. Stands(t)'
    BY <1>1 DEF Stands
  <2>. QED BY <1>1, <2>1, <2>2 DEF Placed
<1>. QED BY <1>1, <1>3, <1>4 DEF UploadInv, Upload!ReplacesFile

\* The peer connection breaks, or the plugin restarts.
LEMMA BreaksKeeps ==
  ASSUME UploadInv, Upload!Breaks \/ Upload!Restart PROVE UploadInv' /\ Upload!ReplacesFile
<1>1. /\ UNCHANGED <<x1, x5, x8>> /\ x6' \in {x6, {}}
      /\ x3' = [t \in Upload!Uploads |-> IF x1[t] \in Upload!Running THEN <<"close">> ELSE <<>>]
  BY DEF Upload!Breaks, Upload!Restart
<1>2. /\ x2' \in [Upload!Uploads -> Seq(UpMsg)] /\ x4' \in [Upload!Uploads -> PutRec]
      /\ \A t \in Upload!Uploads :
           /\ x4'[t].open => x4[t].open
           /\ x4'[t].st \in {"over", x4[t].st}
           /\ x4[t].st = "none" /\ x1[t] \notin Upload!Running => x4'[t] = x4[t] /\ x2'[t] = <<>>
  <2>1. <<"close">> \in Seq(UpMsg) /\ <<>> \in Seq(UpMsg)
    BY DEF UpMsg
  <2>2. \A t \in Upload!Uploads : x4[t] \in PutRec
    BY DEF UploadInv, UploadType
  <2>3. CASE Upload!Breaks
    <3>1. \A t \in Upload!Uploads :
            LET new == [x4[t] EXCEPT !.open = FALSE] IN new \in PutRec /\ ~new.open /\ new.st = x4[t].st
      BY <2>2 DEF PutRec
    <3>. QED BY <2>1, <2>2, <2>3, <3>1 DEF Upload!Breaks, Upload!Live
  <2>4. CASE Upload!Restart
    <3>1. LET new == [st |-> "over", open |-> FALSE, closed |-> TRUE] IN
          new \in PutRec /\ new.open = FALSE /\ new.st = "over"
      BY DEF PutRec
    <3>. QED BY <2>1, <2>2, <2>4, <3>1 DEF Upload!Restart, Upload!Live
  <2>. QED BY <2>3, <2>4
<1>3. UploadType'
  <2>1. <<"close">> \in Seq(DownMsg) /\ <<>> \in Seq(DownMsg)
    BY RepliesAre
  <2>. QED BY <1>1, <1>2, <2>1 DEF UploadInv, UploadType
<1>4. ASSUME NEW t \in Upload!Uploads PROVE Placed(t)'
  <2>1. Placed(t)
    BY DEF UploadInv
  <2>2. ~OkIn(x3'[t]) /\ (x3'[t] # <<>> => x1[t] \in Upload!Running)
    BY <1>1, RepliesAre
  <2>3. Set(t)' => Set(t)
    BY <1>1, <1>2 DEF Set
  <2>4. /\ x4'[t].open => x4[t].open
        /\ x4'[t].st \in {"over", x4[t].st}
    BY <1>2
  <2>. QED BY <1>1, <2>1, <2>2, <2>3, <2>4 DEF Placed
<1>. QED BY <1>1, <1>3, <1>4 DEF UploadInv, Upload!ReplacesFile

LEMMA UploadStep == ASSUME UploadInv, Upload!Next PROVE UploadInv' /\ Upload!ReplacesFile
<1>1. ASSUME NEW t \in Upload!Uploads,
             \/ Upload!Start(t) \/ Upload!NotStarted(t) \/ Upload!Opened(t) \/ Upload!Sent(t)
             \/ Upload!GivesUp(t) \/ Upload!Ready(t) \/ Upload!Result(t)
      PROVE  UploadInv' /\ Upload!ReplacesFile
  BY <1>1, StartUploadKeeps, NotStartedKeeps, OpenedKeeps, SentKeeps, GivesUpKeeps, ReadyKeeps, ResultKeeps
<1>2. ASSUME NEW t \in Upload!Uploads,
             \/ Upload!Request(t) \/ Upload!RequestTimeout(t) \/ Upload!Prepared(t) \/ Upload!Created(t)
             \/ Upload!DoneSignal(t) \/ Upload!Ended(t) \/ Upload!WriteFails(t) \/ Upload!Renamed(t)
             \/ Upload!ChannelEnds(t) \/ Upload!Unlinked(t)
      PROVE  UploadInv' /\ Upload!ReplacesFile
  BY <1>2, RequestKeeps, RequestTimeoutKeeps, PreparedKeeps, CreatedKeeps, DoneSignalKeeps, EndedKeeps,
     WriteFailsKeeps, RenamedKeeps, ChannelEndsKeeps, UnlinkedKeeps
<1>3. CASE Upload!CleanUp \/ Upload!CreateLooks
  <2>1. UNCHANGED <<x1, x2, x3, x4, x5, x6, x8>>
    BY <1>3 DEF Upload!CleanUp, Upload!CreateLooks, Upload!transfer
  <2>. QED BY <2>1 DEF UploadInv, UploadType, Placed, Set, Stands, Upload!GivenUp, Upload!ReplacesFile
<1>4. CASE Upload!Delete \/ Upload!CreateWrites \/ Upload!Breaks \/ Upload!Restart
  BY <1>4, EmptiedKeeps, BreaksKeeps
<1>. QED BY <1>1, <1>2, <1>3, <1>4 DEF Upload!Next
-----------------------------------------------------------------------------
(* The tasks of the file transfers *)

\* A set of numbers that is not empty has a least one.
LEMMA LeastOf == ASSUME NEW S \in SUBSET Nat, S # {} PROVE \E n \in S : \A m \in S : n <= m
<1> DEFINE R == OpToRel(<, Nat)
<1>1. IsWellFoundedOn(R, Nat)
  BY NatLessThanWellFounded
<1>2. \A n, m \in Nat : m < n => <<m, n>> \in R
  BY DEF OpToRel
<1> HIDE DEF R
<1>3. PICK n \in S : \A m \in S : <<m, n>> \notin R
  BY <1>1, WFMin
<1>4. n \in Nat /\ \A m \in S : m \in Nat /\ ~(m < n)
  BY <1>2, <1>3, Zenon
<1>. QED BY <1>3, <1>4, SMT

TaskStates == {"none", "pending", "running", "done", "failed", "cancelled", "gone"}

\* Of the uploads at most one runs, ...
OneUp(st) == \A t, r \in Tasks!Of(st, "upload", {"running"}) : t = r
\* ... and none waits when none runs.
GoesOn(st) == Tasks!Of(st, "upload", {"running"}) = {} => Tasks!Of(st, "upload", {"pending"}) = {}
OneDown(st) == \A t, r \in Tasks!Of(st, "download", {"running"}) : t = r

LEMMA QueueIs ==
  Tasks!QueueGoesOn <=> Tasks!TypeOK /\ OneUp(x1) /\ GoesOn(x1) /\ (x4 = 0 => OneDown(x1))
  BY DEF Tasks!QueueGoesOn, Tasks!Single, OneUp, GoesOn, OneDown

LEMMA TasksInit == ASSUME Tasks!Init PROVE Tasks!QueueGoesOn
<1>1. Tasks!TypeOK
  <2>1. x4 \in 0..MaxRetry
    BY BoundsAssumption DEF Tasks!Init
  <2>2. x1 \in [Tasks!Tasks -> TaskStates] /\ x2 \in [Tasks!Tasks -> {"upload", "download"}] /\ x3 \in BOOLEAN
    BY DEF Tasks!Init, TaskStates
  <2>. QED BY <2>1, <2>2 DEF Tasks!TypeOK, TaskStates
<1>2. OneUp(x1) /\ GoesOn(x1) /\ OneDown(x1)
  BY DEF Tasks!Init, OneUp, GoesOn, OneDown, Tasks!Of
<1>. QED BY <1>1, <1>2, QueueIs

\* __runUploadQueue: one upload runs if one could, and the downloads stay as they are.
LEMMA QueueRuns ==
  ASSUME NEW st \in [Tasks!Tasks -> TaskStates], OneUp(st), x2 \in [Tasks!Tasks -> {"upload", "download"}]
  PROVE  LET new == Tasks!RunUploadQueue(st) IN
         /\ new \in [Tasks!Tasks -> TaskStates] /\ OneUp(new) /\ GoesOn(new)
         /\ \A t \in Tasks!Tasks : x2[t] = "download" => new[t] = st[t]
<1> DEFINE pending == Tasks!Of(st, "upload", {"pending"})
           first == CHOOSE t \in pending : \A r \in pending : t <= r
           failed == [t \in Tasks!Tasks |-> IF t \in pending THEN "failed" ELSE st[t]]
           new == Tasks!RunUploadQueue(st)
<1>1. CASE Tasks!Of(st, "upload", {"running"}) # {} \/ pending = {}
  <2>1. new = st
    BY <1>1 DEF Tasks!RunUploadQueue
  <2>. QED BY <1>1, <2>1 DEF GoesOn
<1>2. CASE Tasks!Of(st, "upload", {"running"}) = {} /\ pending # {} /\ x3
  <2>1. first \in pending
    <3>1. pending \in SUBSET Nat
      BY DEF Tasks!Of, Tasks!Tasks
    <3> HIDE DEF pending
    <3>2. \E t \in pending : \A r \in pending : t <= r
      BY <1>2, <3>1, LeastOf
    <3>. QED BY <3>2
  <2>2. new = [st EXCEPT ![first] = "running"]
    BY <1>2 DEF Tasks!RunUploadQueue, Tasks!Execute
  <2> HIDE DEF first
  <2>3. first \in Tasks!Tasks /\ x2[first] = "upload" /\ st[first] = "pending"
    BY <2>1 DEF Tasks!Of
  <2>4. new \in [Tasks!Tasks -> TaskStates]
    BY <2>2, <2>3 DEF TaskStates
  <2>. QED BY <1>2, <2>2, <2>3, <2>4 DEF OneUp, GoesOn, Tasks!Of
<1>3. CASE Tasks!Of(st, "upload", {"running"}) = {} /\ pending # {} /\ ~x3
  <2>1. new = failed
    BY <1>3 DEF Tasks!RunUploadQueue
  <2>2. failed \in [Tasks!Tasks -> TaskStates]
    BY DEF TaskStates
  <2>. QED BY <1>3, <2>1, <2>2 DEF OneUp, GoesOn, Tasks!Of
<1>. QED BY <1>1, <1>2, <1>3

\* What a step makes of the states of the tasks, if the downloads keep theirs or
\* one of them begins when it may.
LEMMA QueueKept ==
  ASSUME Tasks!QueueGoesOn, x2' = x2, x3' \in BOOLEAN, x4' \in 0..MaxRetry,
         x1' \in [Tasks!Tasks -> TaskStates], OneUp(x1'), GoesOn(x1'), x4' = 0 => x4 = 0,
         x4' = 0 => OneDown(x1')
  PROVE  Tasks!QueueGoesOn'
<1>1. Tasks!TypeOK'
  BY DEF Tasks!QueueGoesOn, Tasks!TypeOK, TaskStates
<1>2. OneUp(x1)' /\ GoesOn(x1)' /\ (x4' = 0 => OneDown(x1)')
  BY DEF OneUp, GoesOn, OneDown, Tasks!Of
<1>. QED BY <1>1, <1>2 DEF Tasks!QueueGoesOn, Tasks!Single, OneUp, GoesOn, OneDown

\* The downloads that run stay as few when no other is begun.
LEMMA DownKept ==
  ASSUME Tasks!QueueGoesOn, NEW new \in [Tasks!Tasks -> TaskStates], x4 = 0,
         \A t \in Tasks!Tasks : x2[t] = "download" /\ new[t] = "running" => x1[t] = "running"
  PROVE  OneDown(new)
  BY QueueIs DEF OneDown, Tasks!Of

LEMMA EnqueueUploadsKeeps ==
  ASSUME Tasks!QueueGoesOn, NEW ts \in SUBSET Tasks!Tasks, Tasks!EnqueueUploads(ts) PROVE Tasks!QueueGoesOn'
<1> DEFINE st == [t \in Tasks!Tasks |-> IF t \in ts THEN "pending" ELSE x1[t]]
<1>1. /\ x1' = Tasks!RunUploadQueue(st) /\ UNCHANGED <<x2, x3, x4>> /\ Tasks!TypeOK
      /\ \A t \in ts : x2[t] = "upload"
  BY DEF Tasks!EnqueueUploads, Tasks!QueueGoesOn
<1>2. st \in [Tasks!Tasks -> TaskStates] /\ OneUp(st)
  BY QueueIs DEF TaskStates, Tasks!TypeOK, OneUp, Tasks!Of
<1>3. \A t \in Tasks!Tasks : x2[t] = "download" => st[t] = x1[t]
  BY <1>1
<1> HIDE DEF st
<1>4. /\ x1' \in [Tasks!Tasks -> TaskStates] /\ OneUp(x1') /\ GoesOn(x1')
      /\ \A t \in Tasks!Tasks : x2[t] = "download" => x1'[t] = st[t]
  BY <1>1, <1>2, QueueRuns DEF Tasks!TypeOK
<1>5. x4 = 0 => OneDown(x1')
  BY <1>3, <1>4, DownKept
<1>. QED BY <1>1, <1>4, <1>5, QueueKept DEF Tasks!TypeOK

\* One task has another state: the queue goes on, if it is an upload.
LEMMA OneTaskChanges ==
  ASSUME Tasks!QueueGoesOn, NEW t \in Tasks!Tasks, NEW how \in TaskStates \ {"running"}, x1[t] = "running",
         x1' = Tasks!GoneOn([x1 EXCEPT ![t] = how], t), UNCHANGED <<x2, x3, x4>>, how # "pending"
  PROVE  Tasks!QueueGoesOn'
<1> DEFINE st == [x1 EXCEPT ![t] = how]
<1>1. Tasks!TypeOK /\ x1 \in [Tasks!Tasks -> TaskStates]
  BY DEF Tasks!QueueGoesOn, Tasks!TypeOK, TaskStates
<1>2. st \in [Tasks!Tasks -> TaskStates] /\ OneUp(st)
  BY <1>1, QueueIs DEF OneUp, Tasks!Of
<1>3. \A r \in Tasks!Tasks : r # t => st[r] = x1[r]
  BY <1>1
<1>4. st[t] = how
  BY <1>1
<1>5. x2[t] = "download" => GoesOn(st)
  BY <1>3, QueueIs DEF GoesOn, Tasks!Of
<1> HIDE DEF st
<1>6. /\ x1' \in [Tasks!Tasks -> TaskStates] /\ OneUp(x1') /\ GoesOn(x1')
      /\ \A r \in Tasks!Tasks : x2[r] = "download" => x1'[r] = st[r]
  <2>1. CASE x2[t] = "upload"
    <3>1. x1' = Tasks!RunUploadQueue(st)
      BY <2>1 DEF Tasks!GoneOn, st
    <3>. QED BY <1>1, <1>2, <3>1, QueueRuns DEF Tasks!TypeOK
  <2>2. CASE x2[t] # "upload"
    <3>1. x1' = st /\ x2[t] = "download"
      BY <1>1, <2>2 DEF Tasks!GoneOn, st, Tasks!TypeOK
    <3>. QED BY <1>2, <1>5, <3>1
  <2>. QED BY <2>1, <2>2
<1>7. x4 = 0 => OneDown(x1')
  BY <1>3, <1>4, <1>6, DownKept
<1>. QED BY <1>1, <1>6, <1>7, QueueKept DEF Tasks!TypeOK

LEMMA EnqueueDownloadKeeps ==
  ASSUME Tasks!QueueGoesOn, NEW t \in Tasks!Tasks, Tasks!EnqueueDownload(t) PROVE Tasks!QueueGoesOn'
<1>1. /\ x2[t] = "download" /\ Tasks!Of(x1, "download", {"pending", "running"}) = {}
      /\ x1' = [x1 EXCEPT ![t] = IF x3 THEN "running" ELSE "failed"] /\ UNCHANGED <<x2, x3, x4>> /\ Tasks!TypeOK
  BY DEF Tasks!EnqueueDownload, Tasks!Execute, Tasks!QueueGoesOn
<1>2. x1' \in [Tasks!Tasks -> TaskStates] /\ \A r \in Tasks!Tasks : r # t => x1'[r] = x1[r]
  BY <1>1 DEF Tasks!TypeOK, TaskStates
<1>3. OneUp(x1') /\ GoesOn(x1') /\ OneDown(x1')
  BY <1>1, <1>2, QueueIs DEF OneUp, GoesOn, OneDown, Tasks!Of
<1>. QED BY <1>1, <1>2, <1>3, QueueKept DEF Tasks!TypeOK

LEMMA CancelTaskKeeps ==
  ASSUME Tasks!QueueGoesOn, NEW t \in Tasks!Tasks, Tasks!CancelTask(t) PROVE Tasks!QueueGoesOn'
<1>1. CASE x1[t] = "running"
  BY <1>1, OneTaskChanges DEF Tasks!CancelTask, TaskStates
<1>2. CASE x1[t] = "pending"
  <2>1. x1' = [x1 EXCEPT ![t] = "cancelled"] /\ UNCHANGED <<x2, x3, x4>> /\ Tasks!TypeOK
    BY <1>2 DEF Tasks!CancelTask, Tasks!QueueGoesOn
  <2>2. /\ x1' \in [Tasks!Tasks -> TaskStates] /\ x1'[t] = "cancelled"
        /\ \A r \in Tasks!Tasks : r # t => x1'[r] = x1[r]
    BY <2>1 DEF Tasks!TypeOK, TaskStates
  <2>3. OneUp(x1') /\ GoesOn(x1') /\ (x4 = 0 => OneDown(x1'))
    BY <1>2, <2>2, QueueIs DEF OneUp, GoesOn, OneDown, Tasks!Of
  <2>. QED BY <2>1, <2>2, <2>3, QueueKept DEF Tasks!TypeOK
<1>. QED BY <1>1, <1>2 DEF Tasks!CancelTask

LEMMA RetryTaskKeeps ==
  ASSUME Tasks!QueueGoesOn, NEW t \in Tasks!Tasks, Tasks!RetryTask(t) PROVE Tasks!QueueGoesOn'
<1>1. x1[t] = "failed" /\ x4' = x4 + 1 /\ UNCHANGED <<x2, x3>> /\ Tasks!TypeOK /\ x4' \in 0..MaxRetry /\ x4' # 0
  BY BoundsAssumption DEF Tasks!RetryTask, Tasks!QueueGoesOn, Tasks!TypeOK
<1>2. CASE x2[t] = "upload"
  <2> DEFINE st == [x1 EXCEPT ![t] = "pending"]
  <2>1. x1' = Tasks!RunUploadQueue(st)
    BY <1>2 DEF Tasks!RetryTask
  <2>2. st \in [Tasks!Tasks -> TaskStates] /\ OneUp(st)
    BY <1>1, QueueIs DEF TaskStates, Tasks!TypeOK, OneUp, Tasks!Of
  <2> HIDE DEF st
  <2>3. x1' \in [Tasks!Tasks -> TaskStates] /\ OneUp(x1') /\ GoesOn(x1')
    BY <1>1, <2>1, <2>2, QueueRuns DEF Tasks!TypeOK
  <2>. QED BY <1>1, <2>3, QueueKept DEF Tasks!TypeOK
<1>3. CASE x2[t] # "upload"
  <2>1. x1' = [x1 EXCEPT ![t] = IF x3 THEN "running" ELSE "failed"]
    BY <1>3 DEF Tasks!RetryTask, Tasks!Execute
  <2>2. x1' \in [Tasks!Tasks -> TaskStates] /\ \A r \in Tasks!Tasks : r # t => x1'[r] = x1[r]
    BY <1>1, <2>1 DEF Tasks!TypeOK, TaskStates
  <2>3. OneUp(x1') /\ GoesOn(x1')
    BY <1>3, <2>2, QueueIs DEF OneUp, GoesOn, Tasks!Of
  <2>. QED BY <1>1, <2>2, <2>3, QueueKept DEF Tasks!TypeOK
<1>. QED BY <1>2, <1>3

LEMMA ClearFinishedKeeps == ASSUME Tasks!QueueGoesOn, Tasks!ClearFinished PROVE Tasks!QueueGoesOn'
<1>1. UNCHANGED <<x2, x3, x4>> /\ Tasks!TypeOK
  BY DEF Tasks!ClearFinished, Tasks!QueueGoesOn
<1>2. /\ x1' \in [Tasks!Tasks -> TaskStates]
      /\ \A t \in Tasks!Tasks : x1'[t] \in {"pending", "running"} \/ x1[t] \in {"pending", "running"} => x1'[t] = x1[t]
  BY <1>1 DEF Tasks!ClearFinished, Tasks!TypeOK, TaskStates
<1>3. OneUp(x1') /\ GoesOn(x1') /\ (x4 = 0 => OneDown(x1'))
  BY <1>2, QueueIs DEF OneUp, GoesOn, OneDown, Tasks!Of
<1>. QED BY <1>1, <1>2, <1>3, QueueKept DEF Tasks!TypeOK

LEMMA TasksStep == ASSUME Tasks!QueueGoesOn, Tasks!Next PROVE Tasks!QueueGoesOn'
<1>1. ASSUME NEW t \in Tasks!Tasks, NEW how \in {"done", "failed"}, Tasks!Ends(t, how) PROVE Tasks!QueueGoesOn'
  BY <1>1, OneTaskChanges DEF Tasks!Ends, TaskStates
<1>2. CASE Tasks!RtcChanges
  <2>1. Tasks!TypeOK'
    BY <1>2 DEF Tasks!RtcChanges, Tasks!QueueGoesOn, Tasks!TypeOK
  <2>. QED BY <1>2, <2>1 DEF Tasks!RtcChanges, Tasks!QueueGoesOn, Tasks!Single, Tasks!Of
<1>. QED BY <1>1, <1>2, EnqueueUploadsKeeps, EnqueueDownloadKeeps, CancelTaskKeeps, RetryTaskKeeps,
            ClearFinishedKeeps DEF Tasks!Next
-----------------------------------------------------------------------------
(* What the hub hands on between the tabs and the plugin *)

\* TypeOK, with the times a message is carried out at most one.
RelayType ==
    /\ x1 \in [Uis -> {"unused", "session", "open", "closing", "closed"}] /\ x2 \in [Uis -> Tickets]
    /\ x3 \in SUBSET (Uis \X Tickets) /\ x4 \in [Tickets -> {"none", "issued", "expired", "gone"}]
    /\ x5 \in [BotSocks -> {"unused", "open", "closing", "closed"}] /\ x6 \in SUBSET BotSocks
    /\ x7 \in [Relay!Messages -> SUBSET Uis] /\ x8 \in SUBSET (Relay!Messages \X BotSocks)
    /\ x9 \in [Relay!Messages -> {0, 1}] /\ x10 \in SUBSET (Relay!Messages \X Uis \X {"res", "offline"})

\* A ticket that has let a socket in is gone.
TicketsGone == \A y \in x3 : x4[y[2]] = "gone"

\* The plugin has one open socket, which is in botSockets; none there is unused.
OneBotSocket ==
    /\ \A b \in BotSocks : x5[b] = "open" => b \in x6
    /\ \A b, c \in BotSocks : x5[b] = "open" /\ x5[c] = "open" => b = c
    /\ \A b \in x6 : x5[b] # "unused"

\* A message was put on the way once, by its tab; it is there or was carried out.
OnTheWayOnce ==
    /\ \A y, z \in x8 : y[1] = z[1] => y = z
    /\ \A y \in x8 : x9[y[1]] = 0 /\ x7[y[1]] # {}
    /\ \A m \in Relay!Messages : x9[m] = 1 => x7[m] # {} /\ BotSocks # {}

\* What was refused is not on the way, and what has an answer was carried out.
ToldRight ==
    \A y \in x10 :
        /\ x7[y[1]] # {}
        /\ y[3] = "offline" => x9[y[1]] = 0 /\ \A z \in x8 : z[1] # y[1]
        /\ y[3] = "res" => x9[y[1]] = 1
        /\ y[1] \in Offers => y[2] \in x7[y[1]]

RelayInv ==
    /\ RelayType /\ TicketsGone /\ Relay!TicketOnce
    /\ OneBotSocket /\ OnTheWayOnce /\ ToldRight /\ Relay!LostOnlyByClosing

LEMMA RelayInit == ASSUME Relay!Init PROVE RelayInv
  BY DEF Relay!Init, RelayInv, RelayType, TicketsGone, Relay!TicketOnce, OneBotSocket, OnTheWayOnce, ToldRight,
         Relay!LostOnlyByClosing

LEMMA RelayCardinality == ASSUME NEW S PROVE Relay!Cardinality(S) = Cardinality(S)
  BY Zenon DEF Relay!Cardinality, Cardinality

\* A message on the way to the open socket is one.
LEMMA RelayIsKept == ASSUME RelayInv PROVE Relay!RelayKept
<1>1. ASSUME NEW m \in Relay!Messages
      PROVE  x9[m] + Cardinality({y \in x8 : y[1] = m /\ x5[y[2]] = "open"}) <= 1
  <2> DEFINE S == {y \in x8 : y[1] = m /\ x5[y[2]] = "open"}
  <2>1. CASE S = {}
    <3>1. Cardinality(S) = 0
      BY <2>1, FS_EmptySet
    <3> HIDE DEF S
    <3>2. x9[m] \in {0, 1}
      BY DEF RelayInv, RelayType
    <3>. QED BY <3>1, <3>2 DEF S
  <2>2. CASE S # {}
    <3>1. PICK y \in x8 : y[1] = m /\ y \in S
      BY <2>2
    <3>2. S = {y} /\ x9[m] = 0
      BY <3>1 DEF RelayInv, OnTheWayOnce
    <3>3. Cardinality({y}) = 1
      BY FS_Singleton
    <3> HIDE DEF S
    <3>. QED BY <3>2, <3>3 DEF S
  <2>. QED BY <2>1, <2>2
<1>2. Relay!OnceOrRefused
  <2>1. \A y \in x10 : y[3] = "offline" <=> x9[y[1]] = 0
    BY DEF RelayInv, ToldRight, RelayType
  <2>2. \A y \in x10 : y[1] \in Offers => y[2] \in x7[y[1]]
    BY DEF RelayInv, ToldRight
  <2>3. \A m \in Relay!Messages : x9[m] + Cardinality({y \in x8 : y[1] = m /\ x5[y[2]] = "open"}) <= 1
    BY <1>1
  <2>4. \A m \in Relay!Messages : x9[m] + Relay!Cardinality({y \in x8 : y[1] = m /\ x5[y[2]] = "open"}) <= 1
    BY <2>3, RelayCardinality, Zenon
  <2>. QED BY <2>1, <2>2, <2>4, Zenon DEF Relay!OnceOrRefused
<1>3. Relay!TypeOK
  <2>1. ASSUME NEW m \in Relay!Messages PROVE x9[m] \in 0..Cardinality(BotSocks)
    <3>1. Cardinality(BotSocks) \in Nat /\ (BotSocks # {} => Cardinality(BotSocks) # 0)
      BY BoundsAssumption, FS_CardinalityType, FS_EmptySet
    <3>2. x9[m] \in {0, 1} /\ (x9[m] = 1 => BotSocks # {})
      BY DEF RelayInv, RelayType, OnTheWayOnce
    <3>. QED BY <3>1, <3>2
  <2>2. x9 \in [Relay!Messages -> 0..Relay!Cardinality(BotSocks)]
    BY <2>1, RelayCardinality DEF RelayInv, RelayType
  <2>. QED BY <2>2 DEF RelayInv, RelayType, Relay!TypeOK
<1>. QED BY <1>2, <1>3 DEF RelayInv, Relay!RelayKept

\* Tickets and the tabs' sockets.
LEMMA TicketKeeps ==
  ASSUME RelayInv, NEW t \in Tickets, Relay!CreateTicket(t) \/ Relay!Expire(t) \/ Relay!Prune(t) PROVE RelayInv'
<1>1. /\ UNCHANGED <<x1, x2, x3, x5, x6, x7, x8, x9, x10>>
      /\ x4' \in [Tickets -> {"none", "issued", "expired", "gone"}] /\ \A s \in Tickets : x4[s] = "gone" => x4'[s] = "gone"
  BY DEF RelayInv, RelayType, Relay!CreateTicket, Relay!CreateUiWsTicket, Relay!Expire, Relay!Prune, Relay!botVars
<1>2. RelayType'
  BY <1>1 DEF RelayInv, RelayType
<1>3. TicketsGone' /\ Relay!TicketOnce'
  BY <1>1 DEF RelayInv, RelayType, TicketsGone, Relay!TicketOnce
<1>4. OneBotSocket' /\ OnTheWayOnce' /\ ToldRight' /\ Relay!LostOnlyByClosing'
  BY <1>1 DEF RelayInv, OneBotSocket, OnTheWayOnce, ToldRight, Relay!LostOnlyByClosing
<1>. QED BY <1>2, <1>3, <1>4 DEF RelayInv

LEMMA UiSocketKeeps ==
  ASSUME RelayInv, NEW w \in Uis,
         \/ Relay!Upgrade(w) \/ Relay!SessionFound(w) \/ Relay!NoSession(w) \/ Relay!UiLeaves(w)
         \/ Relay!UiCloseEvent(w)
  PROVE  RelayInv'
<1> DEFINE t == x2[w]
<1>1. /\ UNCHANGED <<x2, x5, x6, x7, x8, x9, x10>> /\ t \in Tickets
      /\ x1' \in [Uis -> {"unused", "session", "open", "closing", "closed"}]
      /\ \/ UNCHANGED <<x3, x4>>
         \/ /\ x4' = [x4 EXCEPT ![t] = "gone"]
            /\ x3' = x3 \/ (x4[t] = "issued" /\ x3' = x3 \cup {<<w, t>>})
  BY DEF RelayInv, RelayType, Relay!Upgrade, Relay!SessionFound, Relay!NoSession, Relay!TakeTicket, Relay!UiLeaves,
         Relay!UiCloseEvent, Relay!botVars
<1>2. RelayType'
  BY <1>1 DEF RelayInv, RelayType
<1>3. TicketsGone' /\ Relay!TicketOnce'
  <2>1. CASE UNCHANGED <<x3, x4>>
    BY <2>1 DEF RelayInv, TicketsGone, Relay!TicketOnce
  <2>2. CASE x4' = [x4 EXCEPT ![t] = "gone"] /\ x3' = x3
    BY <1>1, <2>2 DEF RelayInv, RelayType, TicketsGone, Relay!TicketOnce
  <2>3. CASE x4' = [x4 EXCEPT ![t] = "gone"] /\ x4[t] = "issued" /\ x3' = x3 \cup {<<w, t>>}
    <3>1. \A y \in x3 : y[2] # t
      BY <2>3 DEF RelayInv, TicketsGone
    <3>2. TicketsGone'
      BY <1>1, <2>3 DEF RelayInv, RelayType, TicketsGone
    <3>. QED BY <2>3, <3>1, <3>2 DEF RelayInv, Relay!TicketOnce
  <2>. QED BY <1>1, <2>1, <2>2, <2>3
<1>4. OneBotSocket' /\ OnTheWayOnce' /\ ToldRight' /\ Relay!LostOnlyByClosing'
  BY <1>1 DEF RelayInv, OneBotSocket, OnTheWayOnce, ToldRight, Relay!LostOnlyByClosing
<1>. QED BY <1>2, <1>3, <1>4 DEF RelayInv

\* The plugin's sockets.
LEMMA BotSocketKeeps ==
  ASSUME RelayInv, NEW b \in BotSocks, Relay!BotConnects(b) \/ Relay!BotLeaves(b) \/ Relay!BotCloseEvent(b)
  PROVE  RelayInv'
<1>1. /\ UNCHANGED <<x1, x2, x3, x4, x7, x9, x10>> /\ x5' \in [BotSocks -> {"unused", "open", "closing", "closed"}]
      /\ x6' \in SUBSET BotSocks /\ x8' \subseteq x8 /\ OneBotSocket'
      /\ \A c \in BotSocks : x5[c] \in {"closing", "closed"} => x5'[c] \in {"closing", "closed"}
      /\ x8' = x8 \/ x5'[b] = "closed"
  <2>1. CASE Relay!BotConnects(b)
    <3>1. /\ x5[b] = "unused" /\ x5' = [Relay!Terminated EXCEPT ![b] = "open"] /\ x6' = x6 \cup {b}
          /\ UNCHANGED <<x1, x2, x3, x4, x7, x8, x9, x10>>
      BY <2>1 DEF Relay!BotConnects, Relay!uiVars
    <3>2. /\ x5' \in [BotSocks -> {"unused", "open", "closing", "closed"}] /\ x5'[b] = "open"
          /\ \A c \in BotSocks \ {b} : x5'[c] = IF c \in x6 /\ x5[c] = "open" THEN "closing" ELSE x5[c]
      BY <3>1 DEF Relay!Terminated, RelayInv, RelayType
    <3>. QED BY <3>1, <3>2 DEF RelayInv, RelayType, OneBotSocket
  <2>2. CASE Relay!BotLeaves(b)
    BY <2>2 DEF RelayInv, RelayType, OneBotSocket, Relay!BotLeaves, Relay!uiVars
  <2>3. CASE Relay!BotCloseEvent(b)
    BY <2>3 DEF RelayInv, RelayType, OneBotSocket, Relay!BotCloseEvent, Relay!uiVars
  <2>. QED BY <2>1, <2>2, <2>3
<1>2. RelayType'
  BY <1>1 DEF RelayInv, RelayType
<1>3. TicketsGone' /\ Relay!TicketOnce'
  BY <1>1 DEF RelayInv, TicketsGone, Relay!TicketOnce
<1>4. OnTheWayOnce' /\ ToldRight'
  BY <1>1 DEF RelayInv, OnTheWayOnce, ToldRight
<1>5. Relay!LostOnlyByClosing'
  BY <1>1 DEF RelayInv, Relay!LostOnlyByClosing
<1>. QED BY <1>1, <1>2, <1>3, <1>4, <1>5 DEF RelayInv

\* A message comes from a tab.
LEMMA UiMessageKeeps ==
  ASSUME RelayInv, NEW w \in Uis, NEW m \in Relay!Messages, Relay!OnUiMessage(w, m) PROVE RelayInv'
<1> DEFINE new == {<<m, b>> : b \in {c \in x6 : x5[c] = "open"}}
<1>1. /\ x7[m] = {} /\ x7' = [x7 EXCEPT ![m] = {w}] /\ x8' = x8 \cup new
      /\ UNCHANGED <<x1, x2, x3, x4, x5, x6, x9>>
      /\ x10' = x10 \cup {<<m, v, "offline">> : v \in {u \in {w} : x6 = {} /\ m \in Requests /\ x1[u] = "open"}}
      /\ x1[w] = "open"
  <2>1. CASE x6 = {} /\ m \in Requests
    BY <2>1 DEF Relay!OnUiMessage, Relay!ForwardToBot, Relay!Tell, Relay!uiVars, Relay!botVars
  <2>2. CASE ~(x6 = {} /\ m \in Requests)
    BY <2>2 DEF Relay!OnUiMessage, Relay!ForwardToBot, Relay!Tell, Relay!uiVars, Relay!botVars
  <2>. QED BY <2>1, <2>2
<1>2. /\ \A y \in new : y \in Relay!Messages \X BotSocks /\ y[1] = m
      /\ \A y, z \in new : y = z
      /\ x6 = {} => new = {}
      /\ \A b \in x6 : x5[b] = "open" => <<m, b>> \in new
  BY DEF RelayInv, RelayType, OneBotSocket
<1>3. /\ \A y \in x10' : y \in x10 \/ (y = <<m, w, "offline">> /\ x6 = {} /\ m \in Requests)
      /\ x6 = {} /\ m \in Requests => <<m, w, "offline">> \in x10'
      /\ \A y \in x10 : y \in x10'
  BY <1>1
<1> HIDE DEF new
<1>4. /\ \A y \in x8 : y[1] # m
      /\ \A y \in x10 : y[1] # m
      /\ x9[m] = 0
      /\ x7'[m] = {w} /\ \A n \in Relay!Messages \ {m} : x7'[n] = x7[n]
  BY <1>1 DEF RelayInv, RelayType, OnTheWayOnce, ToldRight
<1>5. RelayType'
  BY <1>1, <1>2, <1>3 DEF RelayInv, RelayType
<1>6. TicketsGone' /\ Relay!TicketOnce' /\ OneBotSocket'
  BY <1>1 DEF RelayInv, TicketsGone, Relay!TicketOnce, OneBotSocket
<1>7. OnTheWayOnce'
  BY <1>1, <1>2, <1>4 DEF RelayInv, RelayType, OnTheWayOnce
<1>8. ToldRight'
  <2> SUFFICES ASSUME NEW y \in x10'
               PROVE  /\ x7'[y[1]] # {}
                      /\ y[3] = "offline" => x9'[y[1]] = 0 /\ \A z \in x8' : z[1] # y[1]
                      /\ y[3] = "res" => x9'[y[1]] = 1
                      /\ y[1] \in Offers => y[2] \in x7'[y[1]]
    BY DEF ToldRight
  <2>1. CASE y \in x10
    <3>1. y[1] # m /\ y[1] \in Relay!Messages
      BY <1>4, <2>1 DEF RelayInv, RelayType
    <3>. QED BY <1>1, <1>2, <1>4, <2>1, <3>1 DEF RelayInv, ToldRight
  <2>2. CASE y = <<m, w, "offline">> /\ x6 = {} /\ m \in Requests
    <3>1. y[1] = m /\ y[2] = w /\ y[3] = "offline" /\ m \notin Offers
      BY <2>2, BoundsAssumption
    <3>2. \A z \in x8' : z[1] # m
      BY <1>1, <1>2, <1>4, <2>2
    <3>. QED BY <1>1, <1>4, <3>1, <3>2
  <2>. QED BY <1>3, <2>1, <2>2
<1>9. Relay!LostOnlyByClosing'
  <2> SUFFICES ASSUME NEW n \in Relay!Messages
               PROVE  \/ x7'[n] = {} \/ x9'[n] > 0 \/ \E y \in x8' : y[1] = n
                      \/ n \in Offers
                      \/ \E y \in x10' : y[1] = n
                      \/ \E b \in BotSocks : x5'[b] \in {"closing", "closed"}
    BY DEF Relay!LostOnlyByClosing
  <2>1. CASE n # m
    BY <1>1, <1>3, <1>4, <2>1 DEF RelayInv, Relay!LostOnlyByClosing
  <2>2. CASE n = m /\ m \in Requests /\ x6 = {}
    <3>1. <<m, w, "offline">>[1] = m
      OBVIOUS
    <3>. QED BY <1>3, <2>2, <3>1
  <2>3. CASE n = m /\ x6 # {}
    <3>1. PICK b \in x6 : TRUE
      BY <2>3
    <3>2. x5[b] \in {"open", "closing", "closed"} /\ b \in BotSocks
      BY DEF RelayInv, RelayType, OneBotSocket
    <3>3. x5[b] = "open" => <<m, b>> \in x8' /\ <<m, b>>[1] = m
      BY <1>1, <1>2
    <3>. QED BY <1>1, <2>3, <3>2, <3>3
  <2>. QED BY <2>1, <2>2, <2>3 DEF Relay!Messages
<1>. QED BY <1>5, <1>6, <1>7, <1>8, <1>9 DEF RelayInv

\* The plugin carries a message out.
LEMMA HandleKeeps ==
  ASSUME RelayInv, NEW m \in Relay!Messages, NEW b \in BotSocks, Relay!Handle(m, b) PROVE RelayInv'
<1>1. /\ <<m, b>> \in x8 /\ x8' = x8 \ {<<m, b>>} /\ x9' = [x9 EXCEPT ![m] = @ + 1]
      /\ UNCHANGED <<x1, x2, x3, x4, x5, x6, x7, x10>>
  BY DEF Relay!Handle, Relay!uiVars, Relay!botVars
<1>2. <<m, b>>[1] = m
  OBVIOUS
<1>3. /\ x9[m] = 0 /\ x7[m] # {}
      /\ \A y \in x8' : y[1] # m
      /\ \A y \in x10 : y[1] # m \/ y[3] = "res"
  <2>1. x9[m] = 0 /\ x7[m] # {} /\ \A y \in x8 : y[1] = m => y = <<m, b>>
    BY <1>1, <1>2 DEF RelayInv, OnTheWayOnce
  <2>2. \A y \in x10 : y[1] = m => y[3] # "offline"
    BY <1>1, <1>2 DEF RelayInv, ToldRight
  <2>. QED BY <1>1, <2>1, <2>2 DEF RelayInv, RelayType
<1>4. x9' \in [Relay!Messages -> {0, 1}] /\ x9'[m] = 1 /\ \A n \in Relay!Messages \ {m} : x9'[n] = x9[n]
  BY <1>1, <1>3 DEF RelayInv, RelayType
<1>5. RelayType'
  BY <1>1, <1>4 DEF RelayInv, RelayType
<1>6. TicketsGone' /\ Relay!TicketOnce' /\ OneBotSocket'
  BY <1>1 DEF RelayInv, TicketsGone, Relay!TicketOnce, OneBotSocket
<1>7. OnTheWayOnce'
  BY <1>1, <1>3, <1>4 DEF RelayInv, RelayType, OnTheWayOnce
<1>8. ToldRight'
  BY <1>1, <1>3, <1>4 DEF RelayInv, RelayType, ToldRight
<1>9. Relay!LostOnlyByClosing'
  <2>1. \A n \in Relay!Messages \ {m} : \A y \in x8 : y[1] = n => y \in x8'
    BY <1>1, <1>2
  <2>. QED BY <1>1, <1>4, <2>1 DEF RelayInv, Relay!LostOnlyByClosing
<1>. QED BY <1>5, <1>6, <1>7, <1>8, <1>9 DEF RelayInv

\* Its answer is handed on.
LEMMA AnswerRelayKeeps ==
  ASSUME RelayInv, NEW m \in Relay!Messages, NEW b \in BotSocks, Relay!Answer(m, b) PROVE RelayInv'
<1> DEFINE to == IF m \in Requests THEN Uis ELSE x7[m]
<1>1. /\ x9[m] > 0 /\ UNCHANGED <<x1, x2, x3, x4, x5, x6, x7, x8, x9>>
      /\ x10' = x10 \cup {<<m, v, "res">> : v \in {u \in to : x1[u] = "open"}}
  BY DEF Relay!Answer, Relay!Tell, Relay!FindUiSocketByConnId, Relay!uiVars, Relay!botVars
<1>2. to \subseteq Uis /\ (m \in Offers => to = x7[m])
  BY BoundsAssumption DEF RelayInv, RelayType
<1> HIDE DEF to
<1>3. /\ \A y \in x10' : y \in x10 \/ (y \in Relay!Messages \X Uis \X {"res", "offline"} /\ y[1] = m
                                          /\ y[2] \in to /\ y[3] = "res")
      /\ \A y \in x10 : y \in x10'
  BY <1>1, <1>2
<1>4. RelayType'
  BY <1>1, <1>3 DEF RelayInv, RelayType
<1>5. TicketsGone' /\ Relay!TicketOnce' /\ OneBotSocket' /\ OnTheWayOnce'
  BY <1>1 DEF RelayInv, TicketsGone, Relay!TicketOnce, OneBotSocket, OnTheWayOnce
<1>6. x9[m] = 1 /\ x7[m] # {}
  BY <1>1 DEF RelayInv, RelayType, OnTheWayOnce
<1>7. ToldRight'
  BY <1>1, <1>2, <1>3, <1>6 DEF RelayInv, ToldRight
<1>8. Relay!LostOnlyByClosing'
  BY <1>1, <1>3 DEF RelayInv, Relay!LostOnlyByClosing
<1>. QED BY <1>4, <1>5, <1>7, <1>8 DEF RelayInv

LEMMA RelayStep == ASSUME RelayInv, Relay!Next PROVE RelayInv'
  BY TicketKeeps, UiSocketKeeps, BotSocketKeeps, UiMessageKeeps, HandleKeeps, AnswerRelayKeeps DEF Relay!Next
-----------------------------------------------------------------------------
(* Sequences *)

LEMMA CatIs ==
  ASSUME NEW S, NEW s \in Seq(S), NEW t \in Seq(S)
  PROVE  LET u == s \o t
         IN  /\ u \in Seq(S) /\ Len(s) \in Nat /\ Len(t) \in Nat /\ Len(u) = Len(s) + Len(t)
             /\ \A i \in 1..Len(s) : u[i] = s[i]
             /\ \A i \in 1..Len(t) : u[Len(s) + i] = t[i]
             /\ \A i \in 1..Len(u) : i \in 1..Len(s) \/ (i - Len(s) \in 1..Len(t) /\ u[i] = t[i - Len(s)])
<1> DEFINE u == s \o t
<1>1. /\ u \in Seq(S) /\ Len(s) \in Nat /\ Len(t) \in Nat /\ Len(u) = Len(s) + Len(t)
      /\ \A i \in 1..Len(s) + Len(t) : u[i] = IF i <= Len(s) THEN s[i] ELSE t[i - Len(s)]
  BY ConcatProperties, LenProperties
<1> HIDE DEF u
<1>2. \A i \in 1..Len(t) : Len(s) + i \in 1..Len(s) + Len(t) /\ ~(Len(s) + i <= Len(s)) /\ Len(s) + i - Len(s) = i
  BY <1>1
<1>3. \A i \in 1..Len(t) : u[Len(s) + i] = t[i]
  BY <1>1, <1>2
<1>4. \A i \in 1..Len(s) : u[i] = s[i]
  BY <1>1
<1>5. \A i \in 1..Len(u) : i \in 1..Len(s) \/ (i - Len(s) \in 1..Len(t) /\ u[i] = t[i - Len(s)])
  BY <1>1
<1>. QED BY <1>1, <1>3, <1>4, <1>5 DEF u

LEMMA CutIs ==
  ASSUME NEW S, NEW q \in Seq(S), NEW n \in 0..Len(q)
  PROVE  LET a == SubSeq(q, 1, n)
             b == SubSeq(q, n + 1, Len(q))
         IN  /\ Len(q) \in Nat /\ a \in Seq(S) /\ Len(a) = n /\ \A i \in 1..n : a[i] = q[i]
             /\ b \in Seq(S) /\ Len(b) = Len(q) - n /\ \A i \in 1..Len(q) - n : b[i] = q[i + n]
<1>1. Len(q) \in Nat /\ \A i \in 1..Len(q) : q[i] \in S
  BY LenProperties, ElementOfSeq
<1>2. /\ SubSeq(q, 1, n) \in Seq(S) /\ Len(SubSeq(q, 1, n)) = IF 1 <= n THEN n - 1 + 1 ELSE 0
      /\ \A i \in 1..n - 1 + 1 : SubSeq(q, 1, n)[i] = q[1 + i - 1]
  BY <1>1, SubSeqProperties
<1> DEFINE k == n + 1
           l == Len(q)
<1>3. k \in Int /\ l \in Int /\ \A i \in k..l : q[i] \in S
  BY <1>1
<1> HIDE DEF k, l
<1>4. /\ SubSeq(q, k, l) \in Seq(S) /\ Len(SubSeq(q, k, l)) = IF k <= l THEN l - k + 1 ELSE 0
      /\ \A i \in 1..l - k + 1 : SubSeq(q, k, l)[i] = q[k + i - 1]
  BY <1>3, SubSeqProperties
<1> DEFINE b == SubSeq(q, k, l)
<1>5. b \in Seq(S) /\ (Len(b) = IF k <= l THEN l - k + 1 ELSE 0) /\ \A i \in 1..l - k + 1 : b[i] = q[k + i - 1]
  BY <1>4
<1>6. b = SubSeq(q, n + 1, Len(q)) /\ k = n + 1 /\ l = Len(q)
  BY DEF k, l
<1> HIDE DEF b
<1>7. Len(b) = Len(q) - n /\ \A i \in 1..Len(q) - n : b[i] = q[i + n]
  BY <1>1, <1>5, <1>6
<1>8. /\ SubSeq(q, 1, n) \in Seq(S) /\ Len(SubSeq(q, 1, n)) = n
      /\ \A i \in 1..n : SubSeq(q, 1, n)[i] = q[i]
  BY <1>1, <1>2
<1>. QED BY <1>1, <1>5, <1>6, <1>7, <1>8

LEMMA TailIs ==
  ASSUME NEW S, NEW q \in Seq(S), q # <<>>
  PROVE  /\ Len(q) \in Nat \ {0} /\ Head(q) \in S /\ Head(q) = q[1] /\ Tail(q) \in Seq(S) /\ Len(Tail(q)) = Len(q) - 1
         /\ \A i \in 1..Len(q) - 1 : Tail(q)[i] = q[i + 1]
  BY HeadTailProperties, LenProperties, EmptySeq

LEMMA AppendIs ==
  ASSUME NEW S, NEW s \in Seq(S), NEW e \in S
  PROVE  /\ Append(s, e) \in Seq(S) /\ Len(s) \in Nat /\ Len(Append(s, e)) = Len(s) + 1
         /\ \A i \in 1..Len(s) : Append(s, e)[i] = s[i]
         /\ Append(s, e)[Len(s) + 1] = e /\ Append(s, e) # <<>>
  BY AppendProperties, LenProperties

\* What is cut is put together again.
LEMMA CutAgain ==
  ASSUME NEW S, NEW q \in Seq(S), NEW n \in 0..Len(q)
  PROVE  SubSeq(q, 1, n) \o SubSeq(q, n + 1, Len(q)) = q
<1>1. Len(q) \in Nat
  BY LenProperties
<1>2. 1 \in 1..Len(q) + 1 /\ n \in 1 - 1..Len(q) /\ Len(q) \in n..Len(q)
  BY <1>1
<1>3. SubSeq(q, 1, n) \o SubSeq(q, n + 1, Len(q)) = SubSeq(q, 1, Len(q))
  BY <1>2, ConcatAdjacentSubSeq
<1>. QED BY <1>3, SubSeqFull

\* Of two sequences the first loses its first one, or all.
LEMMA TailOfCat ==
  ASSUME NEW S, NEW s \in Seq(S), NEW t \in Seq(S), s # <<>>
  PROVE  s \o t # <<>> /\ (s \o t)[1] = s[1] /\ Tail(s \o t) = Tail(s) \o t
<1> DEFINE u == s \o t
           v == Tail(s) \o t
<1>1. /\ u \in Seq(S) /\ Len(t) \in Nat /\ Len(u) = Len(s) + Len(t)
      /\ \A i \in 1..Len(s) : u[i] = s[i]
      /\ \A i \in 1..Len(t) : u[Len(s) + i] = t[i]
  BY CatIs
<1>2. /\ Len(s) \in Nat \ {0} /\ Tail(s) \in Seq(S) /\ Len(Tail(s)) = Len(s) - 1
      /\ \A i \in 1..Len(s) - 1 : Tail(s)[i] = s[i + 1]
  BY TailIs
<1>3. /\ v \in Seq(S) /\ Len(v) = Len(Tail(s)) + Len(t)
      /\ \A i \in 1..Len(Tail(s)) : v[i] = Tail(s)[i]
      /\ \A i \in 1..Len(v) : i \in 1..Len(Tail(s)) \/ (i - Len(Tail(s)) \in 1..Len(t) /\ v[i] = t[i - Len(Tail(s))])
  BY <1>2, CatIs
<1>4. u # <<>>
  <2>1. Len(u) # 0
    BY <1>1, <1>2
  <2>. QED BY <1>1, <2>1, EmptySeq
<1>5. Tail(u) \in Seq(S) /\ Len(Tail(u)) = Len(u) - 1 /\ \A i \in 1..Len(u) - 1 : Tail(u)[i] = u[i + 1]
  BY <1>1, <1>4, TailIs
<1> DEFINE w == Tail(u)
<1>6. w \in Seq(S) /\ Len(w) = Len(u) - 1 /\ \A i \in 1..Len(u) - 1 : w[i] = u[i + 1]
  BY <1>5
<1> HIDE DEF u, v, w
<1>7. Len(w) = Len(v)
  BY <1>1, <1>2, <1>3, <1>6
<1>8. ASSUME NEW i \in 1..Len(w) PROVE w[i] = v[i]
  <2>1. CASE i \in 1..Len(s) - 1
    <3>1. i + 1 \in 1..Len(s) /\ i \in 1..Len(Tail(s)) /\ i \in 1..Len(u) - 1
      BY <1>1, <1>2, <2>1
    <3>. QED BY <1>1, <1>2, <1>3, <1>6, <2>1, <3>1
  <2>2. CASE i \notin 1..Len(s) - 1
    <3>1. /\ i \in 1..Len(u) - 1 /\ i - Len(Tail(s)) = i + 1 - Len(s) /\ i \in 1..Len(v) /\ i \notin 1..Len(Tail(s))
          /\ i + 1 = Len(s) + (i - Len(Tail(s)))
      BY <1>1, <1>2, <1>3, <1>6, <1>7, <2>2
    <3>2. i - Len(Tail(s)) \in 1..Len(t) /\ v[i] = t[i - Len(Tail(s))]
      BY <1>3, <3>1
    <3>3. u[i + 1] = t[i - Len(Tail(s))]
      BY <1>1, <3>1, <3>2
    <3>. QED BY <1>6, <3>1, <3>2, <3>3
  <2>. QED BY <2>1, <2>2
<1>9. w = v
  BY <1>3, <1>6, <1>7, <1>8, SeqEqual
<1>10. u[1] = s[1]
  BY <1>1, <1>2
<1>. QED BY <1>4, <1>9, <1>10 DEF u, v, w
-----------------------------------------------------------------------------
(* The log that is pushed to the server *)

\* The entries of s are in the order in which they were logged, those of s were
\* logged before those of t, and none of s after the n-th.
Rising(s) == s \in Seq(Nat) /\ \A i, j \in 1..Len(s) : i < j => s[i] < s[j]
Below(s, t) == \A i \in 1..Len(s), j \in 1..Len(t) : s[i] < t[j]
UpTo(s, n) == \A i \in 1..Len(s) : s[i] <= n

\* What was printed, what is on the way and what waits are three runs of entries,
\* each after the one before it.
Sorted(r, w, b) == Rising(r) /\ Rising(w) /\ Rising(b) /\ Below(r, w) /\ Below(r, b) /\ Below(w, b)

LogInv ==
    /\ Sorted(x8, x7, x1) /\ UpTo(x8, x2) /\ UpTo(x7, x2) /\ UpTo(x1, x2)
    /\ x6 \in Nat /\ Log!TypeOK /\ Log!NoneWaits
    /\ x6 <= 1 /\ x5 = x6 /\ x2 <= MaxBuffer => Len(x8) + Len(x7) + Len(x1) = x2

LEMMA LogInit == ASSUME Log!Init PROVE LogInv
<1>1. x1 = <<>> /\ x2 = 0 /\ x3 = 0 /\ x4 = FALSE /\ x5 = 0 /\ x6 = 0 /\ x7 = <<>> /\ x8 = <<>>
  BY DEF Log!Init
<1>2. Len(<<>>) = 0 /\ <<>> \in Seq(Nat) /\ 1..0 = {}
  OBVIOUS
<1>3. Rising(<<>>) /\ Below(<<>>, <<>>) /\ UpTo(<<>>, 0)
  BY <1>2 DEF Rising, Below, UpTo
<1>4. Log!TypeOK
  <2>1. x4 \in BOOLEAN
    BY <1>1
  <2>2. Len(x1) <= MaxBuffer /\ x2 \in 0..MaxLog /\ x3 \in 0..x6 /\ x5 \in 0..x6
    BY <1>1, <1>2, BoundsAssumption
  <2>. QED BY <2>1, <2>2 DEF Log!TypeOK
<1>6. Log!NoneWaits
  BY <1>1 DEF Log!NoneWaits
<1>5. Len(x8) + Len(x7) + Len(x1) = x2
  BY <1>1, <1>2
<1>. QED BY <1>1, <1>3, <1>4, <1>5, <1>6 DEF LogInv, Sorted

\* Two runs, one after the other, are one run.
LEMMA CatRises == ASSUME NEW s, NEW t, Rising(s), Rising(t), Below(s, t) PROVE Rising(s \o t)
<1> DEFINE u == s \o t
<1>1. /\ u \in Seq(Nat) /\ Len(s) \in Nat /\ Len(t) \in Nat /\ Len(u) = Len(s) + Len(t)
      /\ \A i \in 1..Len(s) : u[i] = s[i]
      /\ \A i \in 1..Len(u) : i \in 1..Len(s) \/ (i - Len(s) \in 1..Len(t) /\ u[i] = t[i - Len(s)])
  BY CatIs DEF Rising
<1> HIDE DEF u
<1>2. ASSUME NEW i \in 1..Len(u), NEW j \in 1..Len(u), i < j PROVE u[i] < u[j]
  <2>1. CASE j \in 1..Len(s)
    <3>1. i \in 1..Len(s)
      BY <1>1, <1>2, <2>1
    <3>. QED BY <1>1, <1>2, <2>1, <3>1 DEF Rising
  <2>2. CASE ~(j \in 1..Len(s)) /\ i \in 1..Len(s)
    BY <1>1, <1>2, <2>2 DEF Below
  <2>3. CASE ~(i \in 1..Len(s)) /\ ~(j \in 1..Len(s))
    <3>1. i - Len(s) \in 1..Len(t) /\ j - Len(s) \in 1..Len(t) /\ i - Len(s) < j - Len(s)
      BY <1>1, <1>2, <2>3
    <3>. QED BY <1>1, <2>3, <3>1 DEF Rising
  <2>. QED BY <2>1, <2>2, <2>3
<1>. QED BY <1>1, <1>2 DEF Rising, u

LEMMA CatIsBelow ==
  ASSUME NEW r, NEW s, NEW t, Rising(r), Rising(s), Rising(t)
  PROVE  /\ Below(r, t) /\ Below(s, t) => Below(r \o s, t)
         /\ Below(r, s) /\ Below(r, t) => Below(r, s \o t)
<1>1. ASSUME Below(r, t), Below(s, t) PROVE Below(r \o s, t)
  <2> DEFINE u == r \o s
  <2>1. /\ \A i \in 1..Len(r) : u[i] = r[i]
        /\ \A i \in 1..Len(u) : i \in 1..Len(r) \/ (i - Len(r) \in 1..Len(s) /\ u[i] = s[i - Len(r)])
    BY CatIs DEF Rising
  <2> HIDE DEF u
  <2>2. Below(u, t)
    BY <1>1, <2>1 DEF Below
  <2>. QED BY <2>2 DEF u
<1>2. ASSUME Below(r, s), Below(r, t) PROVE Below(r, s \o t)
  <2> DEFINE u == s \o t
  <2>1. /\ \A i \in 1..Len(s) : u[i] = s[i]
        /\ \A i \in 1..Len(u) : i \in 1..Len(s) \/ (i - Len(s) \in 1..Len(t) /\ u[i] = t[i - Len(s)])
    BY CatIs DEF Rising
  <2> HIDE DEF u
  <2>2. Below(r, u)
    BY <1>2, <2>1 DEF Below
  <2>. QED BY <2>2 DEF u
<1>. QED BY <1>1, <1>2

LEMMA CatIsUpTo ==
  ASSUME NEW s, NEW t, NEW n, Rising(s), Rising(t), UpTo(s, n), UpTo(t, n) PROVE UpTo(s \o t, n)
<1> DEFINE u == s \o t
<1>1. /\ \A i \in 1..Len(s) : u[i] = s[i]
      /\ \A i \in 1..Len(u) : i \in 1..Len(s) \/ (i - Len(s) \in 1..Len(t) /\ u[i] = t[i - Len(s)])
  BY CatIs DEF Rising
<1> HIDE DEF u
<1>2. UpTo(u, n)
  BY <1>1 DEF UpTo
<1>. QED BY <1>2 DEF u

\* The first n entries of a run, and the others.
LEMMA CutRises ==
  ASSUME NEW q, Rising(q), NEW n \in 0..Len(q)
  PROVE  LET a == SubSeq(q, 1, n)
             b == SubSeq(q, n + 1, Len(q))
         IN  /\ Rising(a) /\ Rising(b) /\ Below(a, b) /\ Len(a) = n /\ Len(b) = Len(q) - n
             /\ \A m : UpTo(q, m) => UpTo(a, m) /\ UpTo(b, m)
             /\ \A r : Rising(r) /\ Below(r, q) => Below(r, a) /\ Below(r, b)
<1> DEFINE a == SubSeq(q, 1, n)
           b == SubSeq(q, n + 1, Len(q))
<1>1. /\ Len(q) \in Nat /\ a \in Seq(Nat) /\ Len(a) = n /\ \A i \in 1..n : a[i] = q[i]
      /\ b \in Seq(Nat) /\ Len(b) = Len(q) - n /\ \A i \in 1..Len(q) - n : b[i] = q[i + n]
  BY CutIs DEF Rising
<1> HIDE DEF a, b
<1>2. /\ n \in Nat /\ \A i \in 1..n : i \in 1..Len(q)
      /\ \A i \in 1..Len(q) - n : i + n \in 1..Len(q) /\ n < i + n
  BY <1>1
<1>3. Rising(a)
  BY <1>1, <1>2 DEF Rising
<1>6. Rising(b)
  <2>1. ASSUME NEW i \in 1..Len(q) - n, NEW j \in 1..Len(q) - n, i < j PROVE q[i + n] < q[j + n]
    BY <1>1, <1>2, <2>1 DEF Rising
  <2>. QED BY <1>1, <2>1 DEF Rising
<1>7. Below(a, b)
  <2>1. ASSUME NEW i \in 1..n, NEW j \in 1..Len(q) - n PROVE q[i] < q[j + n]
    BY <1>1, <1>2, <2>1 DEF Rising
  <2>. QED BY <1>1, <2>1 DEF Below
<1>4. \A m : UpTo(q, m) => UpTo(a, m) /\ UpTo(b, m)
  BY <1>1, <1>2 DEF UpTo
<1>5. ASSUME NEW r, Rising(r), Below(r, q) PROVE Below(r, a) /\ Below(r, b)
  BY <1>1, <1>2, <1>5 DEF Below
<1>. QED BY <1>1, <1>3, <1>4, <1>5, <1>6, <1>7 DEF a, b

\* A flush keeps the order, hands on at least one entry or has nothing to do, and
\* loses none if it sends to the open socket.
LEMMA LogFlush ==
  ASSUME LogInv, NEW q, NEW to \in Nat, NEW n \in Nat, Sorted(x8, x7, q), UpTo(q, n), UpTo(x7, n), Log!Flush(q, to)
  PROVE  /\ Sorted(x8, x7', x1') /\ UpTo(x1', n) /\ UpTo(x7', n) /\ Len(x1') <= Len(q) /\ x4' \in BOOLEAN
         /\ to # 0 /\ x1' # <<>> => x4'
         /\ to \in {0, x5} => Len(x7') + Len(x1') = Len(x7) + Len(q)
<1>1. CASE q # <<>> /\ to # 0
  <2> DEFINE k == IF Len(q) < BatchSize THEN Len(q) ELSE BatchSize
             a == SubSeq(q, 1, k)
             b == SubSeq(q, k + 1, Len(q))
  <2>1. Len(q) \in Nat /\ k \in 0..Len(q) /\ q \in Seq(Nat)
    BY BoundsAssumption DEF Sorted, Rising
  <2>2. Log!Batch(q) = a /\ Len(a) = k
    BY <2>1 DEF Log!Batch
  <2>3. Log!Taken(q) = b
    BY <2>2 DEF Log!Taken
  <2>4. x1' = b /\ x4' = TRUE /\ x7' = IF to = x5 THEN x7 \o a ELSE x7
    BY <1>1, <2>2, <2>3, Zenon DEF Log!Flush
  <2>5. /\ Rising(q) /\ Rising(x7) /\ Rising(x8) /\ Below(x8, x7) /\ Below(x8, q) /\ Below(x7, q)
    BY DEF Sorted
  <2>6. /\ Rising(a) /\ Rising(b) /\ Below(a, b) /\ Len(a) = k /\ Len(b) = Len(q) - k
        /\ UpTo(a, n) /\ UpTo(b, n) /\ Below(x8, a) /\ Below(x8, b) /\ Below(x7, a) /\ Below(x7, b)
    BY <2>1, <2>5, CutRises
  <2> HIDE DEF a, b, k
  <2>7. CASE to # x5
    BY <1>1, <2>1, <2>4, <2>5, <2>6, <2>7 DEF Sorted
  <2>8. CASE to = x5
    <3>1. Rising(x7') /\ Below(x8, x7') /\ Below(x7', b)
      BY <2>4, <2>5, <2>6, <2>8, CatRises, CatIsBelow
    <3>2. UpTo(x7', n) /\ Len(x7') = Len(x7) + Len(a)
      BY <2>4, <2>5, <2>6, <2>8, CatIsUpTo, CatIs DEF Rising
    <3>3. Len(x7) \in Nat /\ Len(a) \in Nat /\ Len(b) \in Nat
      BY <2>5, <2>6 DEF Rising
    <3>4. Sorted(x8, x7', x1')
      BY <2>4, <2>5, <2>6, <3>1, Zenon DEF Sorted
    <3>5. Len(x1') <= Len(q) /\ Len(x7') + Len(x1') = Len(x7) + Len(q)
      <4>1. Len(x1') = Len(q) - k /\ Len(x7') = Len(x7) + k /\ k \in Nat
        <5>1. k \in Nat
          BY <2>1
        <5>. QED BY <2>4, <2>6, <3>2, <5>1, Zenon
      <4>. QED BY <2>1, <3>3, <4>1
    <3>. QED BY <2>4, <2>6, <3>2, <3>4, <3>5, Zenon
  <2>. QED BY <2>4, <2>7, <2>8
<1>2. CASE ~(q # <<>> /\ to # 0)
  <2>1. x1' = q /\ x4' = FALSE /\ x7' = x7 /\ (q = <<>> \/ to = 0)
    BY <1>2 DEF Log!Flush
  <2>2. Len(q) <= Len(q)
    BY DEF Sorted, Rising
  <2>. QED BY <2>1, <2>2, Zenon
<1>. QED BY <1>1, <1>2

\* The new entry is the last one.
LEMMA PushedLast ==
  ASSUME LogInv
  PROVE  LET q == Log!Pushed
         IN  /\ Sorted(x8, x7, q) /\ UpTo(q, x2 + 1) /\ UpTo(x7, x2 + 1) /\ UpTo(x8, x2 + 1)
             /\ Len(q) <= MaxBuffer /\ q # <<>>
             /\ Len(x1) < MaxBuffer => Len(q) = Len(x1) + 1
<1> DEFINE t == IF Len(x1) >= MaxBuffer THEN Tail(x1) ELSE x1
           q == Append(t, x2 + 1)
<1>1. Log!Pushed = q
  BY DEF Log!Pushed
<1>2. Rising(x1) /\ x1 \in Seq(Nat) /\ x2 \in Nat /\ Len(x1) <= MaxBuffer /\ Len(x1) \in Nat
  BY BoundsAssumption DEF LogInv, Sorted, Rising, Log!TypeOK
<1>3. /\ Rising(t) /\ UpTo(t, x2) /\ Below(x8, t) /\ Below(x7, t) /\ Len(t) < MaxBuffer
      /\ Len(x1) < MaxBuffer => Len(t) = Len(x1)
  <2>1. CASE Len(x1) >= MaxBuffer
    <3>1. x1 # <<>>
      BY <1>2, <2>1, BoundsAssumption
    <3>2. t \in Seq(Nat) /\ Len(t) = Len(x1) - 1 /\ \A i \in 1..Len(x1) - 1 : t[i] = x1[i + 1]
      BY <1>2, <2>1, <3>1, TailIs
    <3> HIDE DEF t
    <3>3. UpTo(x1, x2) /\ Below(x8, x1) /\ Below(x7, x1)
      BY DEF LogInv, Sorted
    <3>4. \A i \in 1..Len(x1) - 1 : i + 1 \in 1..Len(x1) /\ \A j \in 1..Len(x1) - 1 : i < j => i + 1 < j + 1
      BY <1>2
    <3>5. Rising(t) /\ UpTo(t, x2) /\ Below(x8, t) /\ Below(x7, t)
      BY <1>2, <3>2, <3>3, <3>4 DEF Rising, UpTo, Below
    <3>. QED BY <1>2, <2>1, <3>2, <3>5, BoundsAssumption
  <2>2. CASE ~(Len(x1) >= MaxBuffer)
    BY <1>2, <2>2, BoundsAssumption DEF LogInv, Sorted
  <2>. QED BY <2>1, <2>2
<1> HIDE DEF t
<1>4. /\ q \in Seq(Nat) /\ Len(t) \in Nat /\ Len(q) = Len(t) + 1 /\ q[Len(t) + 1] = x2 + 1 /\ q # <<>>
      /\ \A i \in 1..Len(t) : q[i] = t[i] /\ q[i] < x2 + 1
  <2>1. t \in Seq(Nat) /\ x2 + 1 \in Nat
    BY <1>2, <1>3 DEF Rising
  <2>2. /\ q \in Seq(Nat) /\ Len(t) \in Nat /\ Len(q) = Len(t) + 1 /\ q[Len(t) + 1] = x2 + 1 /\ q # <<>>
        /\ \A i \in 1..Len(t) : q[i] = t[i]
    BY <2>1, AppendIs
  <2>3. \A i \in 1..Len(t) : t[i] \in Nat /\ t[i] <= x2
    BY <1>3, <2>1 DEF UpTo
  <2>. QED BY <1>2, <2>2, <2>3
<1> HIDE DEF q
<1>5. \A i \in 1..Len(q) : i \in 1..Len(t) \/ i = Len(t) + 1
  BY <1>4
<1>6. Rising(q) /\ UpTo(q, x2 + 1)
  <2>1. ASSUME NEW i \in 1..Len(q), NEW j \in 1..Len(q), i < j PROVE q[i] < q[j]
    <3>1. i \in 1..Len(t)
      BY <1>4, <2>1
    <3>. QED BY <1>3, <1>4, <1>5, <2>1, <3>1 DEF Rising
  <2>2. \A i \in 1..Len(t) : t[i] \in Nat
    BY <1>3 DEF Rising
  <2>. QED BY <1>2, <1>4, <1>5, <2>1, <2>2 DEF Rising, UpTo
<1>7. UpTo(x7, x2 + 1) /\ UpTo(x8, x2 + 1) /\ Below(x8, q) /\ Below(x7, q)
  <2>1. ASSUME NEW s, Rising(s), UpTo(s, x2), Below(s, t) PROVE UpTo(s, x2 + 1) /\ Below(s, q)
    <3>1. \A i \in 1..Len(s) : s[i] \in Nat /\ s[i] <= x2 /\ s[i] < x2 + 1
      BY <1>2, <2>1 DEF Rising, UpTo
    <3>2. UpTo(s, x2 + 1)
      BY <1>2, <3>1 DEF UpTo
    <3>3. ASSUME NEW i \in 1..Len(s), NEW j \in 1..Len(q) PROVE s[i] < q[j]
      BY <1>4, <1>5, <2>1, <3>1 DEF Below
    <3>. QED BY <3>2, <3>3 DEF Below
  <2>. QED BY <1>3, <2>1 DEF LogInv, Sorted
<1>8. Len(q) <= MaxBuffer /\ (Len(x1) < MaxBuffer => Len(q) = Len(x1) + 1)
  BY <1>2, <1>3, <1>4, BoundsAssumption
<1>9. Sorted(x8, x7, q)
  BY <1>6, <1>7 DEF LogInv, Sorted
<1>. QED BY <1>1, <1>4, <1>6, <1>7, <1>8, <1>9 DEF q

LEMMA LogStep == ASSUME LogInv, Log!Next PROVE LogInv'
<1>1. /\ x2 \in 0..MaxLog /\ x3 \in 0..x6 /\ x5 \in 0..x6 /\ x4 \in BOOLEAN /\ x6 \in Nat /\ x3 \in Nat /\ x5 \in Nat
      /\ Len(x1) <= MaxBuffer /\ Sorted(x8, x7, x1) /\ UpTo(x8, x2) /\ UpTo(x7, x2) /\ UpTo(x1, x2) /\ x2 \in Nat
      /\ Len(x8) \in Nat /\ Len(x7) \in Nat /\ Len(x1) \in Nat /\ x1 \in Seq(Nat) /\ x7 \in Seq(Nat) /\ x8 \in Seq(Nat)
      /\ x6 <= 1 /\ x5 = x6 /\ x2 <= MaxBuffer => Len(x8) + Len(x7) + Len(x1) = x2
  BY BoundsAssumption DEF LogInv, Log!TypeOK, Sorted, Rising
<1>2. Log!NoneWaits
  BY DEF LogInv
<1>3. CASE Log!Log
  <2> DEFINE q == Log!Pushed
  <2>1. /\ x2 < MaxLog /\ x2' = x2 + 1 /\ UNCHANGED <<x3, x5, x6, x8>>
    BY <1>3 DEF Log!Log
  <2>2. /\ Sorted(x8, x7, q) /\ UpTo(q, x2 + 1) /\ UpTo(x7, x2 + 1) /\ UpTo(x8, x2 + 1)
        /\ Len(q) <= MaxBuffer /\ q # <<>>
        /\ Len(x1) < MaxBuffer => Len(q) = Len(x1) + 1
    BY PushedLast
  <2>3. Len(q) \in Nat
    BY <2>2 DEF Sorted, Rising
  <2>4. CASE x3 # 0 /\ ~x4
    <3>1. Log!Flush(q, x3)
      BY <1>3, <2>4 DEF Log!Log
    <3>2. x2 + 1 \in Nat
      BY <1>1
    <3> HIDE DEF q
    <3>3. /\ Sorted(x8, x7', x1') /\ UpTo(x1', x2 + 1) /\ UpTo(x7', x2 + 1) /\ Len(x1') <= Len(q) /\ x4' \in BOOLEAN
          /\ x3 # 0 /\ x1' # <<>> => x4'
          /\ x3 \in {0, x5} => Len(x7') + Len(x1') = Len(x7) + Len(q)
      BY <1>1, <2>2, <3>1, <3>2, LogFlush
    <3>4. Len(x1') \in Nat /\ Len(x7') \in Nat
      BY <3>3 DEF Sorted, Rising
    <3>5. x6' <= 1 /\ x5' = x6' /\ x2' <= MaxBuffer => Len(x8') + Len(x7') + Len(x1') = x2'
      <4>1. x6 <= 1 /\ x5 = x6 => x3 \in {0, x5}
        BY <1>1
      <4>2. SUFFICES ASSUME x6 <= 1, x5 = x6, x2 + 1 <= MaxBuffer PROVE Len(x8) + Len(x7') + Len(x1') = x2 + 1
        BY <2>1
      <4>3. Len(x8) + Len(x7) + Len(x1) = x2
        BY <1>1, <4>2, BoundsAssumption
      <4>4. Len(q) = Len(x1) + 1
        BY <1>1, <2>2, <4>2, <4>3, BoundsAssumption
      <4>5. Len(x7') + Len(x1') = Len(x7) + Len(q)
        BY <3>3, <4>1, <4>2
      <4>6. Len(x7) \in Nat /\ Len(x8) \in Nat /\ Len(x1) \in Nat
        BY <1>1
      <4>. QED BY <2>3, <3>4, <4>3, <4>4, <4>5, <4>6
    <3>6. Log!TypeOK' /\ Log!NoneWaits'
      BY <1>1, <2>1, <2>2, <2>3, <3>3, <3>4, BoundsAssumption DEF Log!TypeOK, Log!NoneWaits
    <3>. QED BY <1>1, <2>1, <2>2, <3>3, <3>5, <3>6 DEF LogInv
  <2>5. CASE ~(x3 # 0 /\ ~x4)
    <3>1. x1' = q /\ UNCHANGED <<x4, x7>>
      BY <1>3, <2>5 DEF Log!Log
    <3> HIDE DEF q
    <3>2. x6' <= 1 /\ x5' = x6' /\ x2' <= MaxBuffer => Len(x8') + Len(x7') + Len(x1') = x2'
      BY <1>1, <2>1, <2>2, <2>3, <3>1, BoundsAssumption
    <3>3. Log!TypeOK'
      BY <1>1, <2>1, <2>2, <2>3, <3>1, BoundsAssumption DEF Log!TypeOK
    <3>4. Log!NoneWaits'
      BY <2>1, <2>5, <3>1 DEF Log!NoneWaits
    <3>. QED BY <1>1, <2>1, <2>2, <3>1, <3>2, <3>3, <3>4 DEF LogInv
  <2>. QED BY <2>4, <2>5
\* What is left to do, when a flush may go to the sender to.
<1>4. ASSUME NEW to \in {0, x3, x5}, Log!Flush(x1, to), x3' = to, UNCHANGED <<x2, x5, x6, x8>> PROVE LogInv'
  <2>1. to \in 0..x6 /\ to \in Nat
    BY <1>1, <1>4
  <2>2. /\ Sorted(x8, x7', x1') /\ UpTo(x1', x2) /\ UpTo(x7', x2) /\ Len(x1') <= Len(x1) /\ x4' \in BOOLEAN
        /\ to # 0 /\ x1' # <<>> => x4'
        /\ to \in {0, x5} => Len(x7') + Len(x1') = Len(x7) + Len(x1)
    BY <1>1, <1>4, <2>1, LogFlush
  <2>3. Len(x1') \in Nat /\ Len(x7') \in Nat
    BY <2>2 DEF Sorted, Rising
  <2>4. x6' <= 1 /\ x5' = x6' /\ x2' <= MaxBuffer => Len(x8') + Len(x7') + Len(x1') = x2'
    <3>1. x6 <= 1 /\ x5 = x6 => to \in {0, x5}
      BY <1>1, <1>4
    <3>2. Len(x8) + Len(x7) + Len(x1) = Len(x8) + (Len(x7) + Len(x1)) /\ Len(x8) + (Len(x7') + Len(x1')) = Len(x8) + Len(x7') + Len(x1')
      BY <1>1, <2>3
    <3>. QED BY <1>1, <1>4, <2>2, <3>1, <3>2, Zenon
  <2>5. Log!TypeOK'
    BY <1>1, <1>4, <2>1, <2>2, <2>3, BoundsAssumption DEF Log!TypeOK
  <2>6. Log!NoneWaits'
    BY <1>4, <2>2 DEF Log!NoneWaits
  <2>. QED BY <1>1, <1>4, <2>2, <2>4, <2>5, <2>6 DEF LogInv
<1>5. CASE Log!GoOn
  BY <1>4, <1>5 DEF Log!GoOn
<1>6. CASE Log!Connected \/ Log!Disconnected
  <2>1. PICK to \in {0, x5} : Log!SetSender(to) /\ UNCHANGED x5 /\ x3 # to
    BY <1>6 DEF Log!Connected, Log!Disconnected
  <2>2. CASE to # 0 /\ x1 # <<>> /\ ~x4
    BY <1>4, <2>1, <2>2 DEF Log!SetSender
  <2>3. CASE ~(to # 0 /\ x1 # <<>> /\ ~x4)
    <3>1. x3' = to /\ to \in 0..x6 /\ UNCHANGED <<x1, x2, x4, x5, x6, x7, x8>>
      BY <1>1, <2>1, <2>3 DEF Log!SetSender
    <3>2. Log!TypeOK'
      BY <1>1, <3>1 DEF Log!TypeOK
    <3>3. Log!NoneWaits'
      BY <2>3, <3>1 DEF Log!NoneWaits
    <3>. QED BY <1>1, <3>1, <3>2, <3>3 DEF LogInv
  <2>. QED BY <2>2, <2>3
<1>7. CASE Log!Opened
  <2>1. x5 = 0 /\ x5' = x6 + 1 /\ x6' = x6 + 1 /\ UNCHANGED <<x1, x2, x3, x4, x7, x8>>
    BY <1>7 DEF Log!Opened
  <2>2. Log!TypeOK' /\ x6' \in Nat
    BY <1>1, <2>1 DEF Log!TypeOK
  <2>3. x6' <= 1 /\ x2' <= MaxBuffer => Len(x8') + Len(x7') + Len(x1') = x2'
    BY <1>1, <2>1
  <2>. QED BY <1>1, <1>2, <2>1, <2>2, <2>3 DEF LogInv, Log!NoneWaits
<1>8. CASE Log!Closed
  <2>1. x5 # 0 /\ x5' = 0 /\ x7' = <<>> /\ UNCHANGED <<x1, x2, x3, x4, x6, x8>>
    BY <1>8 DEF Log!Closed
  <2>2. Log!TypeOK' /\ x5' # x6'
    BY <1>1, <2>1 DEF Log!TypeOK
  <2>3. Rising(<<>>) /\ UpTo(<<>>, x2) /\ Below(x8, <<>>) /\ Below(<<>>, x1)
    <3>1. Len(<<>>) = 0 /\ <<>> \in Seq(Nat) /\ 1..0 = {}
      OBVIOUS
    <3>. QED BY <3>1 DEF Rising, Below, UpTo
  <2>. QED BY <1>1, <1>2, <2>1, <2>2, <2>3, Zenon DEF LogInv, Log!NoneWaits, Sorted
<1>9. CASE Log!Receive
  <2>1. x7 # <<>> /\ x8' = Append(x8, Head(x7)) /\ x7' = Tail(x7) /\ UNCHANGED <<x1, x2, x3, x4, x5, x6>>
    BY <1>9 DEF Log!Receive
  <2>2. /\ Head(x7) = x7[1] /\ Head(x7) \in Nat /\ x7' \in Seq(Nat) /\ Len(x7') = Len(x7) - 1
        /\ \A i \in 1..Len(x7) - 1 : x7'[i] = x7[i + 1]
    BY <1>1, <2>1, TailIs
  <2>3. /\ x8' \in Seq(Nat) /\ Len(x8') = Len(x8) + 1 /\ x8'[Len(x8) + 1] = x7[1] /\ \A i \in 1..Len(x8) : x8'[i] = x8[i]
    BY <1>1, <2>1, <2>2, AppendIs
  <2>4. /\ \A i \in 1..Len(x7') : i + 1 \in 1..Len(x7) /\ 1 < i + 1
        /\ \A i \in 1..Len(x8') : i \in 1..Len(x8) \/ i = Len(x8) + 1
        /\ 1 \in 1..Len(x7) /\ Len(x7) # 0
    BY <1>1, <2>1, <2>2, <2>3, TailIs
  <2>5. Rising(x7') /\ UpTo(x7', x2)
    <3>1. ASSUME NEW i \in 1..Len(x7'), NEW j \in 1..Len(x7'), i < j PROVE x7[i + 1] < x7[j + 1]
      <4>1. i + 1 \in 1..Len(x7) /\ j + 1 \in 1..Len(x7) /\ i + 1 < j + 1
        BY <1>1, <2>2, <2>4, <3>1
      <4>. QED BY <1>1, <4>1 DEF Sorted, Rising
    <3>2. \A i \in 1..Len(x7') : x7'[i] = x7[i + 1] /\ x7[i + 1] <= x2
      BY <1>1, <2>2, <2>4 DEF UpTo
    <3>. QED BY <2>2, <3>1, <3>2 DEF Rising, UpTo
  <2>6. Rising(x8') /\ UpTo(x8', x2)
    <3>1. ASSUME NEW i \in 1..Len(x8'), NEW j \in 1..Len(x8'), i < j PROVE x8'[i] < x8'[j]
      <4>1. i \in 1..Len(x8)
        BY <1>1, <2>3, <3>1
      <4>. QED BY <1>1, <2>3, <2>4, <3>1, <4>1 DEF Sorted, Rising, Below
    <3>2. UpTo(x8', x2)
      BY <1>1, <2>3, <2>4 DEF UpTo
    <3>. QED BY <2>3, <3>1, <3>2 DEF Rising
  <2>7. Below(x8', x7') /\ Below(x8', x1) /\ Below(x7', x1)
    <3>1. \A i \in 1..Len(x7') : x7[1] < x7[i + 1]
      BY <1>1, <2>4 DEF Sorted, Rising
    <3>2. \A i \in 1..Len(x7') : x7'[i] = x7[i + 1]
      BY <1>1, <2>2
    <3>. QED BY <1>1, <2>2, <2>3, <2>4, <3>1, <3>2 DEF Sorted, Below
  <2>8. Log!TypeOK' /\ Log!NoneWaits'
    BY <1>1, <1>2, <2>1 DEF Log!TypeOK, Log!NoneWaits
  <2>9. Len(x8') + Len(x7') = Len(x8) + Len(x7)
    BY <1>1, <2>2, <2>3
  <2>. QED BY <1>1, <2>1, <2>5, <2>6, <2>7, <2>8, <2>9 DEF LogInv, Sorted
<1>. QED BY <1>3, <1>5, <1>6, <1>7, <1>8, <1>9 DEF Log!Next

\* The three runs together are what InOrder is about.
LEMMA LogIsInOrder == ASSUME LogInv PROVE Log!LogsInOrder
<1> DEFINE u == x8 \o x7
           all == u \o x1
<1>1. Rising(x8) /\ Rising(x7) /\ Rising(x1) /\ Below(x8, x7) /\ Below(x8, x1) /\ Below(x7, x1)
  BY DEF LogInv, Sorted
<1>2. Rising(u) /\ Below(u, x1) /\ Len(u) = Len(x8) + Len(x7)
  <2>1. Rising(u) /\ Below(u, x1)
    BY <1>1, CatRises, CatIsBelow
  <2>2. Len(u) = Len(x8) + Len(x7)
    BY <1>1, CatIs DEF Rising
  <2>. QED BY <2>1, <2>2
<1> HIDE DEF u
<1>3. Rising(all) /\ Len(all) = Len(u) + Len(x1)
  BY <1>1, <1>2, CatRises, CatIs DEF Rising
<1> HIDE DEF all
<1>4. DOMAIN all = 1..Len(all)
  BY <1>3 DEF Rising
<1>5. \A i, j \in DOMAIN all : i < j => all[i] < all[j]
  BY <1>3, <1>4 DEF Rising
<1>6. all = x8 \o x7 \o x1
  BY DEF all, u
<1>7. Log!InOrder
  BY <1>5, <1>6, Zenon DEF Log!InOrder
<1>8. Log!LostOnlyWithSocket
  BY <1>2, <1>3, <1>6 DEF LogInv, Log!LostOnlyWithSocket
<1>. QED BY <1>7, <1>8 DEF LogInv, Log!LogsInOrder
-----------------------------------------------------------------------------
(* A download while the file is replaced *)

\* On its way to the tab are h headers, at most one, and then k chunks.
Carries(c, h, k) ==
    /\ h \in {0, 1} /\ k \in Nat /\ h + k <= Len(c)
    /\ \A i \in 1..h + k : c[i] = IF i <= h THEN "header" ELSE "chunk"

\* While the plugin reads, all it has sent and the tab has not got is on its way.
Reads(h) == Len(x8) = h + (x7 - x4) /\ Carries(x8, h, x7 - x4)

\* When it is over, an end comes after all of the file, and a close is the last.
IsOver(h) ==
    LET n == h + (x7 - x4) IN
    /\ Len(x8) = n + 2 /\ Carries(x8, h, x7 - x4) /\ (h = 1 => x3 # 0)
    /\ x8[n + 1] \in {"end", "error"} /\ x8[n + 2] = "close"
    /\ x8[n + 1] = "end" => x7 = x6

DownloadInv ==
    /\ Download!TypeOK /\ x4 <= x7 /\ x7 <= x6
    /\ x2 = "none" <=> x5 = "none"
    /\ x5 \in {"none", "stat"} => x8 = <<>> /\ x3 = 0 /\ x6 = 0
    /\ x5 = "read" => x3 # 0 /\ \E h \in {0, 1} : Reads(h)
    /\ x5 = "over" => x8 = <<>> \/ x8 = <<"close">> \/ \E h \in {0, 1} : IsOver(h)
    /\ x2 = "header" => x3 # 0
    /\ x2 \in {"done", "failed"} => x5 = "over"
    /\ x2 = "done" => x4 = x6 \/ x3 < x6

LEMMA DownloadInit == ASSUME Download!Init PROVE DownloadInv
  BY BoundsAssumption DEF Download!Init, DownloadInv, Download!TypeOK, Download!Sizes, Download!None

\* The kinds of what is on the channel.
Kinds == {"header", "chunk", "end", "error", "close"}

\* What the next one is tells where the tab is.
LEMMA DownloadGets ==
  ASSUME DownloadInv, NEW m \in Kinds, Download!Gets(m)
  PROVE  /\ x5 # "none" /\ x5 # "stat"
         /\ m = "header" => x3 # 0
         /\ m = "chunk" => x4 + 1 <= x7
         /\ m = "end" => x4 = x6 /\ x5 = "over"
         /\ m \in {"error", "close"} => x5 = "over"
         /\ m \in {"header", "chunk"} =>
              \E h \in {0, 1} : /\ m = "header" => h = 1
                                /\ m = "chunk" => h = 0 /\ x7 - x4 > 0
                                /\ x5 = "read" => Reads(h)
                                /\ x5 = "over" => IsOver(h)
<1>1. x8 # <<>> /\ Head(x8) = m /\ x2 \in {"asked", "header"}
  BY DEF Download!Gets
<1>2. /\ x8 \in Seq(Kinds) /\ x4 \in Nat /\ x7 \in Nat /\ x6 \in Nat /\ x4 <= x7 /\ x7 <= x6
      /\ x5 \in {"none", "stat", "read", "over"} /\ x7 - x4 \in Nat
  BY BoundsAssumption DEF DownloadInv, Download!TypeOK, Download!Sizes, Download!None, Kinds
<1>3. x8[1] = m /\ Len(x8) \in Nat \ {0}
  BY <1>1, <1>2, TailIs
<1>4. x5 \in {"read", "over"}
  BY <1>1, <1>2 DEF DownloadInv
<1>5. CASE x5 = "read"
  <2>1. PICK h \in {0, 1} : Reads(h)
    BY <1>5 DEF DownloadInv
  <2>2. CASE h = 1
    <3>1. m = "header"
      BY <1>2, <1>3, <2>1, <2>2 DEF Reads, Carries
    <3>. QED BY <1>5, <2>1, <2>2, <3>1 DEF DownloadInv
  <2>3. CASE h = 0
    <3>1. m = "chunk" /\ x7 - x4 > 0
      BY <1>2, <1>3, <2>1, <2>3 DEF Reads, Carries
    <3>. QED BY <1>2, <1>5, <2>1, <2>3, <3>1 DEF DownloadInv
  <2>. QED BY <2>2, <2>3
<1>6. CASE x5 = "over"
  <2>1. CASE x8 = <<"close">>
    BY <1>3, <1>6, <2>1
  <2>2. CASE x8 # <<"close">>
    <3>1. PICK h \in {0, 1} : IsOver(h)
      BY <1>1, <1>6, <2>2 DEF DownloadInv
    <3>2. CASE h = 1
      <4>1. m = "header" /\ x3 # 0
        BY <1>2, <1>3, <3>1, <3>2 DEF IsOver, Carries
      <4>. QED BY <1>6, <3>1, <3>2, <4>1
    <3>3. CASE h = 0 /\ x7 - x4 > 0
      <4>1. m = "chunk"
        BY <1>2, <1>3, <3>1, <3>3 DEF IsOver, Carries
      <4>. QED BY <1>2, <1>6, <3>1, <3>3, <4>1
    <3>4. CASE h = 0 /\ x7 - x4 = 0
      <4>1. m \in {"end", "error"} /\ (m = "end" => x4 = x6)
        BY <1>2, <1>3, <3>1, <3>4 DEF IsOver, Carries
      <4>. QED BY <1>6, <4>1
    <3>. QED BY <1>2, <3>2, <3>3, <3>4
  <2>. QED BY <2>1, <2>2
<1>. QED BY <1>4, <1>5, <1>6

\* The first one is got, and the others stay.
LEMMA CarriesTail ==
  ASSUME NEW c \in Seq(Kinds), c # <<>>, NEW h, NEW k, Carries(c, h, k), h + k > 0
  PROVE  LET d == Tail(c)
         IN  /\ d \in Seq(Kinds) /\ Len(d) = Len(c) - 1
             /\ h = 1 => Carries(d, 0, k)
             /\ h = 0 => Carries(d, 0, k - 1)
             /\ \A i \in 1..Len(c) - 1 : d[i] = c[i + 1]
<1> DEFINE d == Tail(c)
<1>1. d \in Seq(Kinds) /\ Len(d) = Len(c) - 1 /\ Len(c) \in Nat /\ \A i \in 1..Len(c) - 1 : d[i] = c[i + 1]
  BY TailIs
<1> HIDE DEF d
<1>2. h \in {0, 1} /\ k \in Nat /\ h + k <= Len(c) /\ \A i \in 1..h + k : c[i] = IF i <= h THEN "header" ELSE "chunk"
  BY DEF Carries
<1>3. CASE h = 1
  <2>1. \A i \in 1..k : i + 1 \in 1..h + k /\ ~(i + 1 <= h) /\ i \in 1..Len(c) - 1
    BY <1>1, <1>2, <1>3
  <2>2. \A i \in 1..0 + k : d[i] = IF i <= 0 THEN "header" ELSE "chunk"
    BY <1>1, <1>2, <2>1
  <2>. QED BY <1>1, <1>2, <1>3, <2>2 DEF Carries, d
<1>4. CASE h = 0
  <2>1. \A i \in 1..k - 1 : i + 1 \in 1..h + k /\ ~(i + 1 <= h) /\ i \in 1..Len(c) - 1
    BY <1>1, <1>2, <1>4
  <2>2. \A i \in 1..0 + (k - 1) : d[i] = IF i <= 0 THEN "header" ELSE "chunk"
    BY <1>1, <1>2, <1>4, <2>1
  <2>. QED BY <1>1, <1>2, <1>4, <2>2 DEF Carries, d
<1>. QED BY <1>2, <1>3, <1>4

\* What is sent comes after it.
LEMMA CarriesMore ==
  ASSUME NEW c \in Seq(Kinds), NEW e \in Seq(Kinds), NEW h, NEW k, Carries(c, h, k)
  PROVE  LET d == c \o e
         IN  /\ d \in Seq(Kinds) /\ Len(d) = Len(c) + Len(e) /\ Carries(d, h, k)
             /\ \A i \in 1..Len(e) : d[Len(c) + i] = e[i]
             /\ e = <<"chunk">> /\ Len(c) = h + k => Carries(d, h, k + 1)
<1> DEFINE d == c \o e
<1>1. /\ d \in Seq(Kinds) /\ Len(c) \in Nat /\ Len(e) \in Nat /\ Len(d) = Len(c) + Len(e)
      /\ \A i \in 1..Len(c) : d[i] = c[i]
      /\ \A i \in 1..Len(e) : d[Len(c) + i] = e[i]
  BY CatIs
<1> HIDE DEF d
<1>2. h \in {0, 1} /\ k \in Nat /\ h + k <= Len(c) /\ \A i \in 1..h + k : c[i] = IF i <= h THEN "header" ELSE "chunk"
  BY DEF Carries
<1>3. \A i \in 1..h + k : d[i] = IF i <= h THEN "header" ELSE "chunk"
  BY <1>1, <1>2
<1>4. Carries(d, h, k)
  BY <1>1, <1>2, <1>3 DEF Carries
<1>5. ASSUME e = <<"chunk">>, Len(c) = h + k PROVE Carries(d, h, k + 1)
  <2>1. Len(e) = 1 /\ e[1] = "chunk"
    BY <1>5
  <2>2. d[h + k + 1] = "chunk" /\ Len(d) = h + (k + 1) /\ k + 1 \in Nat /\ ~(h + k + 1 <= h)
    BY <1>1, <1>2, <1>5, <2>1
  <2>3. \A i \in 1..h + (k + 1) : i \in 1..h + k \/ i = h + k + 1
    BY <1>2
  <2>. QED BY <1>2, <1>3, <2>2, <2>3 DEF Carries
<1>. QED BY <1>1, <1>4, <1>5 DEF d
LEMMA DownloadTypes ==
  ASSUME DownloadInv
  PROVE  /\ x8 \in Seq(Kinds) /\ x1 \in 0..MaxSize /\ x3 \in 0..MaxSize /\ x6 \in 0..MaxSize
         /\ x4 \in 0..MaxSize /\ x7 \in 0..MaxSize /\ x4 <= x7 /\ x7 <= x6 /\ x7 - x4 \in Nat
         /\ x4 \in Nat /\ x7 \in Nat /\ x6 \in Nat
         /\ x5 \in {"none", "stat", "read", "over"} /\ x2 \in {"none", "asked", "header", "done", "failed"}
         /\ Len(x8) \in Nat
  BY BoundsAssumption DEF DownloadInv, Download!TypeOK, Download!Sizes, Download!None, Kinds

\* The plugin's steps.
LEMMA DownloadHeader == ASSUME DownloadInv, Download!Header PROVE DownloadInv'
<1>1. x5 = "stat" /\ x8 = <<>> /\ x3 = 0 /\ x6 = 0 /\ x7 = 0 /\ x4 = 0 /\ x2 = "asked"
  BY DownloadTypes DEF Download!Header, DownloadInv
<1>2. UNCHANGED <<x1, x2, x4, x6, x7>>
  BY DEF Download!Header
<1>3. CASE x1 = 0
  <2>1. x5' = "over" /\ x3' = x3 /\ x8' = x8 \o <<"error", "close">>
    BY <1>3 DEF Download!Header, Download!Answer, Download!Sends, Download!None
  <2>2. /\ x8' \in Seq(Kinds) /\ Len(x8') = 2 /\ x8'[1] = "error" /\ x8'[2] = "close"
    BY <1>1, <2>1 DEF Kinds
  <2>3. IsOver(0)'
    BY <1>1, <1>2, <2>1, <2>2 DEF IsOver, Carries
  <2>4. Download!TypeOK'
    BY <1>2, <2>1, <2>2, DownloadTypes, BoundsAssumption DEF Download!TypeOK, Download!Sizes, Download!None, Kinds
  <2>. QED BY <1>1, <1>2, <2>1, <2>3, <2>4 DEF DownloadInv
<1>4. CASE x1 # 0
  <2>1. x5' = "read" /\ x3' = x1 /\ x8' = x8 \o <<"header">>
    BY <1>4 DEF Download!Header, Download!Sends, Download!None
  <2>2. x8' \in Seq(Kinds) /\ Len(x8') = 1 /\ x8'[1] = "header"
    BY <1>1, <2>1 DEF Kinds
  <2>3. Reads(1)'
    BY <1>1, <1>2, <2>1, <2>2 DEF Reads, Carries
  <2>4. Download!TypeOK'
    BY <1>2, <2>1, <2>2, DownloadTypes, BoundsAssumption DEF Download!TypeOK, Download!Sizes, Download!None, Kinds
  <2>. QED BY <1>1, <1>2, <1>4, <2>1, <2>3, <2>4 DEF DownloadInv
<1>. QED BY <1>3, <1>4

\* The plugin gives what it reads up, or is through.
LEMMA DownloadAnswers ==
  ASSUME DownloadInv, x5 = "read", NEW e \in {"end", "error"}, Download!Answer(<<e, "close">>),
         UNCHANGED <<x1, x2, x3, x4, x6, x7>>, e = "end" => x7 = x6
  PROVE  DownloadInv'
<1>1. x5' = "over" /\ x8' = x8 \o <<e, "close">>
  BY DEF Download!Answer, Download!Sends
<1>2. PICK h \in {0, 1} : Reads(h)
  BY DEF DownloadInv
<1> DEFINE k == x7 - x4
           f == <<e, "close">>
<1>3. Len(x8) = h + k /\ Carries(x8, h, k) /\ x3 # 0
  BY <1>2 DEF DownloadInv, Reads
<1>4. f \in Seq(Kinds) /\ Len(f) = 2 /\ f[1] = e /\ f[2] = "close"
  BY DEF Kinds
<1>0. x8' = x8 \o f
  BY <1>1
<1>5. x8 \in Seq(Kinds) /\ k \in Nat
  BY DownloadTypes
<1> HIDE DEF f
<1>6. /\ x8' \in Seq(Kinds) /\ Len(x8') = Len(x8) + 2 /\ Carries(x8', h, k)
      /\ x8'[Len(x8) + 1] = e /\ x8'[Len(x8) + 2] = "close"
  <2>1. /\ x8' \in Seq(Kinds) /\ Len(x8') = Len(x8) + Len(f) /\ Carries(x8', h, k)
        /\ \A i \in 1..Len(f) : x8'[Len(x8) + i] = f[i]
    BY <1>3, <1>4, <1>5, <1>0, CarriesMore
  <2>2. 1 \in 1..Len(f) /\ 2 \in 1..Len(f)
    BY <1>4
  <2>. QED BY <1>4, <2>1, <2>2
<1>7. IsOver(h)'
  BY <1>3, <1>5, <1>6 DEF IsOver
<1>8. Download!TypeOK'
  BY <1>1, <1>6, DownloadTypes, BoundsAssumption DEF Download!TypeOK, Download!Sizes, Download!None, Kinds
<1>9. x2 # "none" /\ x2 \notin {"done", "failed"}
  BY DEF DownloadInv
<1>. QED BY <1>1, <1>3, <1>7, <1>8, <1>9, DownloadTypes DEF DownloadInv

LEMMA DownloadOpen == ASSUME DownloadInv, Download!Open PROVE DownloadInv'
<1>1. x5 = "read" /\ x6 = 0 /\ UNCHANGED <<x1, x2, x3, x4, x7>>
  BY DEF Download!Open, Download!None, Download!tab
<1>2. CASE x1 = 0
  <2>1. Download!Answer(<<"error", "close">>) /\ UNCHANGED x6
    BY <1>2 DEF Download!Open, Download!None
  <2>. QED BY <1>1, <2>1, DownloadAnswers
<1>3. CASE x1 # 0
  <2>1. x6' = x1 /\ UNCHANGED <<x5, x8>>
    BY <1>3 DEF Download!Open, Download!None
  <2>2. Download!TypeOK'
    BY <1>1, <2>1, DownloadTypes, BoundsAssumption DEF Download!TypeOK, Download!Sizes, Download!None, Kinds
  <2>3. PICK h \in {0, 1} : Reads(h)
    BY <1>1 DEF DownloadInv
  <2>4. Reads(h)'
    BY <1>1, <2>1, <2>3 DEF Reads
  <2>5. x7' <= x6' /\ x4' <= x7' /\ x2 # "done"
    BY <1>1, <2>1, DownloadTypes DEF DownloadInv
  <2>. QED BY <1>1, <2>1, <2>2, <2>4, <2>5 DEF DownloadInv
<1>. QED BY <1>2, <1>3

LEMMA DownloadRead == ASSUME DownloadInv, Download!Read PROVE DownloadInv'
<1>1. x5 = "read" /\ UNCHANGED <<x1, x2, x3, x4, x6>>
  BY DEF Download!Read, Download!tab
<1>2. CASE \/ x7 = x6 /\ Download!Answer(<<"end", "close">>) /\ UNCHANGED x7
           \/ Download!Answer(<<"error", "close">>) /\ UNCHANGED x7
  BY <1>1, <1>2, DownloadAnswers
<1>3. CASE x7 < x6 /\ x7' = x7 + 1 /\ Download!Sends(<<"chunk">>) /\ UNCHANGED x5
  <2> DEFINE k == x7 - x4
             f == <<"chunk">>
  <2>1. PICK h \in {0, 1} : Reads(h)
    BY <1>1 DEF DownloadInv
  <2>2. x8 \in Seq(Kinds) /\ k \in Nat /\ x8' = x8 \o f /\ f \in Seq(Kinds) /\ Len(f) = 1
    BY <1>3, DownloadTypes DEF Download!Sends, Kinds
  <2>3. Len(x8) = h + k /\ Carries(x8, h, k)
    BY <2>1 DEF Reads
  <2>4. x8' \in Seq(Kinds) /\ Len(x8') = Len(x8) + 1 /\ Carries(x8', h, k + 1)
    BY <2>2, <2>3, CarriesMore
  <2>5. x7' - x4' = k + 1 /\ x7' \in 0..MaxSize /\ x4' <= x7' /\ x7' <= x6'
    BY <1>1, <1>3, DownloadTypes, BoundsAssumption
  <2>6. Reads(h)'
    BY <2>2, <2>3, <2>4, <2>5 DEF Reads
  <2>7. Download!TypeOK'
    BY <1>1, <1>3, <2>4, <2>5, DownloadTypes, BoundsAssumption DEF Download!TypeOK, Download!Sizes, Download!None, Kinds
  <2>. QED BY <1>1, <1>3, <2>5, <2>6, <2>7 DEF DownloadInv
<1>. QED BY <1>2, <1>3 DEF Download!Read

\* The tab's steps.
LEMMA DownloadTab ==
  ASSUME DownloadInv, Download!Ask \/ Download!Cancel \/ Download!Breaks \/ Download!Replaced PROVE DownloadInv'
<1>1. CASE Download!Ask
  <2>1. x2 = "none" /\ x2' = "asked" /\ x5' = "stat" /\ x5 = "none" /\ UNCHANGED <<x1, x3, x4, x6, x7, x8>>
    BY <1>1 DEF Download!Ask, DownloadInv
  <2>2. Download!TypeOK'
    BY <2>1, DownloadTypes, BoundsAssumption DEF Download!TypeOK, Download!Sizes, Download!None, Kinds
  <2>. QED BY <2>1, <2>2 DEF DownloadInv
<1>2. CASE Download!Cancel
  <2>1. x2' = "failed" /\ x5' = "over" /\ x8' = <<>> /\ UNCHANGED <<x1, x3, x4, x6, x7>>
    BY <1>2 DEF Download!Cancel
  <2>2. Download!TypeOK'
    BY <2>1, DownloadTypes, BoundsAssumption DEF Download!TypeOK, Download!Sizes, Download!None, Kinds
  <2>. QED BY <2>1, <2>2 DEF DownloadInv
<1>3. CASE Download!Breaks
  <2>1. x2 \in {"asked", "header"} /\ x5' = "over" /\ x8' = <<"close">> /\ UNCHANGED <<x1, x2, x3, x4, x6, x7>>
    BY <1>3 DEF Download!Breaks, Download!tab
  <2>2. <<"close">> \in Seq(Kinds)
    BY DEF Kinds
  <2>3. Download!TypeOK'
    BY <2>1, <2>2, DownloadTypes, BoundsAssumption DEF Download!TypeOK, Download!Sizes, Download!None, Kinds
  <2>. QED BY <2>1, <2>3 DEF DownloadInv
<1>4. CASE Download!Replaced
  <2>1. x1' \in 0..MaxSize /\ UNCHANGED <<x2, x3, x4, x5, x6, x7, x8>>
    BY <1>4, BoundsAssumption DEF Download!Replaced, Download!Sizes, Download!None, Download!tab, Download!plugin
  <2>2. Download!TypeOK'
    BY <2>1, DownloadTypes, BoundsAssumption DEF Download!TypeOK, Download!Sizes, Download!None, Kinds
  <2>3. \A h : (Reads(h) => Reads(h)') /\ (IsOver(h) => IsOver(h)')
    BY <2>1 DEF Reads, IsOver
  <2>. QED BY <2>1, <2>2, <2>3 DEF DownloadInv
<1>. QED BY <1>1, <1>2, <1>3, <1>4

LEMMA DownloadTakes ==
  ASSUME DownloadInv, NEW m \in {"header", "chunk"}, Download!Gets(m), UNCHANGED <<x1, x3, x5, x6, x7>>,
         IF m = "header" THEN x2' = "header" /\ x4' = x4 ELSE x4' = x4 + 1 /\ x2' = x2
  PROVE  DownloadInv'
<1>1. m \in Kinds /\ x8 # <<>> /\ x8' = Tail(x8) /\ x2 \in {"asked", "header"} /\ x2' \in {"asked", "header"}
  BY DEF Download!Gets, Kinds
<1>2. /\ m = "header" => x3 # 0
      /\ m = "chunk" => x4 + 1 <= x7
      /\ x5 # "none" /\ x5 # "stat"
  BY <1>1, DownloadGets
<1>3. PICK h \in {0, 1} : /\ m = "header" => h = 1
                          /\ m = "chunk" => h = 0 /\ x7 - x4 > 0
                          /\ x5 = "read" => Reads(h)
                          /\ x5 = "over" => IsOver(h)
  BY <1>1, DownloadGets
<1> DEFINE k == x7 - x4
           l == x7' - x4'
<1>4. k \in Nat /\ l = (IF m = "header" THEN k ELSE k - 1) /\ x4' \in 0..MaxSize /\ x4' <= x7' /\ x7' <= x6' /\ h + k > 0
      /\ h + k - 1 = l /\ l \in Nat
  BY <1>2, <1>3, DownloadTypes, BoundsAssumption
<1>5. Carries(x8, h, k) /\ x5 \in {"read", "over"}
  BY <1>2, <1>3, DownloadTypes DEF Reads, IsOver
<1>6. /\ x8' \in Seq(Kinds) /\ Len(x8') = Len(x8) - 1 /\ (h = 1 => Carries(x8', 0, k)) /\ (h = 0 => Carries(x8', 0, k - 1))
      /\ \A i \in 1..Len(x8) - 1 : x8'[i] = x8[i + 1]
  BY <1>1, <1>4, <1>5, DownloadTypes, CarriesTail
<1>7. Carries(x8', 0, l)
  BY <1>3, <1>4, <1>6
<1> HIDE DEF k
<1>8. x5 = "read" => Reads(0)'
  <2>1. ASSUME x5 = "read" PROVE Len(x8') = 0 + l
    <3>1. Len(x8) = h + k
      BY <1>3, <2>1 DEF Reads, k
    <3>. QED BY <1>4, <1>6, <3>1
  <2>. QED BY <1>7, <2>1 DEF Reads
<1>9. x5 = "over" => IsOver(0)'
  <2>1. ASSUME x5 = "over"
        PROVE  /\ Len(x8') = l + 2 /\ x8'[l + 1] \in {"end", "error"} /\ x8'[l + 2] = "close"
               /\ x8'[l + 1] = "end" => x7 = x6
    <3>1. /\ Len(x8) = h + k + 2 /\ x8[h + k + 1] \in {"end", "error"} /\ x8[h + k + 2] = "close"
          /\ x8[h + k + 1] = "end" => x7 = x6
      BY <1>3, <2>1 DEF IsOver, k
    <3>2. l + 1 \in 1..Len(x8) - 1 /\ l + 2 \in 1..Len(x8) - 1 /\ l + 1 + 1 = h + k + 1 /\ l + 2 + 1 = h + k + 2
      BY <1>4, <3>1
    <3>3. x8'[l + 1] = x8[h + k + 1] /\ x8'[l + 2] = x8[h + k + 2]
      BY <1>6, <3>2
    <3>. QED BY <1>4, <1>6, <3>1, <3>3
  <2>. QED BY <1>4, <1>7, <2>1 DEF IsOver
<1>10. Download!TypeOK'
  <2>1. /\ x8' \in Seq({"header", "chunk", "end", "error", "close"})
        /\ x2' \in {"none", "asked", "header", "done", "failed"} /\ x4' \in 0..MaxSize
    BY <1>1, <1>4, <1>6 DEF Kinds
  <2>2. Download!TypeOK
    BY DEF DownloadInv
  <2>. QED BY <2>1, <2>2 DEF Download!TypeOK
<1>11. x2 = "header" => x3 # 0
  BY DEF DownloadInv
<1>. QED BY <1>1, <1>2, <1>4, <1>5, <1>8, <1>9, <1>10, <1>11 DEF DownloadInv

\* A download is done with an end, or with a close that comes when it has the
\* size the header told; that is less than what was read only if the file grew.
LEMMA DownloadEnds ==
  ASSUME DownloadInv, NEW m \in {"end", "error", "close"}, Download!Gets(m), UNCHANGED <<x1, x3, x4, x5, x6, x7>>,
         x2' \in {"done", "failed"}, x2' = "done" => m = "end" \/ Download!HasAll
  PROVE  DownloadInv'
<1>1. m \in Kinds /\ x8' = <<>> /\ x2 \in {"asked", "header"}
  BY DEF Download!Gets, Kinds
<1>2. x5 = "over" /\ (m = "end" => x4 = x6)
  BY <1>1, DownloadGets
<1>3. x2' = "done" => x4 = x6 \/ x3 < x6
  <2>1. ASSUME Download!HasAll PROVE x4 = x6 \/ x3 < x6
    BY <2>1, DownloadTypes DEF Download!HasAll
  <2>. QED BY <1>2, <2>1
<1>4. Download!TypeOK'
  BY <1>1, DownloadTypes, BoundsAssumption DEF Download!TypeOK, Download!Sizes, Download!None, Kinds
<1>. QED BY <1>1, <1>2, <1>3, <1>4, DownloadTypes DEF DownloadInv

LEMMA DownloadStep == ASSUME DownloadInv, Download!Next PROVE DownloadInv'
<1>1. CASE Download!GetsHeader \/ Download!GetsChunk
  BY <1>1, DownloadTakes DEF Download!GetsHeader, Download!GetsChunk, Download!plugin
<1>2. CASE Download!GetsEnd \/ Download!GetsError \/ Download!GetsClose
  BY <1>2, DownloadEnds DEF Download!GetsEnd, Download!GetsError, Download!GetsClose, Download!plugin
<1>. QED BY <1>1, <1>2, DownloadHeader, DownloadOpen, DownloadRead, DownloadTab DEF Download!Next

LEMMA DownloadKept == ASSUME DownloadInv PROVE Download!DownloadIsWhole
  BY DEF DownloadInv, Download!DownloadIsWhole
-----------------------------------------------------------------------------
(* Messages in chunks over a data channel *)

LEMMA ChunksAre == ChunksOf \in Seq(Nat \ {0})
  BY DEF ChunksOf

\* What is on the way, in the order in which it comes.
OnItsWire == x4 \o x3

\* A frame is what buildChunks makes of a message that was sent.
FrameIs(f, n) ==
    /\ f \in Channel!Frame /\ f.of < n /\ f.i \in 1..ChunksOf[f.of] /\ f.flag = Channel!FlagOf(f.of, f.i)
    /\ ChunksOf[f.of] > 1 => f.id \in Channel!Messages

\* A frame of a message that has begun comes right after the one before it.
Precedes(f, g) == f.of < g.of \/ (f.of = g.of /\ f.i < g.i)
Follows(f, g) == g.i > 1 => f.of = g.of /\ f.id = g.id /\ g.i = f.i + 1

Stream(s, n) ==
    /\ s \in Seq(Channel!Frame)
    /\ \A j \in 1..Len(s) : FrameIs(s[j], n)
    /\ \A j, k \in 1..Len(s) : j < k => Precedes(s[j], s[k])
    /\ \A j, k \in 1..Len(s) : k = j + 1 => Follows(s[j], s[k])

\* What the receiver has of a message when the frame f of it comes.
PartOf(m, j) == IF j = 1 \/ j <= MaxChunks THEN [of |-> m, n |-> j] ELSE Channel!Nothing
Started(f, p) == f.i > 1 => p[f.id] = PartOf(f.of, f.i - 1)

\* The last frame of m is in s; m is in the sequence d.
HasLast(s, m) == \E j \in 1..Len(s) : s[j].of = m /\ s[j].i = ChunksOf[m]
HasIt(d, m) == \E j \in 1..Len(d) : d[j] = m

ChannelType ==
    /\ x1 \in 1..Len(ChunksOf) + 1 /\ x2 \in 1..x1 /\ x3 \in Seq(Channel!Frame) /\ x4 \in Seq(Channel!Frame)
    /\ x5 \in BOOLEAN /\ x6 \in BOOLEAN
    /\ x7 \in [Channel!Messages -> {"none", "pending", "resolved", "rejected"}]
    /\ x8 \in [Channel!Messages -> [of : Channel!Messages \cup {0}, n : Nat]] /\ x9 \in Seq(Channel!Messages)
    /\ Len(x4) <= HighWater

\* What was delivered comes before all that is on its way, ...
DeliveredFirst ==
    /\ \A j, k \in 1..Len(x9) : j < k => x9[j] < x9[k]
    /\ \A j \in 1..Len(x9) : x9[j] < x1
    /\ \A j \in 1..Len(x9), k \in 1..Len(OnItsWire) : x9[j] < OnItsWire[k].of

\* ... what waits has its last frame in the queue, and what was sent has it on
\* the way or was delivered.
LastsKept ==
    x6 => \A m \in Channel!Messages :
            /\ x7[m] = "pending" => HasLast(x3, m)
            /\ x7[m] = "resolved" => HasLast(x4, m) \/ HasIt(x9, m) \/ ChunksOf[m] > MaxChunks

\* What waits is sent some time.
QueueIsTold == x6 /\ x3 # <<>> => x5 \/ Len(x4) > LowWater

ChannelInv ==
    /\ ChannelType /\ Stream(OnItsWire, x1) /\ DeliveredFirst /\ LastsKept /\ QueueIsTold
    /\ OnItsWire # <<>> => Started(OnItsWire[1], x8)

LEMMA MessagesAre ==
  /\ Len(ChunksOf) \in Nat /\ Channel!Messages = 1..Len(ChunksOf)
  /\ \A m \in Channel!Messages : m \in Nat \ {0} /\ ChunksOf[m] \in Nat \ {0}
<1>1. Len(ChunksOf) \in Nat /\ Channel!Messages = 1..Len(ChunksOf)
  BY ChunksAre DEF Channel!Messages
<1>2. \A m \in 1..Len(ChunksOf) : ChunksOf[m] \in Nat \ {0}
  BY ChunksAre
<1>. QED BY <1>1, <1>2

LEMMA FramesAre ==
  ASSUME NEW f, NEW n \in Nat, FrameIs(f, n)
  PROVE  /\ f.of \in Channel!Messages /\ f.of \in Nat \ {0} /\ f.i \in Nat \ {0} /\ f.i <= ChunksOf[f.of] /\ f.id \in Nat
         /\ ChunksOf[f.of] \in Nat \ {0} /\ f \in Channel!Frame
<1>1. f.of \in Channel!Messages /\ f.i \in Nat /\ f.id \in Nat /\ f \in Channel!Frame
  BY DEF FrameIs, Channel!Frame
<1>. QED BY <1>1, MessagesAre DEF FrameIs

\* A part of a stream is one.
LEMMA StreamOfCat ==
  ASSUME NEW n, NEW s \in Seq(Channel!Frame), NEW t \in Seq(Channel!Frame), Stream(s \o t, n)
  PROVE  Stream(s, n) /\ Stream(t, n)
<1> DEFINE u == s \o t
<1>1. /\ u \in Seq(Channel!Frame) /\ Len(s) \in Nat /\ Len(t) \in Nat /\ Len(u) = Len(s) + Len(t)
      /\ \A i \in 1..Len(s) : u[i] = s[i]
      /\ \A i \in 1..Len(t) : u[Len(s) + i] = t[i]
  BY CatIs
<1>2. Stream(u, n)
  OBVIOUS
<1> HIDE DEF u
<1>3. \A i \in 1..Len(s) : i \in 1..Len(u)
  BY <1>1
<1>4. \A i \in 1..Len(t) : i \in Nat /\ Len(s) + i \in 1..Len(u)
  BY <1>1
<1>5. Stream(s, n)
  BY <1>1, <1>2, <1>3 DEF Stream
<1>6. Stream(t, n)
  <2>1. \A j \in 1..Len(t) : FrameIs(t[j], n)
    BY <1>1, <1>2, <1>4 DEF Stream
  <2>2. ASSUME NEW j \in 1..Len(t), NEW k \in 1..Len(t), j < k PROVE Precedes(t[j], t[k])
    <3>1. Len(s) + j \in 1..Len(u) /\ Len(s) + k \in 1..Len(u) /\ Len(s) + j < Len(s) + k
      BY <1>1, <1>4, <2>2
    <3>2. Precedes(u[Len(s) + j], u[Len(s) + k])
      BY <1>2, <3>1 DEF Stream
    <3>. QED BY <1>1, <3>2
  <2>3. ASSUME NEW j \in 1..Len(t), NEW k \in 1..Len(t), k = j + 1 PROVE Follows(t[j], t[k])
    <3>1. Len(s) + j \in 1..Len(u) /\ Len(s) + k \in 1..Len(u) /\ Len(s) + k = Len(s) + j + 1
      BY <1>1, <1>4, <2>3
    <3>2. Follows(u[Len(s) + j], u[Len(s) + k])
      BY <1>2, <3>1 DEF Stream
    <3>. QED BY <1>1, <3>2
  <2>. QED BY <2>1, <2>2, <2>3 DEF Stream
<1>. QED BY <1>5, <1>6

\* The frames of the next message come after what is on its way.
LEMMA StreamMore ==
  ASSUME NEW n \in Channel!Messages, NEW s, NEW t \in Seq(Channel!Frame), Stream(s, n), NEW id \in Channel!Messages,
         \A i \in 1..Len(t) : i <= ChunksOf[n] /\ t[i] = [of |-> n, i |-> i, flag |-> Channel!FlagOf(n, i), id |-> id]
  PROVE  Stream(s \o t, n + 1)
<1> DEFINE u == s \o t
<1>1. /\ u \in Seq(Channel!Frame) /\ Len(s) \in Nat /\ Len(t) \in Nat /\ Len(u) = Len(s) + Len(t)
      /\ \A i \in 1..Len(s) : u[i] = s[i]
      /\ \A i \in 1..Len(u) : i \in 1..Len(s) \/ (i - Len(s) \in 1..Len(t) /\ u[i] = t[i - Len(s)])
  BY CatIs DEF Stream
<1> HIDE DEF u
<1>2. ASSUME NEW i \in 1..Len(t) PROVE FrameIs(t[i], n + 1) /\ t[i].of = n /\ t[i].i = i /\ t[i].id = id
  <2>1. t[i].of = n /\ t[i].i = i /\ t[i].id = id /\ t[i].flag = Channel!FlagOf(n, i) /\ i \in 1..ChunksOf[n]
    <3>1. i <= ChunksOf[n] /\ t[i] = [of |-> n, i |-> i, flag |-> Channel!FlagOf(n, i), id |-> id]
      OBVIOUS
    <3>2. i \in 1..ChunksOf[n]
      BY <1>1, <3>1, MessagesAre
    <3>. QED BY <3>1, <3>2
  <2>2. t[i] \in Channel!Frame /\ n < n + 1
    BY MessagesAre
  <2>. QED BY <2>1, <2>2 DEF FrameIs
<1>3. ASSUME NEW i \in 1..Len(s) PROVE FrameIs(s[i], n + 1) /\ s[i].of < n
  <2>1. FrameIs(s[i], n)
    BY DEF Stream
  <2>2. s[i].of \in Nat /\ s[i].of < n /\ n \in Nat
    BY <2>1, FramesAre, MessagesAre DEF FrameIs
  <2>. QED BY <2>1, <2>2 DEF FrameIs
<1>4. \A i \in 1..Len(u) : FrameIs(u[i], n + 1)
  BY <1>1, <1>2, <1>3
<1>5. ASSUME NEW j \in 1..Len(u), NEW k \in 1..Len(u), j < k PROVE Precedes(u[j], u[k])
  <2>1. CASE k \in 1..Len(s)
    <3>1. j \in 1..Len(s)
      BY <1>1, <1>5, <2>1
    <3>. QED BY <1>1, <1>5, <2>1, <3>1 DEF Stream
  <2>2. CASE k \notin 1..Len(s) /\ j \in 1..Len(s)
    <3>1. k - Len(s) \in 1..Len(t) /\ u[k] = t[k - Len(s)] /\ u[j] = s[j]
      BY <1>1, <2>2
    <3>. QED BY <1>2, <1>3, <2>2, <3>1 DEF Precedes
  <2>3. CASE k \notin 1..Len(s) /\ j \notin 1..Len(s)
    <3>1. /\ k - Len(s) \in 1..Len(t) /\ u[k] = t[k - Len(s)] /\ j - Len(s) \in 1..Len(t) /\ u[j] = t[j - Len(s)]
          /\ j - Len(s) < k - Len(s)
      BY <1>1, <1>5, <2>3
    <3>. QED BY <1>2, <3>1 DEF Precedes
  <2>. QED BY <2>1, <2>2, <2>3
<1>6. ASSUME NEW j \in 1..Len(u), NEW k \in 1..Len(u), k = j + 1 PROVE Follows(u[j], u[k])
  <2>1. CASE k \in 1..Len(s)
    <3>1. j \in 1..Len(s)
      BY <1>1, <1>6, <2>1
    <3>. QED BY <1>1, <1>6, <2>1, <3>1 DEF Stream
  <2>2. CASE k \notin 1..Len(s) /\ j \in 1..Len(s)
    <3>1. k - Len(s) \in 1..Len(t) /\ u[k] = t[k - Len(s)] /\ k - Len(s) = 1
      BY <1>1, <1>6, <2>2
    <3>. QED BY <1>2, <3>1 DEF Follows
  <2>3. CASE k \notin 1..Len(s) /\ j \notin 1..Len(s)
    <3>1. /\ k - Len(s) \in 1..Len(t) /\ u[k] = t[k - Len(s)] /\ j - Len(s) \in 1..Len(t) /\ u[j] = t[j - Len(s)]
          /\ k - Len(s) = j - Len(s) + 1
      BY <1>1, <1>6, <2>3
    <3>. QED BY <1>2, <3>1 DEF Follows
  <2>. QED BY <2>1, <2>2, <2>3
<1>7. Stream(u, n + 1)
  BY <1>1, <1>4, <1>5, <1>6 DEF Stream
<1>. QED BY <1>7 DEF u
LEMMA ChannelInit == ASSUME Channel!Init PROVE ChannelInv
<1>1. /\ x1 = 1 /\ x2 = 1 /\ x3 = <<>> /\ x4 = <<>> /\ x5 = FALSE /\ x6 = TRUE
      /\ x7 = [m \in Channel!Messages |-> "none"] /\ x8 = [m \in Channel!Messages |-> Channel!Nothing] /\ x9 = <<>>
  BY DEF Channel!Init
<1>2. \A S : <<>> \in Seq(S) /\ Len(<<>>) = 0 /\ 1..0 = {}
  OBVIOUS
<1>3. OnItsWire = <<>>
  BY <1>1 DEF OnItsWire
<1>4. ChannelType
  <2>1. x1 \in 1..Len(ChunksOf) + 1 /\ x2 \in 1..x1 /\ Len(x4) <= HighWater
    BY <1>1, <1>2, MessagesAre, BoundsAssumption
  <2>2. x8 \in [Channel!Messages -> [of : Channel!Messages \cup {0}, n : Nat]]
    BY <1>1 DEF Channel!Nothing, Channel!None
  <2>3. x5 \in BOOLEAN /\ x6 \in BOOLEAN
    BY <1>1
  <2>. QED BY <1>1, <1>2, <2>1, <2>2, <2>3 DEF ChannelType
<1>5. Stream(OnItsWire, x1)
  BY <1>2, <1>3 DEF Stream
<1>6. DeliveredFirst
  BY <1>1, <1>2 DEF DeliveredFirst
<1>7. LastsKept /\ QueueIsTold
  BY <1>1 DEF LastsKept, QueueIsTold
<1>. QED BY <1>3, <1>4, <1>5, <1>6, <1>7 DEF ChannelInv

LEMMA ChannelTypes ==
  ASSUME ChannelInv
  PROVE  /\ x1 \in Nat \ {0} /\ x3 \in Seq(Channel!Frame) /\ x4 \in Seq(Channel!Frame) /\ x9 \in Seq(Channel!Messages)
         /\ Len(x3) \in Nat /\ Len(x4) \in Nat /\ Len(x9) \in Nat /\ OnItsWire \in Seq(Channel!Frame)
         /\ x8 \in [Channel!Messages -> [of : Channel!Messages \cup {0}, n : Nat]]
         /\ Len(OnItsWire) \in Nat /\ Len(OnItsWire) = Len(x4) + Len(x3)
<1>1. x3 \in Seq(Channel!Frame) /\ x4 \in Seq(Channel!Frame) /\ x9 \in Seq(Channel!Messages)
  BY DEF ChannelInv, ChannelType
<1>2. /\ OnItsWire \in Seq(Channel!Frame) /\ Len(x4) \in Nat /\ Len(x3) \in Nat /\ Len(x9) \in Nat
      /\ Len(OnItsWire) = Len(x4) + Len(x3)
  BY <1>1, CatIs, LenProperties DEF OnItsWire
<1>. QED BY <1>1, <1>2, MessagesAre DEF ChannelInv, ChannelType

\* The frames of a message that is sent join what is on its way.
LEMMA ChannelGrows ==
  ASSUME ChannelInv, x1 \in Channel!Messages, NEW e \in Seq(Channel!Frame),
         \A i \in 1..Len(e) : i <= ChunksOf[x1] /\ e[i] = [of |-> x1, i |-> i, flag |-> Channel!FlagOf(x1, i), id |-> x2],
         OnItsWire' = OnItsWire \o e, x1' = x1 + 1, UNCHANGED <<x8, x9>>
  PROVE  Stream(OnItsWire, x1)' /\ DeliveredFirst' /\ (OnItsWire # <<>> => Started(OnItsWire[1], x8))'
<1> DEFINE s == OnItsWire
           u == s \o e
<1>1. Stream(s, x1) /\ x2 \in Channel!Messages /\ s \in Seq(Channel!Frame) /\ Len(s) \in Nat /\ x1 \in Nat
  BY ChannelTypes, MessagesAre DEF ChannelInv, ChannelType
<1>2. Stream(u, x1 + 1)
  BY <1>1, StreamMore
<1>3. /\ u \in Seq(Channel!Frame) /\ Len(e) \in Nat /\ Len(u) = Len(s) + Len(e)
      /\ \A i \in 1..Len(s) : u[i] = s[i]
      /\ \A i \in 1..Len(u) : i \in 1..Len(s) \/ (i - Len(s) \in 1..Len(e) /\ u[i] = e[i - Len(s)])
  BY <1>1, CatIs
<1>4. OnItsWire' = u
  OBVIOUS
<1>5. ASSUME NEW i \in 1..Len(e) PROVE e[i].of = x1 /\ e[i].i = i
  <2>1. e[i] = [of |-> x1, i |-> i, flag |-> Channel!FlagOf(x1, i), id |-> x2]
    OBVIOUS
  <2>. QED BY <2>1
<1>6. DeliveredFirst
  BY DEF ChannelInv
<1>7. \A j \in 1..Len(x9) : x9[j] \in Nat /\ x9[j] < x1
  BY <1>6, ChannelTypes, MessagesAre DEF DeliveredFirst
<1> HIDE DEF u
<1>8. ASSUME NEW j \in 1..Len(x9), NEW k \in 1..Len(u) PROVE x9[j] < u[k].of
  <2>1. CASE k \in 1..Len(s)
    BY <1>3, <1>6, <2>1 DEF DeliveredFirst
  <2>2. CASE k \notin 1..Len(s)
    <3>1. k - Len(s) \in 1..Len(e) /\ u[k] = e[k - Len(s)]
      BY <1>3, <2>2
    <3>2. u[k].of = x1
      BY <1>5, <3>1
    <3>. QED BY <1>7, <3>2
  <2>. QED BY <2>1, <2>2
<1>9. DeliveredFirst'
  BY <1>1, <1>4, <1>6, <1>7, <1>8 DEF DeliveredFirst
<1>10. ASSUME u # <<>> PROVE Started(u[1], x8)
  <2>1. CASE s = <<>>
    <3>1. Len(s) = 0 /\ Len(u) # 0
      BY <1>3, <1>10, <2>1, EmptySeq
    <3>2. 1 \in 1..Len(u) /\ 1 \notin 1..Len(s) /\ 1 - Len(s) = 1
      BY <1>3, <3>1
    <3>3. 1 \in 1..Len(e) /\ u[1] = e[1]
      BY <1>3, <3>2
    <3>. QED BY <1>5, <3>3 DEF Started
  <2>2. CASE s # <<>>
    <3>1. Len(s) # 0
      BY <1>1, <2>2, EmptySeq
    <3>2. u[1] = s[1]
      BY <1>1, <1>3, <3>1
    <3>. QED BY <2>2, <3>2 DEF ChannelInv
  <2>. QED BY <2>1, <2>2
<1>. QED BY <1>2, <1>4, <1>9, <1>10

LEMMA LastsStay ==
  ASSUME NEW s \in Seq(Channel!Frame), NEW t \in Seq(Channel!Frame), NEW m
  PROVE  HasLast(s \o t, m) <=> HasLast(s, m) \/ HasLast(t, m)
<1> DEFINE u == s \o t
<1>1. /\ Len(s) \in Nat /\ Len(t) \in Nat /\ Len(u) = Len(s) + Len(t)
      /\ \A i \in 1..Len(s) : u[i] = s[i]
      /\ \A i \in 1..Len(t) : u[Len(s) + i] = t[i]
      /\ \A i \in 1..Len(u) : i \in 1..Len(s) \/ (i - Len(s) \in 1..Len(t) /\ u[i] = t[i - Len(s)])
  BY CatIs
<1> HIDE DEF u
<1>2. (\A i \in 1..Len(s) : i \in 1..Len(u)) /\ \A i \in 1..Len(t) : Len(s) + i \in 1..Len(u)
  BY <1>1
<1>3. ASSUME HasLast(u, m) PROVE HasLast(s, m) \/ HasLast(t, m)
  <2>1. PICK j \in 1..Len(u) : u[j].of = m /\ u[j].i = ChunksOf[m]
    BY <1>3 DEF HasLast
  <2>. QED BY <1>1, <2>1 DEF HasLast
<1>4. ASSUME HasLast(s, m) PROVE HasLast(u, m)
  <2>1. PICK j \in 1..Len(s) : s[j].of = m /\ s[j].i = ChunksOf[m]
    BY <1>4 DEF HasLast
  <2>. QED BY <1>1, <1>2, <2>1 DEF HasLast
<1>5. ASSUME HasLast(t, m) PROVE HasLast(u, m)
  <2>1. PICK j \in 1..Len(t) : t[j].of = m /\ t[j].i = ChunksOf[m]
    BY <1>5 DEF HasLast
  <2>. QED BY <1>1, <1>2, <2>1 DEF HasLast
<1>. QED BY <1>3, <1>4, <1>5 DEF u
\* buildChunks, and what the channel takes of it at once.
LEMMA FramesOf ==
  ASSUME ChannelInv, x1 \in Channel!Messages
  PROVE  LET F == Channel!Frames(x1)
         IN  /\ F \in Seq(Channel!Frame) /\ Len(F) = ChunksOf[x1] /\ ChunksOf[x1] \in Nat \ {0}
             /\ \A i \in 1..Len(F) :
                  F[i] = [of |-> x1, i |-> i, flag |-> Channel!FlagOf(x1, i), id |-> x2] /\ F[i].of = x1 /\ F[i].i = i
<1> DEFINE F == Channel!Frames(x1)
           C == ChunksOf[x1]
           R(i) == [of |-> x1, i |-> i, flag |-> Channel!FlagOf(x1, i), id |-> x2]
<1>1. C \in Nat \ {0} /\ x2 \in Nat /\ x1 \in Channel!Messages
  BY MessagesAre DEF ChannelInv, ChannelType
<1>2. ASSUME NEW i \in 1..C PROVE R(i) \in Channel!Frame /\ R(i).of = x1 /\ R(i).i = i
  <2>1. Channel!FlagOf(x1, i) \in {"string", "begin", "middle", "end"} /\ i \in Nat
    BY DEF Channel!FlagOf
  <2>. QED BY <1>1, <2>1 DEF Channel!Frame
<1>3. F = [i \in 1..C |-> R(i)]
  BY Zenon DEF Channel!Frames
<1> HIDE DEF F, R
<1>4. F \in [1..C -> Channel!Frame] /\ \A i \in 1..C : F[i] = R(i)
  BY <1>2, <1>3
<1>5. F \in Seq(Channel!Frame) /\ Len(F) = C
  BY <1>1, <1>4, IsASeq, LenProperties
<1>. QED BY <1>1, <1>2, <1>4, <1>5 DEF F, R

LEMMA TakenIs ==
  ASSUME ChannelInv, x1 \in Channel!Messages
  PROVE  LET t == Channel!Taken(x1)
         IN  /\ t \in 0..ChunksOf[x1] /\ Len(x4) + t <= HighWater
             /\ t > 0 => x3 = <<>>
             /\ t < ChunksOf[x1] => x3 # <<>> \/ Len(x4) + t = HighWater
<1>1. ChunksOf[x1] \in Nat \ {0} /\ Len(x4) \in Nat /\ Len(x4) <= HighWater /\ HighWater \in Nat
  BY MessagesAre, ChannelTypes, BoundsAssumption DEF ChannelInv, ChannelType
<1>2. CASE x3 # <<>> \/ Len(x4) >= HighWater
  <2>1. Channel!Room = 0
    BY <1>2 DEF Channel!Room
  <2>. QED BY <1>1, <1>2, <2>1 DEF Channel!Taken
<1>3. CASE ~(x3 # <<>> \/ Len(x4) >= HighWater)
  <2>1. Channel!Room = HighWater - Len(x4)
    BY <1>3 DEF Channel!Room
  <2>. QED BY <1>1, <1>3, <2>1 DEF Channel!Taken
<1>. QED BY <1>2, <1>3

\* One after the other, for the provers an operator of its own.
Joined(s, t) == s \o t

LEMMA JoinedIs ==
  ASSUME NEW S, NEW s \in Seq(S), NEW t \in Seq(S), NEW u \in Seq(S)
  PROVE  Joined(Joined(s, t), u) = Joined(s, Joined(t, u))
  BY ConcatAssociative DEF Joined

LEMMA JoinedToNone ==
  ASSUME NEW S, NEW s \in Seq(S), NEW t \in Seq(S)
  PROVE  (Len(s) = 0 => Joined(s, t) = t) /\ (Len(t) = 0 => Joined(s, t) = s)
<1>1. Len(s) = 0 => Joined(s, t) = t
  BY EmptySeq, ConcatEmptySeq DEF Joined
<1>2. Len(t) = 0 => Joined(s, t) = s
  BY EmptySeq, ConcatEmptySeq DEF Joined
<1>. QED BY <1>1, <1>2

\* It goes on the wire only if nothing waits, so that nothing is overtaken.
LEMMA SentInOrder ==
  ASSUME NEW S, NEW s \in Seq(S), NEW a \in Seq(S), NEW r \in Seq(S), NEW b \in Seq(S), Len(a) = 0 \/ Len(r) = 0
  PROVE  Joined(Joined(s, a), Joined(r, b)) = Joined(Joined(s, r), Joined(a, b))
<1>1. Joined(Joined(s, a), b) = Joined(s, Joined(a, b)) /\ Joined(Joined(s, r), b) = Joined(s, Joined(r, b))
  BY JoinedIs
<1>2. CASE Len(r) = 0
  <2>1. Joined(r, b) = b /\ Joined(s, r) = s
    BY <1>2, JoinedToNone
  <2>. QED BY <1>1, <2>1
<1>3. CASE Len(a) = 0
  <2>1. Joined(a, b) = b /\ Joined(s, a) = s
    BY <1>3, JoinedToNone
  <2>. QED BY <1>1, <2>1
<1>. QED BY <1>2, <1>3

LEMMA SendsKeep == ASSUME ChannelInv, Channel!Send PROVE ChannelInv'
<1> DEFINE F == Channel!Frames(x1)
           t == Channel!Taken(x1)
           C == ChunksOf[x1]
           a == SubSeq(F, 1, t)
           b == SubSeq(F, t + 1, Len(F))
<1>1. /\ x6 /\ x1 \in Channel!Messages /\ x1' = x1 + 1 /\ UNCHANGED <<x5, x6, x8, x9>>
      /\ x2' = IF C > 1 THEN x2 + 1 ELSE x2
      /\ x7' = [x7 EXCEPT ![x1] = IF t = C THEN "resolved" ELSE "pending"]
  BY DEF Channel!Send, Channel!Call
<1>2. /\ F \in Seq(Channel!Frame) /\ Len(F) = C /\ C \in Nat \ {0}
      /\ \A i \in 1..Len(F) :
           F[i] = [of |-> x1, i |-> i, flag |-> Channel!FlagOf(x1, i), id |-> x2] /\ F[i].of = x1 /\ F[i].i = i
  BY <1>1, FramesOf
<1>3. t \in 0..C /\ Len(x4) + t <= HighWater /\ (t > 0 => x3 = <<>>) /\ (t < C => x3 # <<>> \/ Len(x4) + t = HighWater)
  BY <1>1, TakenIs
<1>4. x4' = x4 \o a /\ x3' = x3 \o b
  BY <1>2 DEF Channel!Send
<1> HIDE DEF F, t
<1>5. /\ a \in Seq(Channel!Frame) /\ Len(a) = t /\ \A i \in 1..t : a[i] = F[i]
      /\ b \in Seq(Channel!Frame) /\ Len(b) = C - t /\ \A i \in 1..C - t : b[i] = F[i + t]
  <2>1. t \in 0..Len(F)
    BY <1>2, <1>3
  <2>2. /\ a \in Seq(Channel!Frame) /\ Len(a) = t /\ \A i \in 1..t : a[i] = F[i]
        /\ b \in Seq(Channel!Frame) /\ Len(b) = Len(F) - t /\ \A i \in 1..Len(F) - t : b[i] = F[i + t]
    BY <1>2, <2>1, CutIs
  <2>. QED BY <1>2, <2>2
<1>6. x3 \in Seq(Channel!Frame) /\ x4 \in Seq(Channel!Frame) /\ Len(x3) \in Nat /\ Len(x4) \in Nat
  BY ChannelTypes
<1>7. OnItsWire' = OnItsWire \o F
  <2>1. Joined(a, b) = F
    <3>1. t \in 0..Len(F)
      BY <1>2, <1>3
    <3>. QED BY <1>2, <3>1, CutAgain DEF Joined
  <2>2. OnItsWire' = Joined(Joined(x4, a), Joined(x3, b)) /\ OnItsWire = Joined(x4, x3)
    BY <1>4 DEF OnItsWire, Joined
  <2>3. OnItsWire \o F = Joined(OnItsWire, F)
    BY DEF Joined
  <2>4. Len(a) = 0 \/ Len(x3) = 0
    BY <1>3, <1>5
  <2> HIDE DEF a, b
  <2>5. Joined(Joined(x4, a), Joined(x3, b)) = Joined(Joined(x4, x3), Joined(a, b))
    BY <1>5, <1>6, <2>4, SentInOrder
  <2>. QED BY <2>1, <2>2, <2>3, <2>5
<1>8. \A i \in 1..Len(F) : i <= ChunksOf[x1] /\ F[i] = [of |-> x1, i |-> i, flag |-> Channel!FlagOf(x1, i), id |-> x2]
  <2>1. \A i \in 1..Len(F) : i <= ChunksOf[x1]
    BY <1>2
  <2>. QED BY <1>2, <2>1, Zenon
<1>9. Stream(OnItsWire, x1)' /\ DeliveredFirst' /\ (OnItsWire # <<>> => Started(OnItsWire[1], x8))'
  BY <1>1, <1>2, <1>7, <1>8, ChannelGrows
<1> HIDE DEF a, b
<1>10. x4' \in Seq(Channel!Frame) /\ x3' \in Seq(Channel!Frame) /\ Len(x4') = Len(x4) + t /\ Len(x3') = Len(x3) + (C - t)
  BY <1>4, <1>5, <1>6, CatIs
<1>11. ChannelType'
  <2>1. x1' \in 1..Len(ChunksOf) + 1 /\ x2' \in 1..x1' /\ Len(x4') <= HighWater
    <3>1. x1 \in 1..Len(ChunksOf) /\ x2 \in 1..x1 /\ Len(ChunksOf) \in Nat
      BY <1>1, MessagesAre DEF ChannelInv, ChannelType
    <3>2. x2' \in {x2, x2 + 1}
      BY <1>1
    <3>. QED BY <1>1, <1>3, <1>10, <3>1, <3>2
  <2>2. x7' \in [Channel!Messages -> {"none", "pending", "resolved", "rejected"}]
    BY <1>1 DEF ChannelInv, ChannelType
  <2>. QED BY <1>1, <1>10, <2>1, <2>2 DEF ChannelInv, ChannelType
<1>12. LastsKept'
  <2>1. t = C => HasLast(a, x1)
    <3>1. ASSUME t = C PROVE C \in 1..Len(a) /\ a[C] = F[C] /\ F[C].of = x1 /\ F[C].i = C
      <4>1. C \in 1..Len(F) /\ C \in 1..t /\ C \in 1..Len(a)
        BY <1>2, <1>5, <3>1
      <4>. QED BY <1>2, <1>5, <4>1, Zenon
    <3>. QED BY <3>1 DEF HasLast
  <2>2. t # C => HasLast(b, x1)
    <3>1. ASSUME t # C PROVE C - t \in 1..Len(b) /\ b[C - t] = F[C]
      <4>1. C - t \in 1..C - t /\ (C - t) + t = C
        BY <1>2, <1>3, <3>1
      <4>2. b[C - t] = F[(C - t) + t] /\ Len(b) = C - t
        BY <1>5, <4>1
      <4>. QED BY <4>1, <4>2
    <3>2. C \in 1..Len(F)
      BY <1>2
    <3>3. F[C].of = x1 /\ F[C].i = C
      BY <1>2, <3>2, Zenon
    <3>. QED BY <3>1, <3>3 DEF HasLast
  <2>3. ASSUME NEW m \in Channel!Messages
        PROVE  /\ x7'[m] = "pending" => HasLast(x3', m)
               /\ x7'[m] = "resolved" => HasLast(x4', m) \/ HasIt(x9', m) \/ ChunksOf[m] > MaxChunks
    <3>1. CASE m = x1
      <4>1. x7'[m] = IF t = C THEN "resolved" ELSE "pending"
        BY <1>1, <3>1 DEF ChannelInv, ChannelType
      <4>. QED BY <1>4, <1>5, <1>6, <2>1, <2>2, <3>1, <4>1, LastsStay
    <3>2. CASE m # x1
      <4>1. x7'[m] = x7[m]
        BY <1>1, <3>2 DEF ChannelInv, ChannelType
      <4>2. /\ x7[m] = "pending" => HasLast(x3, m)
            /\ x7[m] = "resolved" => HasLast(x4, m) \/ HasIt(x9, m) \/ ChunksOf[m] > MaxChunks
        BY <1>1 DEF ChannelInv, LastsKept
      <4>. QED BY <1>1, <1>4, <1>5, <1>6, <4>1, <4>2, LastsStay
    <3>. QED BY <3>1, <3>2
  <2>. QED BY <2>3 DEF LastsKept
<1>13. QueueIsTold'
  <2>1. CASE x3 # <<>>
    <3>1. t = 0
      BY <1>3, <2>1
    <3>. QED BY <1>1, <1>6, <1>10, <2>1, <3>1, BoundsAssumption DEF ChannelInv, QueueIsTold
  <2>2. CASE x3 = <<>> /\ t < C
    BY <1>3, <1>6, <1>10, <2>2, BoundsAssumption DEF QueueIsTold
  <2>3. CASE x3 = <<>> /\ t = C
    <3>1. Len(x3') = 0
      BY <1>2, <1>10, <2>3
    <3>2. x3' = <<>>
      BY <1>10, <3>1, EmptySeq
    <3>. QED BY <3>2 DEF QueueIsTold
  <2>. QED BY <1>2, <1>3, <2>1, <2>2, <2>3
<1>. QED BY <1>9, <1>11, <1>12, <1>13 DEF ChannelInv

LEMMA SendThrowsKeeps == ASSUME ChannelInv, Channel!SendThrows PROVE ChannelInv'
<1> DEFINE F == Channel!Frames(x1)
           t == Channel!Taken(x1)
           C == ChunksOf[x1]
<1>1. /\ x6 /\ x1 \in Channel!Messages /\ x1' = x1 + 1 /\ UNCHANGED <<x3, x5, x6, x8, x9>>
      /\ x2' = IF C > 1 THEN x2 + 1 ELSE x2
      /\ x7' = [x7 EXCEPT ![x1] = "rejected"]
  BY DEF Channel!SendThrows, Channel!Call
<1>2. /\ F \in Seq(Channel!Frame) /\ Len(F) = C /\ C \in Nat \ {0}
      /\ \A i \in 1..Len(F) :
           F[i] = [of |-> x1, i |-> i, flag |-> Channel!FlagOf(x1, i), id |-> x2] /\ F[i].of = x1 /\ F[i].i = i
  BY <1>1, FramesOf
<1>3. t \in 0..C /\ Len(x4) + t <= HighWater /\ (t > 0 => x3 = <<>>)
  BY <1>1, TakenIs
<1>4. PICK n \in 0..t - 1 : x4' = x4 \o SubSeq(F, 1, n)
  BY DEF Channel!SendThrows
<1> DEFINE a == SubSeq(F, 1, n)
<1> HIDE DEF F, t
<1>5. n \in 0..Len(F) /\ n \in Nat /\ n < t /\ x3 = <<>>
  BY <1>2, <1>3, <1>4
<1>6. a \in Seq(Channel!Frame) /\ Len(a) = n /\ \A i \in 1..n : a[i] = F[i]
  BY <1>2, <1>5, CutIs
<1>7. x4' = x4 \o a
  BY <1>4
<1> HIDE DEF a
<1>8. x3 \in Seq(Channel!Frame) /\ x4 \in Seq(Channel!Frame) /\ Len(x3) \in Nat /\ Len(x4) \in Nat
  BY ChannelTypes
<1>9. x4' \in Seq(Channel!Frame) /\ Len(x4') = Len(x4) + n
  BY <1>6, <1>7, <1>8, CatIs
<1>10. OnItsWire = x4 /\ OnItsWire' = x4'
  BY <1>1, <1>5, <1>8, <1>9, ConcatEmptySeq DEF OnItsWire
<1>11. \A i \in 1..Len(a) : i <= ChunksOf[x1] /\ a[i] = [of |-> x1, i |-> i, flag |-> Channel!FlagOf(x1, i), id |-> x2]
  <2>1. \A i \in 1..Len(a) : i <= ChunksOf[x1] /\ i \in 1..Len(F) /\ i \in 1..n
    BY <1>2, <1>5, <1>6
  <2>. QED BY <1>2, <1>6, <2>1, Zenon
<1>12. Stream(OnItsWire, x1)' /\ DeliveredFirst' /\ (OnItsWire # <<>> => Started(OnItsWire[1], x8))'
  <2>1. OnItsWire' = OnItsWire \o a
    BY <1>7, <1>10
  <2>. QED BY <1>1, <1>6, <1>11, <2>1, ChannelGrows
<1>13. ChannelType'
  <2>1. x1' \in 1..Len(ChunksOf) + 1 /\ x2' \in 1..x1' /\ Len(x4') <= HighWater
    BY <1>1, <1>3, <1>5, <1>8, <1>9, MessagesAre, BoundsAssumption DEF ChannelInv, ChannelType
  <2>2. x7' \in [Channel!Messages -> {"none", "pending", "resolved", "rejected"}]
    BY <1>1 DEF ChannelInv, ChannelType
  <2>. QED BY <1>1, <1>9, <2>1, <2>2 DEF ChannelInv, ChannelType
<1>14. LastsKept'
  <2>1. ASSUME NEW m \in Channel!Messages
        PROVE  /\ x7'[m] = "pending" => HasLast(x3', m)
               /\ x7'[m] = "resolved" => HasLast(x4', m) \/ HasIt(x9', m) \/ ChunksOf[m] > MaxChunks
    <3>1. x7'[m] = IF m = x1 THEN "rejected" ELSE x7[m]
      BY <1>1 DEF ChannelInv, ChannelType
    <3>2. /\ x7[m] = "pending" => HasLast(x3, m)
          /\ x7[m] = "resolved" => HasLast(x4, m) \/ HasIt(x9, m) \/ ChunksOf[m] > MaxChunks
      BY <1>1 DEF ChannelInv, LastsKept
    <3>. QED BY <1>1, <1>6, <1>7, <1>8, <3>1, <3>2, LastsStay
  <2>. QED BY <2>1 DEF LastsKept
<1>15. QueueIsTold'
  BY <1>1, <1>5 DEF QueueIsTold
<1>. QED BY <1>12, <1>13, <1>14, <1>15 DEF ChannelInv
\* What is given up was the end of what is on its way.
LEMMA ChannelShrinks ==
  ASSUME ChannelInv, NEW s \in Seq(Channel!Frame), NEW v \in Seq(Channel!Frame), OnItsWire = s \o v,
         OnItsWire' = s, UNCHANGED <<x1, x8, x9>>
  PROVE  Stream(OnItsWire, x1)' /\ DeliveredFirst' /\ (OnItsWire # <<>> => Started(OnItsWire[1], x8))'
<1>1. Stream(OnItsWire, x1) /\ Len(s) \in Nat /\ Len(OnItsWire) = Len(s) + Len(v) /\ Len(v) \in Nat
  BY CatIs DEF ChannelInv
<1>2. \A i \in 1..Len(s) : OnItsWire[i] = s[i] /\ i \in 1..Len(OnItsWire)
  BY <1>1, CatIs
<1>3. Stream(s, x1)
  BY <1>1, StreamOfCat
<1>4. DeliveredFirst'
  BY <1>2 DEF ChannelInv, DeliveredFirst
<1>5. ASSUME s # <<>> PROVE Started(s[1], x8)
  <2>1. 1 \in 1..Len(s)
    BY <1>1, <1>5, EmptySeq
  <2>2. OnItsWire[1] = s[1] /\ OnItsWire # <<>>
    BY <1>1, <1>2, <2>1
  <2>. QED BY <2>2 DEF ChannelInv
<1>. QED BY <1>3, <1>4, <1>5

LEMMA LastOfIs ==
  ASSUME NEW s \in Seq(Channel!Frame), NEW m
  PROVE  (m \in Channel!LastOf(s) <=> HasLast(s, m)) /\ (HasLast(s, m) => m \in Channel!AnyOf(s))
<1>1. DOMAIN s = 1..Len(s)
  OBVIOUS
<1>. QED BY <1>1 DEF Channel!LastOf, Channel!AnyOf, HasLast

LEMMA DrainKeeps == ASSUME ChannelInv, Channel!Drain PROVE ChannelInv'
<1> DEFINE free == HighWater - Len(x4)
           n == IF free < Len(x3) THEN free ELSE Len(x3)
           a == SubSeq(x3, 1, n)
           b == SubSeq(x3, n + 1, Len(x3))
<1>1. /\ x6 /\ x5 /\ x5' = FALSE /\ UNCHANGED <<x1, x2, x6, x8, x9>>
      /\ x4' = x4 \o a /\ x3' = b /\ x7' = Channel!Settled(Channel!LastOf(a), "resolved")
  BY DEF Channel!Drain
<1>2. x3 \in Seq(Channel!Frame) /\ x4 \in Seq(Channel!Frame) /\ Len(x3) \in Nat /\ Len(x4) \in Nat
  BY ChannelTypes
<1>3. /\ n \in 0..Len(x3) /\ Len(x4) + n <= HighWater /\ (n = Len(x3) \/ Len(x4) + n = HighWater)
  BY <1>2, BoundsAssumption DEF ChannelInv, ChannelType
<1> HIDE DEF n
<1>4. /\ a \in Seq(Channel!Frame) /\ Len(a) = n /\ b \in Seq(Channel!Frame) /\ Len(b) = Len(x3) - n
  BY <1>2, <1>3, CutIs
<1>5. Joined(a, b) = x3
  BY <1>2, <1>3, CutAgain DEF Joined
<1> HIDE DEF a, b
<1>6. x4' \in Seq(Channel!Frame) /\ Len(x4') = Len(x4) + n
  BY <1>1, <1>2, <1>4, CatIs
<1>7. OnItsWire' = OnItsWire
  <2>1. OnItsWire' = Joined(Joined(x4, a), b) /\ OnItsWire = Joined(x4, Joined(a, b))
    BY <1>1, <1>5 DEF OnItsWire, Joined
  <2>. QED BY <1>2, <1>4, <2>1, JoinedIs
<1>8. Stream(OnItsWire, x1)' /\ DeliveredFirst' /\ (OnItsWire # <<>> => Started(OnItsWire[1], x8))'
  BY <1>1, <1>7 DEF ChannelInv, DeliveredFirst
<1>9. \A m \in Channel!Messages : x7'[m] = IF HasLast(a, m) /\ x7[m] = "pending" THEN "resolved" ELSE x7[m]
  BY <1>1, <1>4, LastOfIs DEF Channel!Settled
<1>10. ChannelType'
  <2>1. x7' \in [Channel!Messages -> {"none", "pending", "resolved", "rejected"}]
    BY <1>1, <1>9 DEF ChannelInv, ChannelType, Channel!Settled
  <2>. QED BY <1>1, <1>3, <1>4, <1>6, <2>1 DEF ChannelInv, ChannelType
<1>11. LastsKept'
  <2>1. ASSUME NEW m \in Channel!Messages
        PROVE  /\ x7'[m] = "pending" => HasLast(x3', m)
               /\ x7'[m] = "resolved" => HasLast(x4', m) \/ HasIt(x9', m) \/ ChunksOf[m] > MaxChunks
    <3>1. /\ x7[m] = "pending" => HasLast(x3, m)
          /\ x7[m] = "resolved" => HasLast(x4, m) \/ HasIt(x9, m) \/ ChunksOf[m] > MaxChunks
      BY <1>1 DEF ChannelInv, LastsKept
    <3>2. HasLast(x3, m) => HasLast(a, m) \/ HasLast(b, m)
      BY <1>4, <1>5, LastsStay DEF Joined
    <3>3. HasLast(x4, m) \/ HasLast(a, m) => HasLast(x4', m)
      BY <1>1, <1>2, <1>4, LastsStay
    <3>. QED BY <1>1, <1>9, <3>1, <3>2, <3>3
  <2>. QED BY <2>1 DEF LastsKept
<1>12. QueueIsTold'
  <2>1. CASE n = Len(x3)
    <3>1. x3' = <<>>
      BY <1>1, <1>2, <1>4, <2>1, EmptySeq
    <3>. QED BY <3>1 DEF QueueIsTold
  <2>2. CASE Len(x4) + n = HighWater
    BY <1>6, <2>2, BoundsAssumption DEF QueueIsTold
  <2>. QED BY <1>3, <2>1, <2>2
<1>. QED BY <1>8, <1>10, <1>11, <1>12 DEF ChannelInv

LEMMA DrainThrowsKeeps == ASSUME ChannelInv, Channel!DrainThrows PROVE ChannelInv'
<1>1. PICK n \in 0..Len(x3) - 1 :
        /\ Len(x4) + n < HighWater
        /\ x4' = x4 \o SubSeq(x3, 1, n)
        /\ x7' = [m \in Channel!Messages |->
             IF m \in Channel!LastOf(SubSeq(x3, 1, n)) THEN Channel!Settled({m}, "resolved")[m]
             ELSE Channel!Settled(Channel!AnyOf(x3), "rejected")[m]]
  BY Zenon DEF Channel!DrainThrows
<1>2. x6 /\ x5' = FALSE /\ x3' = <<>> /\ UNCHANGED <<x1, x2, x6, x8, x9>>
  BY DEF Channel!DrainThrows
<1>3. x3 \in Seq(Channel!Frame) /\ x4 \in Seq(Channel!Frame) /\ Len(x3) \in Nat /\ Len(x4) \in Nat
  BY ChannelTypes
<1> DEFINE a == SubSeq(x3, 1, n)
           b == SubSeq(x3, n + 1, Len(x3))
<1>4. n \in 0..Len(x3) /\ n \in Nat
  BY <1>3
<1>5. a \in Seq(Channel!Frame) /\ Len(a) = n /\ b \in Seq(Channel!Frame)
  BY <1>3, <1>4, CutIs
<1>6. Joined(a, b) = x3
  BY <1>3, <1>4, CutAgain DEF Joined
<1>7. /\ Len(x4) + n < HighWater /\ x4' = x4 \o a
      /\ x7' = [m \in Channel!Messages |->
             IF m \in Channel!LastOf(a) THEN Channel!Settled({m}, "resolved")[m]
             ELSE Channel!Settled(Channel!AnyOf(x3), "rejected")[m]]
  BY <1>1
<1> HIDE DEF a, b
<1>8. x4' \in Seq(Channel!Frame) /\ Len(x4') = Len(x4) + n
  BY <1>3, <1>5, <1>7, CatIs
<1>9. OnItsWire' = x4' /\ OnItsWire = x4' \o b
  <2>1. OnItsWire' = x4'
    BY <1>2, <1>8, ConcatEmptySeq DEF OnItsWire
  <2>2. OnItsWire = Joined(x4, Joined(a, b)) /\ x4' \o b = Joined(Joined(x4, a), b)
    BY <1>6, <1>7 DEF OnItsWire, Joined
  <2>. QED BY <1>3, <1>5, <2>1, <2>2, JoinedIs
<1>10. Stream(OnItsWire, x1)' /\ DeliveredFirst' /\ (OnItsWire # <<>> => Started(OnItsWire[1], x8))'
  BY <1>2, <1>5, <1>8, <1>9, ChannelShrinks
<1>11. \A m \in Channel!Messages :
         x7'[m] = IF x7[m] # "pending" THEN x7[m]
                  ELSE IF HasLast(a, m) THEN "resolved" ELSE IF m \in Channel!AnyOf(x3) THEN "rejected" ELSE "pending"
  BY <1>5, <1>7, LastOfIs DEF Channel!Settled
<1>12. ChannelType'
  <2>1. x7 \in [Channel!Messages -> {"none", "pending", "resolved", "rejected"}]
    BY DEF ChannelInv, ChannelType
  <2>2. \A m \in Channel!Messages : x7'[m] \in {"none", "pending", "resolved", "rejected"}
    BY <1>11, <2>1
  <2>3. x7' \in [Channel!Messages -> {"none", "pending", "resolved", "rejected"}]
    BY <1>7, <2>2
  <2>4. Len(x4') <= HighWater /\ x3' \in Seq(Channel!Frame)
    BY <1>2, <1>3, <1>4, <1>7, <1>8, BoundsAssumption
  <2>. QED BY <1>2, <1>8, <2>3, <2>4 DEF ChannelInv, ChannelType
<1>13. LastsKept'
  <2>1. ASSUME NEW m \in Channel!Messages
        PROVE  /\ x7'[m] = "pending" => HasLast(x3', m)
               /\ x7'[m] = "resolved" => HasLast(x4', m) \/ HasIt(x9', m) \/ ChunksOf[m] > MaxChunks
    <3>1. /\ x7[m] = "pending" => HasLast(x3, m)
          /\ x7[m] = "resolved" => HasLast(x4, m) \/ HasIt(x9, m) \/ ChunksOf[m] > MaxChunks
      BY <1>2 DEF ChannelInv, LastsKept
    <3>2. HasLast(x3, m) => m \in Channel!AnyOf(x3)
      BY <1>3, LastOfIs
    <3>3. HasLast(x4, m) \/ HasLast(a, m) => HasLast(x4', m)
      BY <1>3, <1>5, <1>7, LastsStay
    <3>. QED BY <1>2, <1>11, <3>1, <3>2, <3>3
  <2>. QED BY <2>1 DEF LastsKept
<1>14. QueueIsTold'
  BY <1>2 DEF QueueIsTold
<1>. QED BY <1>10, <1>12, <1>13, <1>14 DEF ChannelInv

LEMMA CloseKeeps == ASSUME ChannelInv, Channel!Close PROVE ChannelInv'
<1>1. /\ x5' = FALSE /\ x6' = FALSE /\ x3' = <<>> /\ x4' = <<>> /\ UNCHANGED <<x1, x2, x9>>
      /\ x7' = Channel!Settled(Channel!AnyOf(x3), "rejected")
      /\ x8' = [m \in Channel!Messages |-> Channel!Nothing]
  BY DEF Channel!Close
<1>2. /\ <<>> \in Seq(Channel!Frame) /\ Len(<<>>) = 0 /\ 1..0 = {}
  OBVIOUS
<1>3. OnItsWire' = <<>>
  BY <1>1 DEF OnItsWire
<1>4. Stream(OnItsWire, x1)' /\ DeliveredFirst'
  BY <1>1, <1>2, <1>3 DEF ChannelInv, Stream, DeliveredFirst
<1>5. LastsKept' /\ QueueIsTold'
  BY <1>1 DEF LastsKept, QueueIsTold
<1>6. ChannelType'
  <2>1. x7' \in [Channel!Messages -> {"none", "pending", "resolved", "rejected"}]
    BY <1>1 DEF ChannelInv, ChannelType, Channel!Settled
  <2>2. x8' \in [Channel!Messages -> [of : Channel!Messages \cup {0}, n : Nat]]
    BY <1>1 DEF Channel!Nothing, Channel!None
  <2>3. Len(x4') <= HighWater
    BY <1>1, <1>2, BoundsAssumption
  <2>4. x5' \in BOOLEAN /\ x6' \in BOOLEAN
    BY <1>1
  <2>. QED BY <1>1, <1>2, <2>1, <2>2, <2>3, <2>4 DEF ChannelInv, ChannelType
<1>. QED BY <1>3, <1>4, <1>5, <1>6 DEF ChannelInv
\* What feed does with the frame that comes: the last frame of a message, if it
\* is not too long, delivers it, and any other is kept.
LEMMA FeedIs ==
  ASSUME ChannelInv, NEW f, FrameIs(f, x1), Started(f, x8), Channel!Feed(f)
  PROVE  /\ x8' \in [Channel!Messages -> [of : Channel!Messages \cup {0}, n : Nat]]
         /\ x9' = x9 \/ (x9' = Append(x9, f.of) /\ f.i = ChunksOf[f.of])
         /\ f.i = ChunksOf[f.of] /\ ChunksOf[f.of] <= MaxChunks => x9' = Append(x9, f.of)
         /\ f.i < ChunksOf[f.of] => f.id \in Channel!Messages /\ x8'[f.id] = PartOf(f.of, f.i)
<1> DEFINE C == ChunksOf[f.of]
           P == [of : Channel!Messages \cup {0}, n : Nat]
           q == PartOf(f.of, f.i - 1)
<1>1. /\ f.of \in Channel!Messages /\ f.of \in Nat \ {0} /\ f.i \in Nat \ {0} /\ f.i <= C /\ C \in Nat \ {0}
      /\ f.flag = Channel!FlagOf(f.of, f.i) /\ (C > 1 => f.id \in Channel!Messages)
      /\ x8 \in [Channel!Messages -> P] /\ MaxChunks \in Nat
  BY ChannelTypes, FramesAre, BoundsAssumption DEF FrameIs
<1>2. CASE C = 1
  <2>1. f.flag = "string" /\ f.i = 1
    BY <1>1, <1>2 DEF Channel!FlagOf
  <2>2. x9' = Append(x9, f.of) /\ x8' = x8
    BY <2>1 DEF Channel!Feed
  <2>. QED BY <1>1, <1>2, <2>1, <2>2
<1>3. CASE C # 1 /\ f.i = 1
  <2>1. f.flag = "begin" /\ f.id \in Channel!Messages
    BY <1>1, <1>3 DEF Channel!FlagOf
  <2>2. x8' = [x8 EXCEPT ![f.id] = [of |-> f.of, n |-> 1]] /\ x9' = x9
    BY <2>1 DEF Channel!Feed
  <2>3. x8'[f.id] = PartOf(f.of, 1) /\ x8' \in [Channel!Messages -> P]
    BY <1>1, <2>1, <2>2 DEF PartOf
  <2>. QED BY <1>1, <1>3, <2>1, <2>2, <2>3
<1>4. CASE C # 1 /\ f.i # 1
  <2>1. f.flag \in {"middle", "end"} /\ (f.flag = "end" <=> f.i = C) /\ f.id \in Channel!Messages /\ f.i > 1
    BY <1>1, <1>4 DEF Channel!FlagOf
  <2>2. x8[f.id] = q
    BY <2>1 DEF Started
  <2>3. /\ x8' = [x8 EXCEPT ![f.id] =
              IF q = Channel!Nothing \/ Channel!TooLong(q.n) \/ f.flag = "end" THEN Channel!Nothing
              ELSE [q EXCEPT !.n = @ + 1]]
        /\ x9' = IF q = Channel!Nothing \/ Channel!TooLong(q.n) \/ f.flag # "end" THEN x9 ELSE Append(x9, q.of)
    BY <2>1, <2>2 DEF Channel!Feed
  <2>4. f.i - 1 = 1 \/ f.i - 1 <= MaxChunks <=> q # Channel!Nothing
    BY <1>1 DEF PartOf, Channel!Nothing, Channel!None
  <2>5. q # Channel!Nothing => q = [of |-> f.of, n |-> f.i - 1] /\ q.of = f.of /\ q.n = f.i - 1
    BY <1>1 DEF PartOf
  <2> HIDE DEF q
  <2>6. CASE f.i = C
    <3>1. x8' = [x8 EXCEPT ![f.id] = Channel!Nothing] /\ Channel!Nothing \in P
      BY <2>1, <2>3, <2>6 DEF Channel!Nothing, Channel!None
    <3>2. x8' \in [Channel!Messages -> P]
      BY <1>1, <2>1, <3>1
    <3>3. x9' = x9 \/ x9' = Append(x9, f.of)
      BY <2>3, <2>5
    <3>4. C <= MaxChunks => x9' = Append(x9, f.of)
      BY <1>1, <2>1, <2>3, <2>4, <2>5, <2>6 DEF Channel!TooLong
    <3>. QED BY <1>1, <2>6, <3>2, <3>3, <3>4
  <2>7. CASE f.i # C
    <3>1. f.flag # "end" /\ x9' = x9
      BY <2>1, <2>3, <2>7
    <3>2. CASE q # Channel!Nothing /\ ~Channel!TooLong(q.n)
      <4>1. [q EXCEPT !.n = @ + 1] = [of |-> f.of, n |-> f.i]
        BY <1>1, <2>5, <3>2
      <4>2. x8' = [x8 EXCEPT ![f.id] = [of |-> f.of, n |-> f.i]]
        BY <2>3, <3>1, <3>2, <4>1, Zenon
      <4>3. f.i <= MaxChunks
        BY <1>1, <2>5, <3>2 DEF Channel!TooLong
      <4>4. x8' \in [Channel!Messages -> P] /\ x8'[f.id] = PartOf(f.of, f.i)
        BY <1>1, <2>1, <4>2, <4>3 DEF PartOf
      <4>. QED BY <2>1, <2>7, <3>1, <4>4
    <3>3. CASE ~(q # Channel!Nothing /\ ~Channel!TooLong(q.n))
      <4>1. x8' = [x8 EXCEPT ![f.id] = Channel!Nothing] /\ Channel!Nothing \in P
        BY <2>3, <3>3 DEF Channel!Nothing, Channel!None
      <4>2. ~(f.i <= MaxChunks)
        BY <1>1, <2>1, <2>4, <2>5, <3>3 DEF Channel!TooLong
      <4>3. x8' \in [Channel!Messages -> P] /\ x8'[f.id] = PartOf(f.of, f.i)
        BY <1>1, <1>4, <2>1, <4>1, <4>2 DEF PartOf
      <4>. QED BY <2>1, <2>7, <3>1, <4>3
    <3>. QED BY <3>2, <3>3
  <2>. QED BY <2>6, <2>7
<1>. QED BY <1>2, <1>3, <1>4

\* What comes after the last frame of a message is of later ones.
LEMMA ReceiveWire ==
  ASSUME ChannelInv, Channel!Receive
  PROVE  LET f == x4[1]
         IN  /\ OnItsWire # <<>> /\ f = OnItsWire[1] /\ FrameIs(f, x1) /\ Started(f, x8)
             /\ Stream(OnItsWire', x1) /\ OnItsWire' = Tail(OnItsWire) /\ Len(OnItsWire') = Len(OnItsWire) - 1
             /\ \A k \in 1..Len(OnItsWire') : k + 1 \in 1..Len(OnItsWire) /\ OnItsWire'[k] = OnItsWire[k + 1]
             /\ f.i = ChunksOf[f.of] => \A k \in 1..Len(OnItsWire') : f.of < OnItsWire'[k].of
             /\ \A k \in 1..Len(OnItsWire') : k = 1 => Follows(f, OnItsWire'[k])
<1> DEFINE f == x4[1]
           u == OnItsWire
           w == Tail(u)
<1>1. x4 # <<>> /\ x4' = Tail(x4) /\ x3' = x3 /\ x4 \in Seq(Channel!Frame) /\ x3 \in Seq(Channel!Frame)
  BY ChannelTypes DEF Channel!Receive
<1>2. u # <<>> /\ u[1] = f /\ OnItsWire' = w
  BY <1>1, TailOfCat DEF OnItsWire
<1>3. Stream(u, x1) /\ u \in Seq(Channel!Frame) /\ x1 \in Nat /\ Started(f, x8)
  BY <1>2, ChannelTypes DEF ChannelInv
<1> HIDE DEF u
<1>4. /\ Len(u) \in Nat \ {0} /\ w \in Seq(Channel!Frame) /\ Len(w) = Len(u) - 1
      /\ \A i \in 1..Len(u) - 1 : w[i] = u[i + 1]
  BY <1>2, <1>3, TailIs
<1> HIDE DEF w
<1>5. 1 \in 1..Len(u) /\ \A k \in 1..Len(w) : k \in Nat /\ k + 1 \in 1..Len(u) /\ 1 < k + 1 /\ w[k] = u[k + 1]
  BY <1>4
<1>6. FrameIs(f, x1)
  BY <1>2, <1>3, <1>5 DEF Stream
<1>7. Stream(w, x1)
  <2>1. \A j \in 1..Len(w) : FrameIs(w[j], x1)
    BY <1>3, <1>5 DEF Stream
  <2>2. ASSUME NEW j \in 1..Len(w), NEW k \in 1..Len(w), j < k PROVE Precedes(w[j], w[k])
    <3>1. j + 1 \in 1..Len(u) /\ k + 1 \in 1..Len(u) /\ j + 1 < k + 1
      BY <1>5, <2>2
    <3>2. Precedes(u[j + 1], u[k + 1])
      BY <1>3, <3>1 DEF Stream
    <3>. QED BY <1>5, <3>2
  <2>3. ASSUME NEW j \in 1..Len(w), NEW k \in 1..Len(w), k = j + 1 PROVE Follows(w[j], w[k])
    <3>1. j + 1 \in 1..Len(u) /\ k + 1 \in 1..Len(u) /\ k + 1 = (j + 1) + 1
      BY <1>5, <2>3
    <3>2. Follows(u[j + 1], u[k + 1])
      BY <1>3, <3>1 DEF Stream
    <3>. QED BY <1>5, <3>2
  <2>. QED BY <1>4, <2>1, <2>2, <2>3 DEF Stream
<1>8. ASSUME f.i = ChunksOf[f.of], NEW k \in 1..Len(w) PROVE f.of < w[k].of
  <2>1. Precedes(f, w[k])
    BY <1>2, <1>3, <1>5 DEF Stream
  <2>2. /\ f.of \in Nat /\ f.i \in Nat /\ ChunksOf[f.of] \in Nat
        /\ w[k].of \in Nat /\ w[k].i \in Nat /\ w[k].i <= ChunksOf[w[k].of]
    <3>1. FrameIs(w[k], x1)
      BY <1>7 DEF Stream
    <3>. QED BY <1>3, <1>6, <3>1, FramesAre
  <2>3. f.of = w[k].of => w[k].i <= f.i
    BY <1>8, <2>2
  <2>. QED BY <2>1, <2>2, <2>3 DEF Precedes
<1>9. \A k \in 1..Len(w) : k = 1 => Follows(f, w[k])
  <2>1. ASSUME NEW k \in 1..Len(w), k = 1 PROVE Follows(f, w[k])
    <3>1. k + 1 = 1 + 1 /\ k + 1 \in 1..Len(u)
      BY <1>5, <2>1
    <3>2. Follows(u[1], u[k + 1])
      BY <1>3, <1>5, <3>1 DEF Stream
    <3>. QED BY <1>2, <1>5, <3>2
  <2>. QED BY <2>1
<1>. QED BY <1>2, <1>3, <1>4, <1>5, <1>6, <1>7, <1>8, <1>9 DEF u, w

LEMMA ReceiveKeeps == ASSUME ChannelInv, Channel!Receive PROVE ChannelInv'
<1> DEFINE f == x4[1]
<1>1. /\ x4 # <<>> /\ x4' = Tail(x4) /\ UNCHANGED <<x1, x2, x3, x6, x7>>
      /\ x5' = (x5 \/ (x6 /\ Len(x4) = LowWater + 1)) /\ Channel!Feed(Head(x4))
  BY DEF Channel!Receive
<1>2. /\ x4 \in Seq(Channel!Frame) /\ x3 \in Seq(Channel!Frame) /\ x9 \in Seq(Channel!Messages) /\ Len(x9) \in Nat
  BY ChannelTypes
<1>3. /\ Head(x4) = f /\ x4' \in Seq(Channel!Frame) /\ Len(x4') = Len(x4) - 1 /\ Len(x4) \in Nat \ {0}
      /\ \A i \in 1..Len(x4) - 1 : x4'[i] = x4[i + 1]
  BY <1>1, <1>2, TailIs
<1>4. /\ OnItsWire # <<>> /\ f = OnItsWire[1] /\ FrameIs(f, x1) /\ Started(f, x8)
      /\ Stream(OnItsWire', x1) /\ OnItsWire' = Tail(OnItsWire) /\ Len(OnItsWire') = Len(OnItsWire) - 1
      /\ \A k \in 1..Len(OnItsWire') : k + 1 \in 1..Len(OnItsWire) /\ OnItsWire'[k] = OnItsWire[k + 1]
      /\ f.i = ChunksOf[f.of] => \A k \in 1..Len(OnItsWire') : f.of < OnItsWire'[k].of
      /\ \A k \in 1..Len(OnItsWire') : k = 1 => Follows(f, OnItsWire'[k])
  BY ReceiveWire
<1> HIDE DEF f
<1>5. /\ x8' \in [Channel!Messages -> [of : Channel!Messages \cup {0}, n : Nat]]
      /\ x9' = x9 \/ (x9' = Append(x9, f.of) /\ f.i = ChunksOf[f.of])
      /\ f.i = ChunksOf[f.of] /\ ChunksOf[f.of] <= MaxChunks => x9' = Append(x9, f.of)
      /\ f.i < ChunksOf[f.of] => f.id \in Channel!Messages /\ x8'[f.id] = PartOf(f.of, f.i)
  BY <1>1, <1>3, <1>4, FeedIs
<1>6. /\ f.of \in Channel!Messages /\ f.of \in Nat /\ f.i \in Nat \ {0} /\ f.i <= ChunksOf[f.of]
      /\ ChunksOf[f.of] \in Nat \ {0} /\ f.of < x1 /\ x1 \in Nat
  BY <1>4, ChannelTypes, FramesAre DEF FrameIs
<1>7. DeliveredFirst
  BY DEF ChannelInv
<1>8. \A j \in 1..Len(x9) : x9[j] \in Nat /\ x9[j] < f.of
  <2>1. 1 \in 1..Len(OnItsWire)
    BY <1>4, ChannelTypes, EmptySeq
  <2>2. \A j \in 1..Len(x9), k \in 1..Len(OnItsWire) : x9[j] < OnItsWire[k].of
    BY <1>7 DEF DeliveredFirst
  <2>3. f = OnItsWire[1]
    BY <1>4
  <2>4. \A j \in 1..Len(x9) : x9[j] < f.of
    BY <2>1, <2>2, <2>3
  <2>5. \A j \in 1..Len(x9) : x9[j] \in Channel!Messages
    BY <1>2
  <2>6. \A m \in Channel!Messages : m \in Nat
    BY MessagesAre
  <2>. QED BY <2>4, <2>5, <2>6
<1>9. DeliveredFirst' /\ x9' \in Seq(Channel!Messages) /\ (\A m : HasIt(x9, m) => HasIt(x9', m))
  <2>1. CASE x9' = x9
    BY <1>1, <1>2, <1>4, <1>7, <2>1 DEF DeliveredFirst
  <2>2. CASE x9' = Append(x9, f.of) /\ f.i = ChunksOf[f.of]
    <3>1. /\ x9' \in Seq(Channel!Messages) /\ Len(x9') = Len(x9) + 1
          /\ \A j \in 1..Len(x9) : x9'[j] = x9[j]
          /\ x9'[Len(x9) + 1] = f.of
      BY <1>2, <1>6, <2>2, AppendIs
    <3>2. \A j \in 1..Len(x9') : j \in 1..Len(x9) \/ j = Len(x9) + 1
      BY <1>2, <3>1
    <3>3. \A j \in 1..Len(x9) : j \in 1..Len(x9')
      BY <1>2, <3>1
    <3>4. ASSUME NEW j \in 1..Len(x9'), NEW k \in 1..Len(x9'), j < k PROVE x9'[j] < x9'[k]
      <4>1. j \in 1..Len(x9)
        BY <1>2, <3>1, <3>4
      <4>. QED BY <1>7, <1>8, <3>1, <3>2, <3>4, <4>1 DEF DeliveredFirst
    <3>5. \A j \in 1..Len(x9') : x9'[j] < x1
      BY <1>6, <1>7, <3>1, <3>2 DEF DeliveredFirst
    <3>6. ASSUME NEW j \in 1..Len(x9'), NEW k \in 1..Len(OnItsWire') PROVE x9'[j] < OnItsWire'[k].of
      <4>1. CASE j = Len(x9) + 1
        BY <1>4, <2>2, <3>1, <4>1
      <4>2. CASE j \in 1..Len(x9)
        BY <1>4, <1>7, <3>1, <4>2 DEF DeliveredFirst
      <4>. QED BY <3>2, <4>1, <4>2
    <3>7. \A m : HasIt(x9, m) => HasIt(x9', m)
      BY <3>1, <3>3 DEF HasIt
    <3>. QED BY <1>1, <3>1, <3>4, <3>5, <3>6, <3>7 DEF DeliveredFirst
  <2>. QED BY <1>5, <2>1, <2>2
<1>10. Stream(OnItsWire, x1)'
  BY <1>1, <1>4
<1>11. (OnItsWire # <<>> => Started(OnItsWire[1], x8))'
  <2> DEFINE g == OnItsWire'[1]
  <2>1. SUFFICES ASSUME OnItsWire' # <<>>, g.i > 1 PROVE x8'[g.id] = PartOf(g.of, g.i - 1)
    BY DEF Started
  <2>2. 1 \in 1..Len(OnItsWire')
    BY <1>10, <2>1, LenProperties, EmptySeq DEF Stream
  <2>3. Follows(f, g) /\ FrameIs(g, x1)
    BY <1>4, <2>2 DEF Stream
  <2>4. g.i \in Nat /\ g.i <= ChunksOf[g.of]
    BY <1>6, <2>3, FramesAre
  <2>5. f.of = g.of /\ f.id = g.id /\ g.i = f.i + 1
    BY <2>1, <2>3 DEF Follows
  <2>6. f.i < ChunksOf[f.of] /\ g.i - 1 = f.i
    BY <1>6, <2>4, <2>5
  <2>. QED BY <1>5, <2>5, <2>6
<1>12. ChannelType'
  <2>1. Len(x4') <= HighWater
    BY <1>3, BoundsAssumption DEF ChannelInv, ChannelType
  <2>2. x5' \in BOOLEAN
    BY <1>1
  <2>. QED BY <1>1, <1>2, <1>3, <1>5, <1>9, <2>1, <2>2 DEF ChannelInv, ChannelType
<1>13. LastsKept'
  <2>1. ASSUME x6, NEW m \in Channel!Messages
        PROVE  /\ x7[m] = "pending" => HasLast(x3, m)
               /\ x7[m] = "resolved" => HasLast(x4', m) \/ HasIt(x9', m) \/ ChunksOf[m] > MaxChunks
    <3>1. /\ x7[m] = "pending" => HasLast(x3, m)
          /\ x7[m] = "resolved" => HasLast(x4, m) \/ HasIt(x9, m) \/ ChunksOf[m] > MaxChunks
      BY <2>1 DEF ChannelInv, LastsKept
    <3>2. ASSUME HasLast(x4, m) PROVE HasLast(x4', m) \/ HasIt(x9', m) \/ ChunksOf[m] > MaxChunks
      <4>1. PICK j \in 1..Len(x4) : x4[j].of = m /\ x4[j].i = ChunksOf[m]
        BY <3>2 DEF HasLast
      <4>2. CASE j = 1
        <5>1. f.of = m /\ f.i = ChunksOf[m]
          BY <4>1, <4>2 DEF f
        <5>2. CASE ChunksOf[m] <= MaxChunks
          <6>1. x9' = Append(x9, m)
            BY <1>5, <5>1, <5>2
          <6>2. Len(x9') = Len(x9) + 1 /\ x9'[Len(x9) + 1] = m
            BY <1>2, <6>1, AppendIs
          <6>3. Len(x9) + 1 \in 1..Len(x9')
            BY <1>2, <6>2
          <6>. QED BY <6>2, <6>3 DEF HasIt
        <5>3. CASE ~(ChunksOf[m] <= MaxChunks)
          BY <5>3, MessagesAre, BoundsAssumption
        <5>. QED BY <5>2, <5>3
      <4>3. CASE j # 1
        <5>1. j - 1 \in 1..Len(x4) - 1 /\ j - 1 \in 1..Len(x4') /\ (j - 1) + 1 = j
          BY <1>3, <4>3
        <5>2. x4'[j - 1] = x4[j]
          BY <1>3, <5>1
        <5>. QED BY <4>1, <5>1, <5>2 DEF HasLast
      <4>. QED BY <4>2, <4>3
    <3>. QED BY <1>9, <3>1, <3>2
  <2>. QED BY <1>1, <2>1 DEF LastsKept
<1>14. QueueIsTold'
  <2>1. QueueIsTold
    BY DEF ChannelInv
  <2>2. Len(x4) > LowWater => Len(x4) = LowWater + 1 \/ Len(x4') > LowWater
    BY <1>3, BoundsAssumption
  <2>. QED BY <1>1, <2>1, <2>2, Zenon DEF QueueIsTold
<1>. QED BY <1>9, <1>10, <1>11, <1>12, <1>13, <1>14 DEF ChannelInv

LEMMA ChannelStep == ASSUME ChannelInv, Channel!Next PROVE ChannelInv'
  BY SendsKeep, SendThrowsKeeps, DrainKeeps, DrainThrowsKeeps, ReceiveKeeps, CloseKeeps DEF Channel!Next

LEMMA ChannelIsKept == ASSUME ChannelInv PROVE Channel!DeliveredAsSent
<1>1. x3 \in Seq(Channel!Frame) /\ x4 \in Seq(Channel!Frame) /\ x9 \in Seq(Channel!Messages) /\ DOMAIN x9 = 1..Len(x9)
  BY ChannelTypes
<1>2. Channel!TypeOK
  <2>1. x1 \in 1..Len(ChunksOf) + 1 /\ x2 \in 1..Len(ChunksOf) + 1
    BY MessagesAre DEF ChannelInv, ChannelType
  <2>. QED BY <2>1 DEF ChannelInv, ChannelType, Channel!TypeOK, Channel!None
<1>3. \A i, j \in DOMAIN x9 : i < j => x9[i] < x9[j]
  BY <1>1 DEF ChannelInv, DeliveredFirst
<1>4. ASSUME NEW m \in Channel!Messages, x6, x7[m] = "resolved", ChunksOf[m] <= MaxChunks, ~Channel!OnTheWay(m)
      PROVE  Channel!Contains(x9, m)
  <2>1. ~HasLast(x4, m)
    BY <1>1, <1>4, LastOfIs DEF Channel!OnTheWay
  <2>2. HasIt(x9, m)
    BY <1>4, <2>1, MessagesAre, BoundsAssumption DEF ChannelInv, LastsKept
  <2>. QED BY <2>2 DEF HasIt, Channel!Contains
<1>5. x6 /\ x3 # <<>> => x5 \/ Len(x4) > LowWater
  BY DEF ChannelInv, QueueIsTold
<1>. QED BY <1>2, <1>3, <1>4, <1>5, Zenon DEF Channel!DeliveredAsSent
-----------------------------------------------------------------------------
(* The app: a step of the ids, or none, leaves every part as it is *)

Rest == UNCHANGED <<x1, x2, x3, x4, x5, x6, x7, x8, x9, x10, x11>>

LEMMA SignalStays == ASSUME Signal!OnItsWay, Rest PROVE Signal!OnItsWay'
<1>1. Signal!TypeOK /\ Way
  BY WayIsOn
<1>2. Signal!TypeOK' /\ Way'
  BY <1>1 DEF Rest, Signal!TypeOK, Way
<1>. QED BY <1>2, WayIsOnNext

LEMMA ChatStays == ASSUME ChatInv, Rest PROVE ChatInv'
  BY DEF Rest, ChatInv, Chat!TypeOK, Timed, HeardRight, OneCall, Calls, Chat!Stored

LEMMA TouchStays == ASSUME TouchInv, Rest PROVE TouchInv'
  BY DEF Rest, TouchInv, Touch!TypeOK, Held

LEMMA VoiceStays == ASSUME VoiceInv, Rest PROVE VoiceInv'
  BY DEF Rest, VoiceInv, Voice!TypeOK

LEMMA UploadStays == ASSUME UploadInv, Rest PROVE UploadInv'
<1>1. UploadType'
  BY DEF Rest, UploadInv, UploadType
<1>2. (x8.of = Upload!None => x8.whole)'
  BY DEF Rest, UploadInv
<1>3. ASSUME NEW t \in Upload!Uploads PROVE Placed(t)'
  BY <1>3 DEF Rest, UploadInv, Placed, Set, Stands, Upload!GivenUp
<1>. QED BY <1>1, <1>2, <1>3 DEF UploadInv

LEMMA TasksStay == ASSUME Tasks!QueueGoesOn, Rest PROVE Tasks!QueueGoesOn'
  BY DEF Rest, Tasks!QueueGoesOn, Tasks!TypeOK, Tasks!Of

LEMMA RelayStays == ASSUME RelayInv, Rest PROVE RelayInv'
  BY DEF Rest, RelayInv, RelayType, TicketsGone, Relay!TicketOnce, OneBotSocket, OnTheWayOnce, ToldRight,
         Relay!LostOnlyByClosing

LEMMA LogStays == ASSUME LogInv, Rest PROVE LogInv'
  BY DEF Rest, LogInv, Log!TypeOK, Log!NoneWaits

LEMMA DownloadStays == ASSUME DownloadInv, Rest PROVE DownloadInv'
  BY DEF Rest, DownloadInv, Download!TypeOK, Reads, IsOver

LEMMA ChannelStays == ASSUME ChannelInv, Rest PROVE ChannelInv'
  BY DEF Rest, ChannelInv, ChannelType, OnItsWire, DeliveredFirst, LastsKept, QueueIsTold

-----------------------------------------------------------------------------
(* The app: the part that runs keeps its invariant *)

AppInv ==
    /\ part = "signal" => Signal!OnItsWay
    /\ part = "chat" => ChatInv
    /\ part = "touch" => TouchInv
    /\ part = "voice" => VoiceInv
    /\ part = "upload" => UploadInv
    /\ part = "tasks" => Tasks!QueueGoesOn
    /\ part = "relay" => RelayInv
    /\ part = "log" => LogInv
    /\ part = "download" => DownloadInv
    /\ part = "channel" => ChannelInv

LEMMA SignalInit == ASSUME Signal!Init PROVE Signal!OnItsWay
<1>1. Signal!TypeOK
  <2>1. /\ x1 = Signal!None /\ x2 = [s \in Signal!Socks |-> "none"]
        /\ x3 = "disconnected" /\ x4 = FALSE /\ x5 = FALSE
        /\ x6 = Signal!None /\ x7 = "off" /\ x8 = {}
        /\ x9 = [id |-> Signal!None, last |-> Signal!None] /\ x10 = FALSE
    BY DEF Signal!Init
  <2>2. Signal!None \in 0..2 /\ Signal!None \in 0..MaxConnId
    BY BoundsAssumption DEF Signal!None
  <2>3. x2 \in [Signal!Socks -> {"none", "connecting", "open", "closing"}]
    BY <2>1
  <2>4. x9 \in [id : 0..MaxConnId, last : 0..MaxConnId]
    BY <2>1, <2>2
  <2>5. x4 \in BOOLEAN /\ x5 \in BOOLEAN /\ x10 \in BOOLEAN
    BY <2>1
  <2>. QED BY <2>1, <2>2, <2>3, <2>4, <2>5 DEF Signal!TypeOK
<1>2. Way
  BY DEF Signal!Init, Way
<1>. QED BY <1>1, <1>2, WayIsOn

LEMMA AppInvariance == AppSpec => []AppInv
<1>1. AppInit => AppInv
  BY SignalInit, InitChat, TouchInit, VoiceInit, UploadInit, TasksInit, RelayInit, LogInit,
     DownloadInit, ChannelInit DEF AppInit, AppInv
<1>2. AppInv /\ [AppNext]_allVars => AppInv'
  <2>1. ASSUME AppInv, UNCHANGED allVars PROVE AppInv'
    <3>1. Rest /\ part' = part
      BY <2>1 DEF allVars, Rest
    <3>. QED BY <2>1, <3>1, SignalStays, ChatStays, TouchStays, VoiceStays, UploadStays, TasksStay,
                RelayStays, LogStays, DownloadStays, ChannelStays DEF AppInv
  <2>2. ASSUME AppInv, AppNext PROVE AppInv'
    BY <2>2, SignalStep, ChatStep, TouchStep, VoiceStep, UploadStep, TasksStep, RelayStep, LogStep,
       DownloadStep, ChannelStep DEF AppInv, AppNext
  <2>. QED BY <2>1, <2>2
<1>. QED BY <1>1, <1>2, PTL DEF AppSpec

\* connect, __doConnect, __onClose and the heartbeat of the signalling connection:
\* one that is wanted is on its way, whatever fails and in whatever order.
THEOREM StaysOnItsWay == AppSpec => []OnItsWay
<1>1. AppInv => OnItsWay
  BY DEF AppInv, OnItsWay
<1>. QED BY <1>1, AppInvariance, PTL

\* The tab lets go of a socket unclosed only by the reconnect timer that connect()
\* has left armed.
THEOREM LostNoOtherWay == AppSpec => LostOnlyByConnect
<1>1. AppInv /\ [AppNext]_allVars => [part = "signal" => Signal!LosesByConnect]_allVars
  BY SignalStep DEF AppInv, AppNext
<1>. QED BY <1>1, AppInvariance, PTL DEF AppSpec, LostOnlyByConnect

\* sendMessage, its timers and all that ends it: a chat that is sending is freed by
\* a timer that is armed, however many calls have replaced each other's.
THEOREM SendingEnds == AppSpec => []SendIsTimed
<1>1. ChatInv => Chat!SendIsTimed
  <2> SUFFICES ASSUME ChatInv, x1.sending
               PROVE  \/ \E m \in x1.timers : m.post \/ ~x1.accepted
                      \/ ~x1.accepted /\ \E s \in Chat!Sends : x1.step[s] \in {"upload", "stuck"}
    BY DEF Chat!SendIsTimed, ChatInv
  <2>. QED BY DEF ChatInv, Timed
<1>2. AppInv => SendIsTimed
  BY <1>1 DEF AppInv, SendIsTimed
<1>. QED BY <1>2, AppInvariance, PTL

\* register, settle and the loads of the chat: a run that streams is let go of only
\* as KeepsRun says, and it streams its own message unless the chat was crossed.
THEOREM RunIsKept == AppSpec => RunKept
<1>1. AppInv /\ [AppNext]_allVars => [part = "chat" => Chat!KeepsRun]_allVars
  BY ChatStep DEF AppInv, AppNext
<1>. QED BY <1>1, AppInvariance, PTL DEF AppSpec, RunKept

\* reconcileMessages: the load after the final answer has brought the result when
\* sendMessage returns.
THEOREM ResultComes == AppSpec => ResultShown
<1>1. AppInv /\ [AppNext]_allVars => [part = "chat" => Chat!ShowsResult]_allVars
  BY ChatStep DEF AppInv, AppNext
<1>. QED BY <1>1, AppInvariance, PTL DEF AppSpec, ResultShown

\* touchstart, touchmove, touchend and the recorder's callbacks, and those of the
\* recorder of a desktop: a recording is kept or sent only as the user has last
\* asked for, and a recorder that starts or has the microphone goes out of sight
\* only as KeepsVoice and SpeaksOrDrops say, whatever comes late.
THEOREM SpeaksOrIsDropped == AppSpec => SpokenOrDropped
<1>1. AppInv /\ [AppNext]_allVars =>
        [IF part = "voice" THEN Voice!KeepsVoice ELSE part = "touch" => Touch!SpeaksOrDrops]_allVars
  BY VoiceStep, TouchStep DEF AppInv, AppNext
<1>. QED BY <1>1, AppInvariance, PTL DEF AppSpec, SpokenOrDropped

\* handlePut and its rename, the queue of the tab, deletions and restarts: a file
\* changes by a whole upload, and an upload that the tab is told is done is the
\* file, or one that came later.
THEOREM FileIsReplaced == AppSpec => FileReplaced
<1>1. AppInv /\ [AppNext]_allVars => [part = "upload" => Upload!ReplacesFile]_allVars
  BY UploadStep DEF AppInv, AppNext
<1>. QED BY <1>1, AppInvariance, PTL DEF AppSpec, FileReplaced

\* Downloads, messages in chunks, requests through the hub, the remote log and the
\* queue of the transfers: what is sent arrives whole, once and in order, for every
\* size, limit, number of tabs and number of sockets.
THEOREM AllArrivesWhole == AppSpec => []ArrivesWhole
<1>1. AppInv => ArrivesWhole
  BY DownloadKept, ChannelIsKept, RelayIsKept, LogIsInOrder DEF AppInv, ArrivesWhole
<1>. QED BY <1>1, AppInvariance, PTL
=============================================================================
