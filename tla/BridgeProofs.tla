---------------------------- MODULE BridgeProofs ----------------------------
(***************************************************************************)
(* Proofs about Bridge, for any number of bots, bridges, sockets and RPC   *)
(* methods.                                                                *)
(*                                                                         *)
(* The four action properties and OneBridge rest on one invariant, IInv.   *)
(* What it adds to them is, for the methods, that a stop() is never parted *)
(* from what comes after it, and that nothing runs in between; for the     *)
(* bridges, that a socket not yet being closed is the current one of its   *)
(* bridge; and for the bots, that one said to be gone is.                  *)
(*                                                                         *)
(* After them come the parts that keep something on disk, for any finite   *)
(* sets of calls and hooks: UpgradeInv says what is on disk at the steps   *)
(* of a worker, TopicsInv and HistoryInv that who writes a file has the    *)
(* mutex and writes what was in it and its own, and SessionsInv where a    *)
(* caller who turns pages is between the rows, or the lines, of a          *)
(* directory that changes under it.                                        *)
(***************************************************************************)
EXTENDS MCBridge, SequenceTheorems, FiniteSetTheorems, TLAPS

(***************************************************************************)
(* What is true in every reachable state                                   *)
(***************************************************************************)

\* What the RPC methods have to do: stop() has two halves, which end with the
\* singleton forgotten or replaced; a bot is given up in two steps, and a rebind
\* goes on from there to save the new one and to restart the bridge.
Late == {"stop2", "stopped", "new"}
OrderlyAt(q, n) ==
    /\ q[n] = "stop" => n + 2 <= Len(q) /\ q[n + 1] = "stop2" /\ q[n + 2] \in {"stopped", "new"}
    /\ q[n] = "stop2" => n + 1 <= Len(q) /\ q[n + 1] \in {"stopped", "new"}
    /\ q[n] \notin {"stop", "stop2"} /\ n < Len(q) => q[n + 1] \notin Late
    /\ q[n] = "drop" => /\ n + 4 <= Len(q) /\ q[n + 2] \notin Late
                        /\ n + 5 <= Len(q) => q[n + 3] \notin Late
Orderly(q) == \A n \in 1..Len(q) : OrderlyAt(q, n)

OpRec == [todo : Seq(Steps), on : Insts \cup {None}]
OpsOK ==
    /\ op \in [Ops -> OpRec]
    /\ \A o \in Ops : Orderly(op[o].todo)
    /\ \A o \in Ops : At(o, "stop2") => op[o].on \in 1..made /\ ~started[op[o].on]

\* While the methods do not overlap, one alone runs, and between the two halves
\* of its stop() no bridge is started.
OneRuns ==
    ~overlap =>
        /\ \A o, q \in Ops : ~Idle(o) /\ ~Idle(q) => o = q
        /\ \A i \in Insts : started[i] => singleton = i
        /\ \A o \in Ops : ~Idle(o) /\ Head(op[o].todo) \in Late => \A i \in Insts : ~started[i]

\* What an instance keeps of its sockets: a socket that is not being closed is
\* its current one; timers are for its own sockets; closing is intended by
\* stop() alone.
InstOK(i) ==
    /\ started[i] \/ phase[i] # "new" \/ intentional[i] \/ ws[i] # None => i <= made
    /\ ws[i] # None => /\ sock[ws[i]] # None /\ sock[ws[i]].inst = i
                       /\ phase[i] # "read" /\ ~intentional[i]
    /\ hb[i] # None => sock[hb[i]] # None /\ sock[hb[i]].inst = i
    /\ intentional[i] => ~started[i]
InstsOK == \A i \in Insts : InstOK(i)

Gone(b) == b \in 1..created /\ b \notin alive
SockOK(s) ==
    sock[s] # None =>
        /\ sock[s].inst <= made /\ sock[s].bot <= created
        /\ sock[s].state \in {"connecting", "open"} => ws[sock[s].inst] = s
        /\ sock[s].code = "auth" => Gone(sock[s].bot)
SocksOK == \A s \in Socks : SockOK(s)

\* A bot that is said to be gone is.
TailsOK == \A t \in tails : /\ t.inst <= made /\ (t.intentional => ~started[t.inst])
                            /\ t.code = "auth" => Gone(t.bot)
ClearingOK ==
    \A t \in clearing : /\ Gone(t.bot)
                        /\ t.closes # None => sock[t.closes] # None /\ Gone(sock[t.closes].bot)
ConfigOK == config # None => config <= created

IInv ==
    /\ TypeOK /\ OpsOK /\ OneRuns /\ InstsOK /\ SocksOK /\ TailsOK /\ ClearingOK /\ ConfigOK

\* What two pieces of a method make.
LEMMA Joined ==
  ASSUME NEW a \in Seq(Steps), NEW b \in Seq(Steps)
  PROVE  /\ a \o b \in Seq(Steps) /\ Len(a \o b) = Len(a) + Len(b)
         /\ \A i \in 1..(Len(a) + Len(b)) : (a \o b)[i] = IF i <= Len(a) THEN a[i] ELSE b[i - Len(a)]
  BY ConcatProperties

\* Each RPC method does its steps in order, and begins with none that belongs to
\* the middle of a stop().
LEMMA Methods ==
  ASSUME NEW m \in DOMAIN Method
  PROVE  /\ Method[m] \in Seq(Steps) /\ Method[m] # <<>> /\ Orderly(Method[m])
         /\ Head(Method[m]) \notin Late
<1> DEFINE q == Method[m]
<1>1. m \in {"stopBridge", "refreshBridge", "bind", "unbind", "enroll"}
  BY DEF Method
<1>2. ASSUME m = "stopBridge" PROVE q \in Seq(Steps) /\ q # <<>> /\ Orderly(q) /\ Head(q) \notin Late
  <2>1. q = <<"stop", "stop2", "stopped">>
    BY <1>2 DEF Method, Stop
  <2>2. /\ Len(q) = 3 /\ q \in Seq(Steps) /\ Head(q) = q[1] /\ q # <<>>
        /\ q[1] = "stop" /\ q[2] = "stop2" /\ q[3] = "stopped"
    BY <2>1 DEF Steps
  <2> HIDE DEF q
  <2>3. \A n \in 1..Len(q) : n = 1 \/ n = 2 \/ n = 3
    BY <2>2
  <2>4. ASSUME NEW n \in 1..Len(q) PROVE OrderlyAt(q, n)
    BY <2>2, <2>3 DEF OrderlyAt, Late
  <2>. QED BY <2>2, <2>4 DEF Orderly, Late
<1>3. ASSUME m = "refreshBridge" PROVE q \in Seq(Steps) /\ q # <<>> /\ Orderly(q) /\ Head(q) \notin Late
  <2>1. q = <<"stop", "stop2", "new">>
    BY <1>3 DEF Method, Restart
  <2>2. /\ Len(q) = 3 /\ q \in Seq(Steps) /\ Head(q) = q[1] /\ q # <<>>
        /\ q[1] = "stop" /\ q[2] = "stop2" /\ q[3] = "new"
    BY <2>1 DEF Steps
  <2> HIDE DEF q
  <2>3. \A n \in 1..Len(q) : n = 1 \/ n = 2 \/ n = 3
    BY <2>2
  <2>4. ASSUME NEW n \in 1..Len(q) PROVE OrderlyAt(q, n)
    BY <2>2, <2>3 DEF OrderlyAt, Late
  <2>. QED BY <2>2, <2>4 DEF Orderly, Late
<1>4. ASSUME m = "bind" PROVE q \in Seq(Steps) /\ q # <<>> /\ Orderly(q) /\ Head(q) \notin Late
  <2> DEFINE a == <<"drop", "clear", "save">>
             b == Stop \o a
  <2>1. q = b \o Restart
    BY <1>4 DEF Method
  <2>2. a \in Seq(Steps) /\ Len(a) = 3 /\ a[1] = "drop" /\ a[2] = "clear" /\ a[3] = "save"
    BY DEF Steps
  <2>3. Stop \in Seq(Steps) /\ Len(Stop) = 3 /\ Stop[1] = "stop" /\ Stop[2] = "stop2" /\ Stop[3] = "stopped"
    BY DEF Stop, Steps
  <2>4. Restart \in Seq(Steps) /\ Len(Restart) = 3 /\ Restart[1] = "stop" /\ Restart[2] = "stop2" /\ Restart[3] = "new"
    BY DEF Restart, Steps
  <2> HIDE DEF a
  <2>5. /\ b \in Seq(Steps) /\ Len(b) = 6 /\ b[1] = "stop" /\ b[2] = "stop2" /\ b[3] = "stopped"
        /\ b[4] = "drop" /\ b[5] = "clear" /\ b[6] = "save"
    <3>1. /\ b \in Seq(Steps) /\ Len(b) = Len(Stop) + Len(a)
          /\ \A i \in 1..(Len(Stop) + Len(a)) :
               b[i] = IF i <= Len(Stop) THEN Stop[i] ELSE a[i - Len(Stop)]
      BY <2>2, <2>3, Joined
    <3>. QED BY <2>2, <2>3, <3>1
  <2> HIDE DEF b, q
  <2>6. /\ Len(q) = 9 /\ q \in Seq(Steps) /\ Head(q) = q[1] /\ q # <<>>
        /\ q[1] = "stop" /\ q[2] = "stop2" /\ q[3] = "stopped" /\ q[4] = "drop" /\ q[5] = "clear"
        /\ q[6] = "save" /\ q[7] = "stop" /\ q[8] = "stop2" /\ q[9] = "new"
    <3>1. /\ q \in Seq(Steps) /\ Len(q) = Len(b) + Len(Restart)
          /\ \A i \in 1..(Len(b) + Len(Restart)) :
               q[i] = IF i <= Len(b) THEN b[i] ELSE Restart[i - Len(b)]
      BY <2>1, <2>4, <2>5, Joined
    <3>. QED BY <2>4, <2>5, <3>1
  <2>7. \A n \in 1..Len(q) : n = 1 \/ n = 2 \/ n = 3 \/ n = 4 \/ n = 5 \/ n = 6 \/ n = 7 \/ n = 8 \/ n = 9
    BY <2>6
  <2>8. ASSUME NEW n \in 1..Len(q) PROVE OrderlyAt(q, n)
    BY <2>6, <2>7 DEF OrderlyAt, Late
  <2>. QED BY <2>6, <2>8 DEF Orderly, Late
<1>5. ASSUME m = "unbind" PROVE q \in Seq(Steps) /\ q # <<>> /\ Orderly(q) /\ Head(q) \notin Late
  <2> DEFINE a == <<"drop", "clear">>
  <2>1. q = a \o Stop
    BY <1>5 DEF Method, Unbind
  <2>2. a \in Seq(Steps) /\ Len(a) = 2 /\ a[1] = "drop" /\ a[2] = "clear"
    BY DEF Steps
  <2>3. Stop \in Seq(Steps) /\ Len(Stop) = 3 /\ Stop[1] = "stop" /\ Stop[2] = "stop2" /\ Stop[3] = "stopped"
    BY DEF Stop, Steps
  <2> HIDE DEF a, q
  <2>4. /\ Len(q) = 5 /\ q \in Seq(Steps) /\ Head(q) = q[1] /\ q # <<>>
        /\ q[1] = "drop" /\ q[2] = "clear" /\ q[3] = "stop" /\ q[4] = "stop2" /\ q[5] = "stopped"
    <3>1. /\ q \in Seq(Steps) /\ Len(q) = Len(a) + Len(Stop)
          /\ \A i \in 1..(Len(a) + Len(Stop)) :
               q[i] = IF i <= Len(a) THEN a[i] ELSE Stop[i - Len(a)]
      BY <2>1, <2>2, <2>3, Joined
    <3>. QED BY <2>2, <2>3, <3>1
  <2>5. \A n \in 1..Len(q) : n = 1 \/ n = 2 \/ n = 3 \/ n = 4 \/ n = 5
    BY <2>4
  <2>6. ASSUME NEW n \in 1..Len(q) PROVE OrderlyAt(q, n)
    BY <2>4, <2>5 DEF OrderlyAt, Late
  <2>. QED BY <2>4, <2>6 DEF Orderly, Late
<1>6. ASSUME m = "enroll" PROVE q \in Seq(Steps) /\ q # <<>> /\ Orderly(q) /\ Head(q) \notin Late
  <2> DEFINE a == <<"save">>
  <2>1. q = a \o Restart
    BY <1>6 DEF Method
  <2>2. a \in Seq(Steps) /\ Len(a) = 1 /\ a[1] = "save"
    BY DEF Steps
  <2>3. Restart \in Seq(Steps) /\ Len(Restart) = 3 /\ Restart[1] = "stop" /\ Restart[2] = "stop2" /\ Restart[3] = "new"
    BY DEF Restart, Steps
  <2> HIDE DEF a, q
  <2>4. /\ Len(q) = 4 /\ q \in Seq(Steps) /\ Head(q) = q[1] /\ q # <<>>
        /\ q[1] = "save" /\ q[2] = "stop" /\ q[3] = "stop2" /\ q[4] = "new"
    <3>1. /\ q \in Seq(Steps) /\ Len(q) = Len(a) + Len(Restart)
          /\ \A i \in 1..(Len(a) + Len(Restart)) :
               q[i] = IF i <= Len(a) THEN a[i] ELSE Restart[i - Len(a)]
      BY <2>1, <2>2, <2>3, Joined
    <3>. QED BY <2>2, <2>3, <3>1
  <2>5. \A n \in 1..Len(q) : n = 1 \/ n = 2 \/ n = 3 \/ n = 4
    BY <2>4
  <2>6. ASSUME NEW n \in 1..Len(q) PROVE OrderlyAt(q, n)
    BY <2>4, <2>5 DEF OrderlyAt, Late
  <2>. QED BY <2>4, <2>6 DEF Orderly, Late
<1>. QED BY <1>1, <1>2, <1>3, <1>4, <1>5, <1>6

\* What is left of an orderly method is orderly.
LEMMA Rest ==
  ASSUME NEW q \in Seq(Steps), Orderly(q), NEW n \in 1..Len(q)
  PROVE  LET r == SubSeq(q, n + 1, Len(q)) IN
         /\ r \in Seq(Steps) /\ Len(r) = Len(q) - n /\ Orderly(r)
         /\ \A j \in 1..Len(r) : r[j] = q[n + j]
         /\ r # <<>> => n < Len(q) /\ Head(r) = q[n + 1]
<1> DEFINE r == SubSeq(q, n + 1, Len(q))
<1>1. Len(q) \in Nat /\ n \in Nat /\ n <= Len(q) /\ n >= 1
  OBVIOUS
<1>2. r \in Seq(Steps) /\ Len(r) = Len(q) - n /\ \A j \in 1..(Len(q) - n) : r[j] = q[n + j]
  <2>1. \A i \in (n + 1)..Len(q) : q[i] \in Steps
    BY <1>1
  <2>2. /\ r \in Seq(Steps) /\ Len(r) = IF n + 1 <= Len(q) THEN Len(q) - (n + 1) + 1 ELSE 0
        /\ \A j \in 1..(Len(q) - (n + 1) + 1) : r[j] = q[(n + 1) + j - 1]
    BY <1>1, <2>1, SubSeqProperties
  <2> HIDE DEF r
  <2>. QED BY <1>1, <2>2
<1> HIDE DEF r
<1>3. r # <<>> => n < Len(q) /\ Head(r) = q[n + 1]
  BY <1>1, <1>2
<1>4. Orderly(r)
  <2> SUFFICES ASSUME NEW j \in 1..Len(r) PROVE OrderlyAt(r, j)
    BY DEF Orderly
  <2>1. n + j \in 1..Len(q) /\ OrderlyAt(q, n + j) /\ j \in Nat
    BY <1>1, <1>2 DEF Orderly
  <2>2. /\ r[j] = q[n + j]
        /\ j + 1 <= Len(r) => r[j + 1] = q[(n + j) + 1]
        /\ j + 2 <= Len(r) => r[j + 2] = q[(n + j) + 2]
        /\ j + 3 <= Len(r) => r[j + 3] = q[(n + j) + 3]
    BY <1>1, <1>2, <2>1
  <2>. QED BY <1>1, <1>2, <2>1, <2>2 DEF OrderlyAt
<1>. QED BY <1>2, <1>3, <1>4 DEF r

-----------------------------------------------------------------------------
(* The start, and what steps have in common *)

\* A plugin that has just been started.
LEMMA InitHolds == Init => IInv
<1> SUFFICES ASSUME Init PROVE IInv
  OBVIOUS
<1>1. /\ MaxInst \in Nat /\ MaxBots \in Nat /\ MaxInst >= 1 /\ MaxBots >= 1 /\ MaxTrouble \in Nat
      /\ 1 \in Insts /\ 1 \in Bots /\ 0 \in 0..MaxBots /\ 1 \in 0..MaxBots /\ 1 \in 0..MaxInst
      /\ 0 \in 0..MaxTrouble
  BY BridgeAssumption DEF Insts, Bots
<1>2. \A o \in Ops : op[o].todo = <<>> /\ op[o].todo \in Seq(Steps) /\ op[o].on = None
  <2>1. \A o \in Ops : op[o] = [todo |-> <<>>, on |-> None]
    BY DEF Init
  <2>2. \A o \in Ops : op[o].todo = <<>> /\ op[o].on = None
    BY <2>1
  <2>3. <<>> \in Seq(Steps)
    OBVIOUS
  <2>. QED BY <2>2, <2>3, Zenon
<1>3. OpsOK
  <2>1. op \in [Ops -> OpRec]
    BY <1>2 DEF Init, OpRec
  <2>2. \A o \in Ops : Orderly(op[o].todo)
    BY <1>2 DEF Orderly
  <2>. QED BY <1>2, <2>1, <2>2 DEF OpsOK, At, Idle
<1>4. OneRuns
  BY <1>2 DEF Init, OneRuns, Idle
<1>5. InstsOK
  <2> SUFFICES ASSUME NEW i \in Insts PROVE InstOK(i)
    BY DEF InstsOK
  <2>1. /\ ws[i] = None /\ hb[i] = None /\ intentional[i] = FALSE /\ made = 1
        /\ i # 1 => ~started[i] /\ phase[i] = "new"
    BY DEF Init
  <2>2. i = 1 => i <= made
    BY <2>1
  <2>. QED BY <2>1, <2>2 DEF InstOK
<1>6. SocksOK /\ TailsOK /\ ClearingOK /\ ConfigOK
  BY <1>1, BridgeAssumption DEF Init, SocksOK, SockOK, TailsOK, ClearingOK, ConfigOK
<1>7. TypeOK
  <2>1. (config \in Bots \cup {None}) /\ created \in 0..MaxBots /\ alive \subseteq 1..created
    BY <1>1 DEF Init
  <2>2. singleton \in 1..made \cup {None} /\ made \in 0..MaxInst
    BY <1>1 DEF Init
  <2>3. rpcs \in 0..Len(Rpcs) /\ fails \in 0..MaxTrouble
    <3>1. Len(Rpcs) \in Nat
      BY BridgeAssumption
    <3>. QED BY <1>1, <3>1 DEF Init
  <2>. QED BY <1>2, <2>1, <2>2, <2>3 DEF Init, TypeOK
<1>. QED BY <1>3, <1>4, <1>5, <1>6, <1>7 DEF IInv

\* The methods are left alone.
LEMMA MethodsKeep ==
  ASSUME IInv, UNCHANGED <<op, made, started, singleton, rpcs, overlap>>
  PROVE  OpsOK' /\ OneRuns'
  BY DEF IInv, OpsOK, OneRuns, At, Idle

\* Instances are numbered as they are made.
LEMMA MadeAreInsts ==
  ASSUME TypeOK PROVE made \in Nat /\ made <= MaxInst /\ MaxInst \in Nat /\ 1..made \subseteq Insts
  BY BridgeAssumption DEF TypeOK, Insts

\* A socket changes.
LEMMA SockChanges ==
  ASSUME TypeOK, NEW s \in Socks, NEW new \in Sock, sock' = [sock EXCEPT ![s] = new]
  PROVE  /\ sock' \in [Socks -> Sock \cup {None}] /\ sock'[s] = new /\ sock'[s] # None
         /\ \A r \in Socks \ {s} : sock'[r] = sock[r]
  BY NoneAssumption DEF TypeOK

\* A socket is closed from this side.
LEMMA ClosesLocally ==
  ASSUME TypeOK, NEW s \in Socks, sock[s] # None, NEW code \in Codes, sock' = CloseLocally(s, code)
  PROVE  /\ sock' \in [Socks -> Sock \cup {None}] /\ sock'[s] # None
         /\ sock'[s].state = "closing" /\ sock'[s].code = code
         /\ sock'[s].inst = sock[s].inst /\ sock'[s].bot = sock[s].bot
         /\ \A r \in Socks \ {s} : sock'[r] = sock[r]
<1> DEFINE new == [sock[s] EXCEPT !.state = "closing", !.code = code]
<1>1. sock[s] \in Sock
  BY DEF TypeOK
<1>2. /\ new \in Sock /\ new.state = "closing" /\ new.code = code
      /\ new.inst = sock[s].inst /\ new.bot = sock[s].bot
  BY <1>1 DEF Sock
<1>3. sock' = [sock EXCEPT ![s] = new]
  BY DEF CloseLocally, TypeOK
<1> HIDE DEF new
<1>. QED BY <1>2, <1>3, SockChanges

-----------------------------------------------------------------------------
(* Connecting *)

\* The phase and the reconnect timer alone change; no config is awaited that
\* the bridge has not asked for.
LEMMA PhaseKeeps ==
  ASSUME IInv, NEW i \in Insts, NEW p \in {"new", "preload", "read", "ready"},
         phase' = [phase EXCEPT ![i] = p], p = "read" => ws[i] = None, p # "new" => i <= made,
         reconnectTimer' \in [Insts -> BOOLEAN],
         fails' \in 0..MaxTrouble,
         UNCHANGED <<env, singleton, made, started, ws, connectTimer, hb, intentional,
                     tails, sock, clearing, op, rpcs, overlap>>
  PROVE  IInv'
<1>1. OpsOK' /\ OneRuns'
  BY MethodsKeep
<1>2. TypeOK'
  BY <1>1 DEF IInv, TypeOK, env, OpsOK, OpRec
<1>3. InstsOK'
  BY DEF IInv, TypeOK, InstsOK, InstOK
<1>4. SocksOK' /\ TailsOK' /\ ClearingOK' /\ ConfigOK'
  BY DEF IInv, SocksOK, SockOK, TailsOK, ClearingOK, ConfigOK, Gone, env
<1>. QED BY <1>1, <1>2, <1>3, <1>4 DEF IInv

\* The WebRTC implementation is there.
LEMMA PreloadedKeeps == ASSUME IInv, NEW i \in Insts, Preloaded(i) PROVE IInv'
  BY PhaseKeeps DEF Preloaded, MayConnect, timers, history, IInv, TypeOK, InstsOK, InstOK

\* The reconnect timer fires.
LEMMA ReconnectKeeps == ASSUME IInv, NEW i \in Insts, Reconnect(i) PROVE IInv'
<1> DEFINE p == IF MayConnect(i) THEN "read" ELSE phase[i]
<1>1. /\ p \in {"new", "preload", "read", "ready"} /\ phase' = [phase EXCEPT ![i] = p]
      /\ reconnectTimer' \in [Insts -> BOOLEAN]
  BY DEF Reconnect, IInv, TypeOK
<1>2. (p = "read" => ws[i] = None) /\ (p # "new" => i <= made)
  BY DEF Reconnect, MayConnect, IInv, InstsOK, InstOK
<1> HIDE DEF p
<1>3. fails' \in 0..MaxTrouble /\ UNCHANGED <<rpcs, overlap>>
  BY DEF Reconnect, history, IInv, TypeOK
<1>. QED BY <1>1, <1>2, <1>3, PhaseKeeps DEF Reconnect

\* There is no token.
LEMMA SkipConnectKeeps == ASSUME IInv, NEW i \in Insts, SkipConnect(i) PROVE IInv'
  BY PhaseKeeps DEF SkipConnect, timers, history, IInv, TypeOK, InstsOK, InstOK

\* The config cannot be read.
LEMMA ReadFailsKeeps == ASSUME IInv, NEW i \in Insts, ReadFails(i) PROVE IInv'
<1>1. fails' \in 0..MaxTrouble
  BY BridgeAssumption DEF ReadFails, Trouble, IInv, TypeOK
<1>. QED BY <1>1, PhaseKeeps DEF ReadFails, timers, IInv, TypeOK, InstsOK, InstOK

\* A bridge connects, with the token it has read.
LEMMA ConnectKeeps == ASSUME IInv, NEW i \in Insts, NEW s \in Socks, Connect(i, s) PROVE IInv'
<1> DEFINE new == [state |-> "connecting", inst |-> i, bot |-> config, code |-> "other"]
<1>1. /\ phase[i] = "read" /\ config # None /\ sock[s] = None
      /\ sock' = [sock EXCEPT ![s] = new]
      /\ UNCHANGED <<config, created, alive, singleton, made, started, reconnectTimer, hb,
                     tails, clearing, op, rpcs, fails, overlap>>
  BY DEF Connect, HasToken, env, history
<1>2. /\ phase' = [phase EXCEPT ![i] = "ready"] /\ ws' = [ws EXCEPT ![i] = s]
      /\ intentional' = [intentional EXCEPT ![i] = FALSE]
      /\ connectTimer' = [connectTimer EXCEPT ![i] = s]
  BY DEF Connect
<1>3. /\ new \in Sock /\ new.state = "connecting" /\ new.inst = i /\ new.bot = config
      /\ new.code = "other"
  BY <1>1 DEF Sock, Codes, IInv, TypeOK
<1> HIDE DEF new
<1>4. /\ sock' \in [Socks -> Sock \cup {None}] /\ sock'[s] = new /\ sock'[s] # None
      /\ \A r \in Socks \ {s} : sock'[r] = sock[r]
  BY <1>1, <1>3, SockChanges DEF IInv
<1>5. OpsOK' /\ OneRuns'
  BY <1>1, MethodsKeep
<1>6. TypeOK'
  BY <1>1, <1>2, <1>4, <1>5 DEF IInv, TypeOK, OpsOK, OpRec
<1>7. i <= made /\ ws[i] = None /\ s # None /\ config <= created
  BY <1>1, BridgeAssumption DEF IInv, InstsOK, InstOK, ConfigOK
<1>8. InstsOK'
  <2>1. ASSUME NEW j \in Insts PROVE InstOK(j)'
    <3>1. CASE j = i
      BY <1>1, <1>2, <1>3, <1>4, <1>7, <3>1 DEF IInv, TypeOK, InstsOK, InstOK
    <3>2. CASE j # i
      BY <1>1, <1>2, <1>3, <1>4, <1>7, <3>2 DEF IInv, TypeOK, InstsOK, InstOK
    <3>. QED BY <3>1, <3>2
  <2>. QED BY <2>1 DEF InstsOK
<1>9. SocksOK'
  <2>1. ASSUME NEW r \in Socks PROVE SockOK(r)'
    <3>1. CASE r = s
      BY <1>1, <1>2, <1>3, <1>4, <1>7, <3>1 DEF IInv, TypeOK, SockOK
    <3>2. CASE r # s
      <4>1. sock'[r] = sock[r] /\ SockOK(r)
        BY <1>4, <3>2 DEF IInv, SocksOK
      <4>2. r # None /\ (sock[r] # None => sock[r].inst \in Insts)
        BY BridgeAssumption DEF IInv, TypeOK, Sock
      <4>3. sock[r] # None /\ sock[r].state \in {"connecting", "open"} => sock[r].inst # i
        BY <1>7, <4>1, <4>2 DEF SockOK
      <4>4. ws'[sock[r].inst] = ws[sock[r].inst] \/ sock[r] = None \/ sock[r].inst = i
        BY <1>2, <4>2 DEF IInv, TypeOK
      <4>. QED BY <1>1, <4>1, <4>3, <4>4 DEF SockOK, Gone
    <3>. QED BY <3>1, <3>2
  <2>. QED BY <2>1 DEF SocksOK
<1>10. TailsOK' /\ ConfigOK'
  BY <1>1 DEF IInv, TailsOK, ConfigOK, Gone
<1>11. ClearingOK'
  BY <1>1, <1>4 DEF IInv, TypeOK, ClearingOK, Clear, Gone
<1>. QED BY <1>5, <1>6, <1>8, <1>9, <1>10, <1>11 DEF IInv

\* The sockets and the timers alone change: no socket is made or gone, and one
\* that is forgotten is closed.
LEMMA SocketsKeep ==
  ASSUME IInv,
         UNCHANGED <<env, singleton, made, started, phase, intentional, tails, clearing, op, rpcs, overlap>>,
         fails' \in 0..MaxTrouble, sock' \in [Socks -> Sock \cup {None}],
         ws' \in [Insts -> Socks \cup {None}], reconnectTimer' \in [Insts -> BOOLEAN],
         connectTimer' \in [Insts -> Socks \cup {None}], hb' \in [Insts -> Socks \cup {None}],
         \A s \in Socks : sock[s] = None => sock'[s] = None,
         \A s \in Socks : sock[s] # None =>
           /\ sock'[s] # None /\ sock'[s].inst = sock[s].inst /\ sock'[s].bot = sock[s].bot
           /\ sock'[s].code = "auth" => sock[s].code = "auth"
           /\ sock'[s].state \in {"connecting", "open"} =>
                sock[s].state \in {"connecting", "open"} /\ ws'[sock[s].inst] = ws[sock[s].inst],
         \A i \in Insts : ws'[i] \in {ws[i], None},
         \A i \in Insts : hb'[i] # None => sock[hb'[i]] # None /\ sock[hb'[i]].inst = i
  PROVE  IInv'
<1>1. OpsOK' /\ OneRuns'
  BY MethodsKeep
<1>2. TypeOK'
  BY <1>1 DEF IInv, TypeOK, env, OpsOK, OpRec
<1>3. InstsOK'
  <2> SUFFICES ASSUME NEW i \in Insts PROVE InstOK(i)'
    BY DEF InstsOK
  <2>1. InstOK(i) /\ ws'[i] \in {ws[i], None} /\ ws[i] \in Socks \cup {None}
        /\ hb'[i] \in Socks \cup {None}
    BY DEF IInv, TypeOK, InstsOK
  <2>2. ws'[i] # None => sock'[ws'[i]] # None /\ sock'[ws'[i]].inst = i
    BY <2>1 DEF InstOK
  <2>3. hb'[i] # None => sock'[hb'[i]] # None /\ sock'[hb'[i]].inst = i
    BY <2>1
  <2>. QED BY <2>1, <2>2, <2>3 DEF InstOK
<1>4. SocksOK'
  <2> SUFFICES ASSUME NEW s \in Socks PROVE SockOK(s)'
    BY DEF SocksOK
  <2>1. SockOK(s)
    BY DEF IInv, SocksOK
  <2>. QED BY <2>1 DEF SockOK, Gone, env
<1>5. TailsOK' /\ ConfigOK'
  BY DEF IInv, TailsOK, ConfigOK, Gone, env
<1>6. ClearingOK'
  <2> SUFFICES ASSUME NEW t \in clearing
               PROVE  Gone(t.bot) /\ (t.closes # None => sock'[t.closes] # None /\ Gone(sock'[t.closes].bot))
    BY DEF ClearingOK, Gone, env
  <2>1. t.closes \in Socks \cup {None}
    BY DEF IInv, TypeOK, Clear
  <2>. QED BY <2>1 DEF IInv, ClearingOK
<1>. QED BY <1>1, <1>2, <1>3, <1>4, <1>5, <1>6 DEF IInv

\* A socket opens.
LEMMA OpenedKeeps == ASSUME IInv, NEW s \in Socks, Opened(s) PROVE IInv'
<1> DEFINE new == [sock[s] EXCEPT !.state = "open"]
           i == sock[s].inst
<1>1. /\ sock[s] # None /\ sock[s] \in Sock /\ sock[s].state = "connecting" /\ i \in Insts
      /\ sock' = [sock EXCEPT ![s] = new] /\ connectTimer' = [connectTimer EXCEPT ![i] = None]
      /\ hb' = [hb EXCEPT ![i] = s]
      /\ UNCHANGED <<env, singleton, made, started, phase, ws, reconnectTimer, intentional, tails,
                     clearing, op, rpcs, fails, overlap>>
  BY DEF Opened, Is, Watch, history, IInv, TypeOK, Sock
<1>2. /\ new \in Sock /\ new.state = "open" /\ new.inst = i /\ new.bot = sock[s].bot
      /\ new.code = sock[s].code
  BY <1>1 DEF Sock
<1> HIDE DEF new
<1>3. /\ sock' \in [Socks -> Sock \cup {None}] /\ sock'[s] = new /\ sock'[s] # None
      /\ \A r \in Socks \ {s} : sock'[r] = sock[r]
  BY <1>1, <1>2, SockChanges DEF IInv
<1>4. /\ fails' \in 0..MaxTrouble /\ ws' \in [Insts -> Socks \cup {None}]
      /\ reconnectTimer' \in [Insts -> BOOLEAN]
      /\ connectTimer' \in [Insts -> Socks \cup {None}] /\ hb' \in [Insts -> Socks \cup {None}]
  BY <1>1 DEF IInv, TypeOK
<1>5. \A j \in Insts : hb'[j] # None => sock[hb'[j]] # None /\ sock[hb'[j]].inst = j
  BY <1>1 DEF IInv, TypeOK, InstsOK, InstOK
<1>6. \A r \in Socks : sock[r] # None =>
        /\ sock'[r] # None /\ sock'[r].inst = sock[r].inst /\ sock'[r].bot = sock[r].bot
        /\ sock'[r].code = "auth" => sock[r].code = "auth"
        /\ sock'[r].state \in {"connecting", "open"} => sock[r].state \in {"connecting", "open"}
  BY <1>1, <1>2, <1>3
<1>. QED BY <1>1, <1>3, <1>4, <1>5, <1>6, SocketsKeep

\* A message watches the socket it came on.
LEMMA Watches ==
  ASSUME IInv, NEW s \in Socks, sock[s] # None, Watch(s)
  PROVE  /\ hb' \in [Insts -> Socks \cup {None}]
         /\ \A j \in Insts : hb'[j] # None => sock[hb'[j]] # None /\ sock[hb'[j]].inst = j
<1>1. sock[s].inst \in Insts
  BY DEF IInv, TypeOK, Sock
<1>. QED BY <1>1 DEF Watch, IInv, TypeOK, InstsOK, InstOK

\* A message comes.
LEMMA MessageKeeps == ASSUME IInv, NEW s \in Socks, Message(s) PROVE IInv'
<1>1. /\ sock[s] # None /\ Watch(s)
      /\ UNCHANGED <<env, singleton, made, started, phase, ws, reconnectTimer, connectTimer,
                     intentional, tails, sock, clearing, op, rpcs, fails, overlap>>
  BY DEF Message, Is, history
<1>2. /\ fails' \in 0..MaxTrouble /\ ws' \in [Insts -> Socks \cup {None}]
      /\ reconnectTimer' \in [Insts -> BOOLEAN] /\ sock' \in [Socks -> Sock \cup {None}]
      /\ connectTimer' \in [Insts -> Socks \cup {None}]
  BY <1>1 DEF IInv, TypeOK
<1>. QED BY <1>1, <1>2, Watches, SocketsKeep

\* Trouble is bounded.
LEMMA TroubleCounted == ASSUME IInv, Trouble PROVE fails' \in 0..MaxTrouble
<1>1. fails \in Nat /\ rpcs \in Nat /\ MaxTrouble \in Nat
  BY BridgeAssumption DEF IInv, TypeOK
<1>. QED BY <1>1 DEF Trouble

\* The server has been silent for too long.
LEMMA HeartbeatLostKeeps == ASSUME IInv, NEW i \in Insts, HeartbeatLost(i) PROVE IInv'
<1> DEFINE s == hb[i]
<1>1. /\ s # None /\ s \in Socks /\ sock[s] # None /\ sock' = CloseLocally(s, "other")
      /\ hb' = [hb EXCEPT ![i] = None]
      /\ UNCHANGED <<env, singleton, made, started, phase, ws, reconnectTimer, connectTimer,
                     intentional, tails, clearing, op, rpcs, overlap>>
  BY DEF HeartbeatLost, Is, IInv, TypeOK
<1> HIDE DEF s
<1>2. /\ sock' \in [Socks -> Sock \cup {None}] /\ sock'[s] # None
      /\ sock'[s].state = "closing" /\ sock'[s].code = "other"
      /\ sock'[s].inst = sock[s].inst /\ sock'[s].bot = sock[s].bot
      /\ \A r \in Socks \ {s} : sock'[r] = sock[r]
  BY <1>1, ClosesLocally DEF Codes, IInv
<1>3. /\ fails' \in 0..MaxTrouble /\ ws' \in [Insts -> Socks \cup {None}]
      /\ reconnectTimer' \in [Insts -> BOOLEAN]
      /\ connectTimer' \in [Insts -> Socks \cup {None}] /\ hb' \in [Insts -> Socks \cup {None}]
  BY <1>1, TroubleCounted DEF HeartbeatLost, IInv, TypeOK
<1>4. \A j \in Insts : hb'[j] # None => sock[hb'[j]] # None /\ sock[hb'[j]].inst = j
  BY <1>1 DEF IInv, TypeOK, InstsOK, InstOK
<1>5. \A r \in Socks : sock[r] # None =>
        /\ sock'[r] # None /\ sock'[r].inst = sock[r].inst /\ sock'[r].bot = sock[r].bot
        /\ sock'[r].code = "auth" => sock[r].code = "auth"
        /\ sock'[r].state \in {"connecting", "open"} => sock[r].state \in {"connecting", "open"}
  BY <1>1, <1>2
<1>6. \A r \in Socks : sock[r] = None => sock'[r] = None
  BY <1>1, <1>2
<1>. QED BY <1>1, <1>2, <1>3, <1>4, <1>5, <1>6, SocketsKeep

\* A bridge forgets its socket and closes it.
LEMMA ForgetKeeps ==
  ASSUME IInv, NEW i \in Insts, NEW s \in Socks, ws[i] = s,
         ws' = [ws EXCEPT ![i] = None], ScheduleReconnect(i),
         connectTimer' = [connectTimer EXCEPT ![i] = None], hb' \in {hb, [hb EXCEPT ![i] = None]},
         sock' = IF ~Is(s, {"closing"}) THEN CloseLocally(s, "other") ELSE sock,
         Trouble,
         UNCHANGED <<env, singleton, made, started, phase, intentional, tails, clearing, op, rpcs, overlap>>
  PROVE  IInv'
<1>1. sock[s] # None /\ sock[s].inst = i /\ s # None
  BY BridgeAssumption DEF IInv, InstsOK, InstOK
<1>2. /\ sock' \in [Socks -> Sock \cup {None}] /\ sock'[s] # None
      /\ sock'[s].state = "closing" /\ (sock'[s].code = "auth" => sock[s].code = "auth")
      /\ sock'[s].inst = sock[s].inst /\ sock'[s].bot = sock[s].bot
      /\ \A r \in Socks \ {s} : sock'[r] = sock[r]
  <2>1. CASE Is(s, {"closing"})
    BY <1>1, <2>1 DEF Is, IInv, TypeOK
  <2>2. CASE ~Is(s, {"closing"})
    BY <1>1, <2>2, ClosesLocally DEF Codes, IInv
  <2>. QED BY <2>1, <2>2
<1>3. /\ fails' \in 0..MaxTrouble /\ ws' \in [Insts -> Socks \cup {None}]
      /\ reconnectTimer' \in [Insts -> BOOLEAN]
      /\ connectTimer' \in [Insts -> Socks \cup {None}] /\ hb' \in [Insts -> Socks \cup {None}]
  BY TroubleCounted DEF IInv, TypeOK, ScheduleReconnect
<1>4. \A j \in Insts : hb'[j] # None => sock[hb'[j]] # None /\ sock[hb'[j]].inst = j
  BY DEF IInv, TypeOK, InstsOK, InstOK
<1>5. ASSUME NEW r \in Socks, sock[r] # None
      PROVE  /\ sock'[r] # None /\ sock'[r].inst = sock[r].inst /\ sock'[r].bot = sock[r].bot
             /\ sock'[r].code = "auth" => sock[r].code = "auth"
             /\ sock'[r].state \in {"connecting", "open"} =>
                  sock[r].state \in {"connecting", "open"} /\ ws'[sock[r].inst] = ws[sock[r].inst]
  <2>1. CASE r = s
    BY <1>1, <1>2, <2>1
  <2>2. CASE r # s
    <3>1. sock'[r] = sock[r] /\ SockOK(r) /\ sock[r].inst \in Insts
      BY <1>2, <1>5, <2>2 DEF IInv, TypeOK, SocksOK, Sock
    <3>2. sock[r].state \in {"connecting", "open"} => sock[r].inst # i
      BY <1>5, <2>2, <3>1 DEF SockOK
    <3>3. sock[r].inst # i => ws'[sock[r].inst] = ws[sock[r].inst]
      BY <3>1 DEF IInv, TypeOK
    <3>. QED BY <1>5, <3>1, <3>2, <3>3
  <2>. QED BY <2>1, <2>2
<1>6. \A r \in Socks : sock[r] = None => sock'[r] = None
  BY <1>1, <1>2
<1>7. \A j \in Insts : ws'[j] \in {ws[j], None}
  BY DEF IInv, TypeOK
<1>. QED BY <1>2, <1>3, <1>4, <1>5, <1>6, <1>7, SocketsKeep

\* The connect timer fires.
LEMMA ConnectTimeoutKeeps == ASSUME IInv, NEW i \in Insts, ConnectTimeout(i) PROVE IInv'
<1> DEFINE s == connectTimer[i]
<1>1. /\ s \in Socks /\ connectTimer' = [connectTimer EXCEPT ![i] = None] /\ Trouble
      /\ UNCHANGED <<env, singleton, made, started, phase, hb, intentional, tails, clearing,
                     op, rpcs, overlap>>
  BY DEF ConnectTimeout, IInv, TypeOK
<1>2. CASE UNCHANGED <<ws, sock, reconnectTimer>>
  <2>1. /\ fails' \in 0..MaxTrouble /\ ws' \in [Insts -> Socks \cup {None}]
        /\ reconnectTimer' \in [Insts -> BOOLEAN] /\ sock' \in [Socks -> Sock \cup {None}]
        /\ connectTimer' \in [Insts -> Socks \cup {None}] /\ hb' \in [Insts -> Socks \cup {None}]
    BY <1>1, <1>2, TroubleCounted DEF IInv, TypeOK
  <2>2. \A j \in Insts : hb'[j] # None => sock[hb'[j]] # None /\ sock[hb'[j]].inst = j
    BY <1>1 DEF IInv, InstsOK, InstOK
  <2>. QED BY <1>1, <1>2, <2>1, <2>2, SocketsKeep
<1>3. CASE /\ ws[i] = s /\ ws' = [ws EXCEPT ![i] = None] /\ ScheduleReconnect(i)
           /\ sock' = IF ~Is(s, {"closing"}) THEN CloseLocally(s, "other") ELSE sock
  BY <1>1, <1>3, ForgetKeeps
<1>. QED BY <1>2, <1>3 DEF ConnectTimeout

\* A socket has its 'error' event.
LEMMA FailedKeeps == ASSUME IInv, NEW s \in Socks, Failed(s) PROVE IInv'
<1> DEFINE i == sock[s].inst
<1>1. i \in Insts /\ ws[i] = s /\ ~Is(s, {"closing"})
  BY DEF Failed, Is, IInv, TypeOK, Sock
<1>. QED BY <1>1, ForgetKeeps DEF Failed

-----------------------------------------------------------------------------
(* Bots that are gone *)

\* What is cleared is the token of a bot that is gone.
LEMMA UnboundKeeps == ASSUME IInv, NEW s \in Socks, Unbound(s) PROVE IInv'
<1> DEFINE t == [step |-> "read", match |-> sock[s].bot, closes |-> s, bot |-> sock[s].bot]
<1>1. /\ sock[s] # None /\ sock[s] \in Sock /\ sock[s].bot \notin alive /\ Watch(s)
      /\ clearing' = clearing \cup {t}
      /\ UNCHANGED <<env, singleton, made, started, phase, ws, reconnectTimer, connectTimer,
                     intentional, tails, sock, op, rpcs, fails, overlap>>
  BY DEF Unbound, Is, history, IInv, TypeOK
<1>2. Gone(sock[s].bot)
  <2>1. sock[s].bot \in Bots /\ sock[s].bot <= created /\ created \in Nat
    BY <1>1, BridgeAssumption DEF Sock, IInv, TypeOK, SocksOK, SockOK
  <2>. QED BY <1>1, <2>1 DEF Gone, Bots
<1>3. t \in Clear /\ t.bot = sock[s].bot /\ t.closes = s
  BY <1>1 DEF Sock, Clear
<1> HIDE DEF t
<1>4. OpsOK' /\ OneRuns'
  BY <1>1, MethodsKeep
<1>5. /\ hb' \in [Insts -> Socks \cup {None}]
      /\ \A j \in Insts : hb'[j] # None => sock[hb'[j]] # None /\ sock[hb'[j]].inst = j
  BY <1>1, Watches
<1>6. TypeOK'
  BY <1>1, <1>3, <1>4, <1>5 DEF IInv, TypeOK, env, OpsOK, OpRec
<1>7. InstsOK' /\ SocksOK' /\ TailsOK' /\ ConfigOK'
  BY <1>1, <1>5 DEF IInv, InstsOK, InstOK, SocksOK, SockOK, TailsOK, ConfigOK, Gone, env
<1>8. ClearingOK'
  BY <1>1, <1>2, <1>3 DEF IInv, ClearingOK, Gone, env
<1>. QED BY <1>4, <1>6, <1>7, <1>8 DEF IInv

\* A socket is closed: what referred to it does not any more.
LEMMA CloseEventKeeps ==
  ASSUME IInv, NEW s \in Socks, NEW code \in Codes, CloseEvent(s, code) PROVE IInv'
<1> DEFINE i == sock[s].inst
           stale == ws[i] \notin {None, s}
           tail == [inst |-> i, code |-> code, intentional |-> intentional[i], bot |-> sock[s].bot]
<1>1. /\ sock[s] # None /\ sock[s] \in Sock /\ i \in Insts /\ sock[s].bot \in Bots
      /\ MayCloseWith(s, code)
      /\ sock' = [sock EXCEPT ![s] = None]
      /\ hb' = [hb EXCEPT ![i] = None] /\ connectTimer' = [connectTimer EXCEPT ![i] = None]
      /\ clearing' = {IF t.closes = s THEN [t EXCEPT !.closes = None] ELSE t : t \in clearing}
      /\ UNCHANGED <<config, created, alive, singleton, made, started, phase, reconnectTimer, op, rpcs, overlap>>
  BY DEF CloseEvent, IInv, TypeOK, Sock, env
<1>2. fails' \in 0..MaxTrouble
  BY TroubleCounted DEF CloseEvent, IInv, TypeOK
<1>3. \/ stale /\ UNCHANGED <<ws, intentional, tails>>
      \/ /\ ~stale /\ ws' = [ws EXCEPT ![i] = None]
         /\ intentional' = [intentional EXCEPT ![i] = FALSE]
         /\ tails' = tails \cup {tail}
  BY DEF CloseEvent
<1>4. tail \in Pending /\ tail.inst = i /\ tail.code = code /\ tail.intentional = intentional[i] /\ tail.bot = sock[s].bot
  BY <1>1 DEF Pending, IInv, TypeOK
<1>5. /\ i <= made /\ (intentional[i] => ~started[i])
      /\ code = "auth" => Gone(sock[s].bot)
  <2>1. SockOK(s) /\ InstOK(i) /\ created \in Nat
    BY <1>1, BridgeAssumption DEF IInv, TypeOK, SocksOK, InstsOK
  <2>. QED BY <1>1, <2>1 DEF SockOK, InstOK, MayCloseWith, Gone, Bots
<1> HIDE DEF tail, i, stale
<1>6. OpsOK' /\ OneRuns'
  BY <1>1, MethodsKeep
<1>7. ASSUME NEW t \in clearing'
      PROVE  /\ t \in Clear /\ Gone(t.bot) /\ t.closes # s
             /\ t.closes # None => sock[t.closes] # None /\ Gone(sock[t.closes].bot)
  <2>1. PICK u \in clearing : t = IF u.closes = s THEN [u EXCEPT !.closes = None] ELSE u
    BY <1>1, <1>7
  <2>2. u \in Clear /\ Gone(u.bot) /\ (u.closes # None => sock[u.closes] # None /\ Gone(sock[u.closes].bot))
    BY <2>1 DEF IInv, TypeOK, ClearingOK
  <2>3. None # s
    BY BridgeAssumption
  <2>. QED BY <2>1, <2>2, <2>3 DEF Clear
<1>8. /\ sock' \in [Socks -> Sock \cup {None}] /\ sock'[s] = None
      /\ \A r \in Socks \ {s} : sock'[r] = sock[r]
  BY <1>1 DEF IInv, TypeOK
<1>9. TypeOK'
  <2>1. ws' \in [Insts -> Socks \cup {None}] /\ intentional' \in [Insts -> BOOLEAN] /\ tails' \subseteq Pending
    BY <1>3, <1>4 DEF IInv, TypeOK
  <2>2. hb' \in [Insts -> Socks \cup {None}] /\ connectTimer' \in [Insts -> Socks \cup {None}]
    BY <1>1 DEF IInv, TypeOK
  <2>3. clearing' \subseteq Clear
    BY <1>7
  <2>. QED BY <1>1, <1>2, <1>6, <1>8, <2>1, <2>2, <2>3 DEF IInv, TypeOK, OpsOK, OpRec
<1>10. \A j \in Insts : /\ ws'[j] \in {ws[j], None} \ {s} /\ hb'[j] \in {hb[j], None}
                        /\ j # i => ws'[j] = ws[j]
                        /\ intentional'[j] => intentional[j]
                        /\ hb[j] = s => hb'[j] = None
  <2>1. ASSUME NEW j \in Insts
        PROVE  /\ ws'[j] \in {ws[j], None} /\ hb'[j] \in {hb[j], None}
               /\ j # i => ws'[j] = ws[j]
               /\ intentional'[j] => intentional[j]
               /\ j = i => hb'[j] = None
    BY <1>1, <1>3 DEF IInv, TypeOK
  <2>2. ASSUME NEW j \in Insts PROVE ws'[j] # s
    <3>1. s # None
      BY BridgeAssumption
    <3>2. CASE j = i
      BY <1>1, <1>3, <3>1, <3>2 DEF stale, IInv, TypeOK
    <3>3. CASE j # i
      BY <2>1, <3>1, <3>3 DEF IInv, InstsOK, InstOK, i
    <3>. QED BY <3>2, <3>3
  <2>3. ASSUME NEW j \in Insts, hb[j] = s PROVE j = i
    BY <2>3, BridgeAssumption DEF IInv, InstsOK, InstOK, i
  <2>. QED BY <2>1, <2>2, <2>3
<1>11. InstsOK'
  <2> SUFFICES ASSUME NEW j \in Insts PROVE InstOK(j)'
    BY DEF InstsOK
  <2>1. InstOK(j) /\ ws[j] \in Socks \cup {None} /\ hb[j] \in Socks \cup {None}
    BY DEF IInv, TypeOK, InstsOK
  <2>2. ws'[j] # None => sock'[ws'[j]] # None /\ sock'[ws'[j]].inst = j /\ ws'[j] = ws[j]
    BY <1>8, <1>10, <2>1 DEF InstOK
  <2>3. hb'[j] # None => sock'[hb'[j]] # None /\ sock'[hb'[j]].inst = j
    BY <1>8, <1>10, <2>1 DEF InstOK
  <2>. QED BY <1>1, <1>10, <2>1, <2>2, <2>3 DEF InstOK
<1>12. SocksOK'
  <2> SUFFICES ASSUME NEW r \in Socks, sock'[r] # None PROVE SockOK(r)'
    BY DEF SocksOK, SockOK
  <2>1. r # s /\ sock'[r] = sock[r] /\ SockOK(r) /\ sock[r].inst \in Insts
    BY <1>8 DEF IInv, TypeOK, SocksOK, Sock
  <2>2. sock[r].state \in {"connecting", "open"} => ws'[sock[r].inst] = r
    <3>1. CASE sock[r].inst # i
      BY <1>10, <2>1, <3>1 DEF SockOK
    <3>2. CASE sock[r].inst = i /\ sock[r].state \in {"connecting", "open"}
      <4>1. ws[i] = r /\ r # None
        BY <2>1, <3>2, BridgeAssumption DEF SockOK
      <4>2. stale
        BY <2>1, <4>1 DEF stale
      <4>. QED BY <1>3, <3>2, <4>1, <4>2
    <3>. QED BY <3>1, <3>2
  <2>. QED BY <1>1, <2>1, <2>2 DEF SockOK, Gone
<1>13. TailsOK' /\ ConfigOK'
  BY <1>1, <1>3, <1>4, <1>5 DEF IInv, TailsOK, ConfigOK, Gone
<1>14. ClearingOK'
  <2>1. ASSUME NEW t \in clearing', t.closes # None
        PROVE  sock'[t.closes] # None /\ Gone(sock'[t.closes].bot)
    BY <1>7, <1>8, <2>1 DEF Clear
  <2>. QED BY <1>1, <1>7, <2>1 DEF ClearingOK, Gone
<1>. QED BY <1>6, <1>9, <1>11, <1>12, <1>13, <1>14 DEF IInv

\* A close handler goes on after its await.
LEMMA CloseTailKeeps == ASSUME IInv, NEW t \in tails, CloseTail(t) PROVE IInv'
<1> DEFINE new == [step |-> "read", match |-> Whoever, closes |-> None, bot |-> t.bot]
<1>1. /\ t \in Pending /\ t.inst \in Insts /\ tails' = tails \ {t}
      /\ UNCHANGED <<env, singleton, made, started, phase, ws, connectTimer, hb, intentional, sock,
                     op, rpcs, fails, overlap>>
  BY DEF CloseTail, IInv, TypeOK, Pending, history
<1>2. new \in Clear /\ new.bot = t.bot /\ new.closes = None
  BY <1>1 DEF Pending, Clear
<1> HIDE DEF new
<1>3. /\ clearing' \in {clearing, clearing \cup {new}}
      /\ clearing' # clearing => Gone(t.bot)
      /\ reconnectTimer' \in [Insts -> BOOLEAN]
  BY <1>1 DEF CloseTail, AuthClose, ScheduleReconnect, IInv, TypeOK, TailsOK, new
<1>4. OpsOK' /\ OneRuns'
  BY <1>1, MethodsKeep
<1>5. TypeOK'
  BY <1>1, <1>2, <1>3, <1>4 DEF IInv, TypeOK, env, OpsOK, OpRec
<1>6. InstsOK' /\ SocksOK' /\ TailsOK' /\ ConfigOK'
  BY <1>1 DEF IInv, InstsOK, InstOK, SocksOK, SockOK, TailsOK, ConfigOK, Gone, env
<1>7. ClearingOK'
  BY <1>1, <1>2, <1>3 DEF IInv, ClearingOK, Gone, env
<1>. QED BY <1>4, <1>5, <1>6, <1>7 DEF IInv

-----------------------------------------------------------------------------
(* __clearTokenLocal *)

\* The config is looked at or emptied; then the socket may be closed, as one that
\* was turned away.
LEMMA ClearingKeeps ==
  ASSUME IInv, NEW t \in clearing, NEW new \in Clear, new.bot = t.bot, new.closes = t.closes,
         clearing' \in {clearing \ {t}, (clearing \ {t}) \cup {new}},
         config' \in {config, None}, ThenClose(t) \/ UNCHANGED sock, fails' \in 0..MaxTrouble,
         UNCHANGED <<created, alive, singleton, made, inst, tails, op, rpcs, overlap>>
  PROVE  IInv'
<1>1. UNCHANGED <<created, alive, singleton, made, started, phase, ws, reconnectTimer, connectTimer,
                  hb, intentional, tails, op, rpcs, overlap>>
  BY DEF inst, timers
<1>2. t \in Clear /\ t.closes \in Socks \cup {None}
  BY DEF IInv, TypeOK, Clear
<1>3. /\ sock' \in [Socks -> Sock \cup {None}]
      /\ \A s \in Socks : /\ (sock'[s] = None) = (sock[s] = None)
                          /\ sock[s] # None =>
                               /\ sock'[s].inst = sock[s].inst /\ sock'[s].bot = sock[s].bot
                               /\ sock'[s].state \in {sock[s].state, "closing"}
                               /\ sock'[s].code = "auth" => sock[s].code = "auth" \/ Gone(sock[s].bot)
  <2>1. CASE UNCHANGED sock
    BY <2>1 DEF IInv, TypeOK
  <2>2. CASE t.closes # None /\ Is(t.closes, {"open"}) /\ sock' = CloseLocally(t.closes, "auth")
    <3>1. t.closes \in Socks /\ sock[t.closes] # None /\ Gone(sock[t.closes].bot)
      BY <1>2, <2>2 DEF IInv, ClearingOK
    <3>2. /\ sock' \in [Socks -> Sock \cup {None}] /\ sock'[t.closes] # None
          /\ sock'[t.closes].state = "closing"
          /\ sock'[t.closes].inst = sock[t.closes].inst /\ sock'[t.closes].bot = sock[t.closes].bot
          /\ \A r \in Socks \ {t.closes} : sock'[r] = sock[r]
      BY <2>2, <3>1, ClosesLocally DEF Codes, IInv
    <3>. QED BY <3>1, <3>2
  <2>. QED BY <2>1, <2>2 DEF ThenClose
<1>4. OpsOK' /\ OneRuns'
  BY <1>1, MethodsKeep
<1>5. TypeOK'
  BY <1>1, <1>3, <1>4 DEF IInv, TypeOK, OpsOK, OpRec
<1>6. InstsOK'
  <2> SUFFICES ASSUME NEW i \in Insts PROVE InstOK(i)'
    BY DEF InstsOK
  <2>1. InstOK(i) /\ ws[i] \in Socks \cup {None} /\ hb[i] \in Socks \cup {None}
    BY DEF IInv, TypeOK, InstsOK
  <2>. QED BY <1>1, <1>3, <2>1 DEF InstOK
<1>7. SocksOK'
  <2> SUFFICES ASSUME NEW s \in Socks, sock'[s] # None PROVE SockOK(s)'
    BY DEF SocksOK, SockOK
  <2>1. sock[s] # None /\ SockOK(s)
    BY <1>3 DEF IInv, SocksOK
  <2>. QED BY <1>1, <1>3, <2>1 DEF SockOK, Gone
<1>8. TailsOK' /\ ConfigOK'
  BY <1>1 DEF IInv, TailsOK, ConfigOK, Gone
<1>9. ClearingOK'
  <2> SUFFICES ASSUME NEW u \in clearing'
               PROVE  Gone(u.bot) /\ (u.closes # None => sock'[u.closes] # None /\ Gone(sock'[u.closes].bot))
    BY <1>1 DEF ClearingOK, Gone
  <2>1. PICK v \in clearing : u.bot = v.bot /\ u.closes = v.closes
    OBVIOUS
  <2>2. /\ v.closes \in Socks \cup {None} /\ Gone(v.bot)
        /\ v.closes # None => sock[v.closes] # None /\ Gone(sock[v.closes].bot)
    BY DEF IInv, TypeOK, Clear, ClearingOK
  <2>. QED BY <1>3, <2>1, <2>2
<1>. QED BY <1>4, <1>5, <1>6, <1>7, <1>8, <1>9 DEF IInv

\* A run of __clearTokenLocal reads the config.
LEMMA ClearReadKeeps == ASSUME IInv, NEW t \in clearing, ClearRead(t) PROVE IInv'
<1> DEFINE new == [t EXCEPT !.step = "write"]
<1>1. t \in Clear
  BY DEF IInv, TypeOK
<1>2. new \in Clear /\ new.bot = t.bot /\ new.closes = t.closes
  BY <1>1 DEF Clear
<1>3. /\ clearing' \in {clearing \ {t}, (clearing \ {t}) \cup {new}}
      /\ ThenClose(t) \/ UNCHANGED sock
      /\ config' \in {config, None}
      /\ UNCHANGED <<created, alive, singleton, made, inst, tails, op, rpcs, overlap>>
      /\ fails' \in 0..MaxTrouble
  BY DEF ClearRead, env, history, IInv, TypeOK
<1> HIDE DEF new
<1>. QED BY <1>2, <1>3, ClearingKeeps

\* And writes it.
LEMMA ClearWriteKeeps == ASSUME IInv, NEW t \in clearing, ClearWrite(t) PROVE IInv'
<1>1. t \in Clear /\ fails \in 0..MaxTrouble
  BY DEF IInv, TypeOK
<1>. QED BY <1>1, ClearingKeeps DEF ClearWrite, history

\* And cannot.
LEMMA ClearFailsKeeps == ASSUME IInv, NEW t \in clearing, ClearFails(t) PROVE IInv'
<1>1. t \in Clear /\ fails' \in 0..MaxTrouble
  BY BridgeAssumption DEF ClearFails, Trouble, IInv, TypeOK
<1>. QED BY <1>1, ClearingKeeps DEF ClearFails, env

-----------------------------------------------------------------------------
(* The RPC methods *)

\* A method goes on by n steps.
LEMMA Skips ==
  ASSUME IInv, NEW o \in Ops, NEW n \in 1..Len(op[o].todo), NEW i \in Insts \cup {None}, Skip(o, n, i)
  PROVE  /\ op' \in [Ops -> OpRec] /\ op'[o].on = i
         /\ Orderly(op'[o].todo)
         /\ \A q \in Ops \ {o} : op'[q] = op[q]
         /\ ~Idle(o) /\ (~Idle(o)' => n < Len(op[o].todo) /\ Head(op'[o].todo) = op[o].todo[n + 1])
<1> DEFINE q == op[o].todo
           r == SubSeq(q, n + 1, Len(q))
           new == [op[o] EXCEPT !.todo = r, !.on = i]
<1>1. /\ op \in [Ops -> OpRec] /\ op[o] \in OpRec /\ q \in Seq(Steps) /\ Orderly(q)
  BY DEF IInv, OpsOK, OpRec
<1>2. op' = [op EXCEPT ![o] = new]
  BY <1>1 DEF Skip
<1>3. r \in Seq(Steps) /\ Orderly(r) /\ (r # <<>> => n < Len(q) /\ Head(r) = q[n + 1])
  BY <1>1, Rest
<1>4. q # <<>>
  <2>1. Len(q) \in Nat /\ Len(q) >= 1
    BY <1>1
  <2>. QED BY <1>1, <2>1, EmptySeq
<1> HIDE DEF r
<1>5. new \in OpRec /\ new.todo = r /\ new.on = i
  BY <1>1, <1>3 DEF OpRec
<1> HIDE DEF new, q
<1>6. op' \in [Ops -> OpRec] /\ op'[o] = new /\ \A p \in Ops \ {o} : op'[p] = op[p]
  BY <1>1, <1>2, <1>5
<1>. QED BY <1>3, <1>4, <1>5, <1>6 DEF Idle, q

\* What a method has to do, where it stands.
LEMMA WhereItStands ==
  ASSUME IInv, NEW o \in Ops, ~Idle(o)
  PROVE  LET q == op[o].todo IN
         /\ q \in Seq(Steps) /\ Len(q) \in Nat /\ Len(q) >= 1 /\ Head(q) = q[1]
         /\ q[1] = "stop" => 3 <= Len(q) /\ q[2] = "stop2" /\ (3 < Len(q) => q[4] \notin Late)
         /\ q[1] = "stop2" => 2 <= Len(q) /\ q[2] # "stop2"
         /\ q[1] \notin {"stop", "stop2"} /\ 1 < Len(q) => q[2] \notin Late
         /\ q[1] = "drop" => /\ 5 <= Len(q) /\ q[3] \notin Late
                             /\ 5 < Len(q) => q[4] \notin Late
<1> DEFINE q == op[o].todo
<1>1. q \in Seq(Steps) /\ q # <<>> /\ Orderly(q)
  BY DEF IInv, OpsOK, OpRec, Idle
<1> HIDE DEF q
<1>2. Len(q) \in Nat /\ Len(q) >= 1 /\ Head(q) = q[1]
  BY <1>1
<1>3. OrderlyAt(q, 1) /\ (3 <= Len(q) => OrderlyAt(q, 3))
  BY <1>1, <1>2 DEF Orderly
<1>4. q[1] = "stop" => 3 <= Len(q) /\ q[2] = "stop2" /\ q[3] \in {"stopped", "new"}
  BY <1>3 DEF OrderlyAt
<1>5. q[1] = "stop" /\ 3 < Len(q) => q[4] \notin Late
  BY <1>2, <1>3, <1>4 DEF OrderlyAt
<1>6. q[1] = "stop2" => 2 <= Len(q) /\ q[2] # "stop2"
  BY <1>3 DEF OrderlyAt
<1>7. q[1] \notin {"stop", "stop2"} /\ 1 < Len(q) => q[2] \notin Late
  BY <1>3 DEF OrderlyAt
<1>8. q[1] = "drop" => 5 <= Len(q) /\ q[3] \notin Late
  BY <1>3 DEF OrderlyAt
<1>9. q[1] = "drop" /\ 5 < Len(q) => q[4] \notin Late
  <2>1. q[1] = "drop" /\ 1 + 5 <= Len(q) => q[1 + 3] \notin Late
    BY <1>3 DEF OrderlyAt
  <2>. QED BY <1>2, <2>1
<1>. QED BY <1>1, <1>2, <1>4, <1>5, <1>6, <1>7, <1>8, <1>9 DEF q

\* A method goes on to a step other than the second half of stop().
LEMMA GoesOn ==
  ASSUME IInv, NEW o \in Ops, NEW n \in 1..Len(op[o].todo), NEW i \in Insts \cup {None}, Skip(o, n, i),
         n < Len(op[o].todo) => op[o].todo[n + 1] \notin Late,
         \A j \in Insts : started'[j] => started[j] \/ j > made,
         made' = made \/ made' = made + 1, overlap' = overlap,
         ~overlap => \A j \in Insts : started'[j] => singleton' = j
  PROVE  OpsOK' /\ OneRuns'
<1>1. /\ op' \in [Ops -> OpRec] /\ Orderly(op'[o].todo)
      /\ \A q \in Ops \ {o} : op'[q] = op[q]
      /\ ~Idle(o) /\ (~Idle(o)' => Head(op'[o].todo) \notin Late)
  BY Skips
<1>2. \A q \in Ops \ {o} : Idle(q)' = Idle(q) /\ (At(q, "stop2")' = At(q, "stop2"))
  BY <1>1 DEF Idle, At
<1>3. made \in Nat
  BY BridgeAssumption DEF IInv, TypeOK
<1>4. OpsOK'
  <2>1. \A q \in Ops : Orderly(op'[q].todo)
    BY <1>1 DEF IInv, OpsOK
  <2>2. ASSUME NEW q \in Ops, At(q, "stop2")' PROVE op'[q].on \in 1..made' /\ ~started'[op'[q].on]
    <3>1. q # o
      BY <1>1, <2>2 DEF At, Late
    <3>2. op'[q].on = op[q].on /\ op[q].on \in 1..made /\ ~started[op[q].on] /\ op[q].on \in Insts
      BY <1>1, <1>2, <2>2, <3>1, MadeAreInsts DEF IInv, OpsOK
    <3>. QED BY <1>3, <3>2
  <2>. QED BY <1>1, <2>1, <2>2 DEF OpsOK
<1>5. OneRuns'
  <2> SUFFICES ASSUME ~overlap PROVE OneRuns'
    BY DEF OneRuns
  <2>1. \A q \in Ops \ {o} : Idle(q)
    BY <1>1 DEF IInv, OneRuns
  <2>. QED BY <1>1, <1>2, <2>1 DEF OneRuns
<1>. QED BY <1>4, <1>5

\* An RPC method is called.
LEMMA StartKeeps ==
  ASSUME IInv, NEW o \in Ops, NEW method \in DOMAIN Method, Start(o, method) PROVE IInv'
<1> DEFINE q == Method[method]
           new == [op[o] EXCEPT !.todo = q]
<1>1. /\ op' = [op EXCEPT ![o].todo = q] /\ rpcs' = o
      /\ overlap' = (overlap \/ \E p \in Ops : ~Idle(p))
      /\ UNCHANGED <<config, created, alive, singleton, made, started, phase, ws, reconnectTimer,
                     connectTimer, hb, intentional, tails, sock, clearing, fails>>
  BY DEF Start, env, inst, timers
<1>2. q \in Seq(Steps) /\ q # <<>> /\ Orderly(q) /\ Head(q) \notin Late
  BY Methods
<1> HIDE DEF q
<1>3. op \in [Ops -> OpRec] /\ op[o] \in OpRec
  BY DEF IInv, OpsOK
<1>4. new \in OpRec /\ new.todo = q /\ new.on = op[o].on /\ op' = [op EXCEPT ![o] = new]
  BY <1>1, <1>2, <1>3 DEF OpRec
<1> HIDE DEF new
<1>5. op' \in [Ops -> OpRec] /\ op'[o].todo = q /\ \A p \in Ops \ {o} : op'[p] = op[p]
  BY <1>3, <1>4
<1>6. OpsOK'
  <2>1. \A p \in Ops : Orderly(op'[p].todo)
    BY <1>2, <1>5 DEF IInv, OpsOK
  <2>2. ASSUME NEW p \in Ops, At(p, "stop2")' PROVE op'[p].on \in 1..made' /\ ~started'[op'[p].on]
    <3>1. p # o
      BY <1>2, <1>5, <2>2 DEF At, Late
    <3>2. op'[p] = op[p] /\ At(p, "stop2")
      BY <1>5, <2>2, <3>1 DEF At, Idle
    <3>. QED BY <1>1, <3>2 DEF IInv, OpsOK
  <2>. QED BY <1>5, <2>1, <2>2 DEF OpsOK
<1>7. OneRuns'
  <2> SUFFICES ASSUME ~overlap' PROVE OneRuns'
    BY DEF OneRuns
  <2>1. ~overlap /\ \A p \in Ops : Idle(p)
    BY <1>1
  <2>2. \A p \in Ops \ {o} : Idle(p)'
    BY <1>5, <2>1 DEF Idle
  <2>. QED BY <1>1, <1>2, <1>5, <2>1, <2>2 DEF IInv, OneRuns
<1>8. TypeOK'
  <2>1. rpcs' \in 0..Len(Rpcs) /\ overlap' \in BOOLEAN
    <3>1. Len(Rpcs) \in Nat
      BY BridgeAssumption
    <3>. QED BY <1>1, <3>1 DEF Ops
  <2>. QED BY <1>1, <1>6, <2>1 DEF IInv, TypeOK, OpsOK, OpRec
<1>9. InstsOK' /\ SocksOK' /\ TailsOK' /\ ClearingOK' /\ ConfigOK'
  BY <1>1 DEF IInv, InstsOK, InstOK, SocksOK, SockOK, TailsOK, ClearingOK, ConfigOK, Gone
<1>. QED BY <1>6, <1>7, <1>8, <1>9 DEF IInv

\* The first half of stop().
LEMMA StopInstanceKeeps == ASSUME IInv, NEW o \in Ops, StopInstance(o) PROVE IInv'
<1> DEFINE i == singleton
<1>1. /\ ~Idle(o) /\ op[o].todo[1] = "stop" /\ i # None /\ Skip(o, 1, i)
      /\ started' = [started EXCEPT ![i] = FALSE] /\ hb' = [hb EXCEPT ![i] = None]
      /\ connectTimer' = [connectTimer EXCEPT ![i] = None]
      /\ reconnectTimer' = [reconnectTimer EXCEPT ![i] = FALSE]
      /\ UNCHANGED <<config, created, alive, singleton, made, phase, ws, intentional, tails, sock,
                     clearing, rpcs, fails, overlap>>
  BY WhereItStands DEF StopInstance, NotStarted, At, env, history
<1>2. i \in 1..made /\ i \in Insts /\ made \in Nat
  BY <1>1, BridgeAssumption DEF IInv, TypeOK, Insts
<1>3. 1 \in 1..Len(op[o].todo)
  BY <1>1, WhereItStands
<1>4. /\ op' \in [Ops -> OpRec] /\ op'[o].on = i /\ Orderly(op'[o].todo)
      /\ \A q \in Ops \ {o} : op'[q] = op[q]
  BY <1>1, <1>2, <1>3, Skips
<1> HIDE DEF i
<1>5. started' \in [Insts -> BOOLEAN] /\ ~started'[i] /\ \A j \in Insts : started'[j] => started[j] /\ j # i
  BY <1>1, <1>2 DEF IInv, TypeOK
<1>6. OpsOK'
  <2>1. \A q \in Ops : Orderly(op'[q].todo)
    BY <1>4 DEF IInv, OpsOK
  <2>2. ASSUME NEW q \in Ops, At(q, "stop2")' PROVE op'[q].on \in 1..made /\ ~started'[op'[q].on]
    <3>1. CASE q = o
      BY <1>2, <1>4, <1>5, <3>1
    <3>2. CASE q # o
      <4>1. op'[q] = op[q] /\ At(q, "stop2")
        BY <1>4, <2>2, <3>2 DEF At, Idle
      <4>2. op[q].on \in 1..made /\ ~started[op[q].on] /\ op[q].on \in Insts
        BY <4>1, MadeAreInsts DEF IInv, OpsOK
      <4>. QED BY <1>5, <4>1, <4>2
    <3>. QED BY <3>1, <3>2
  <2>. QED BY <1>1, <1>4, <2>1, <2>2 DEF OpsOK
<1>7. OneRuns'
  <2> SUFFICES ASSUME ~overlap PROVE OneRuns'
    BY <1>1 DEF OneRuns
  <2>1. /\ \A q \in Ops \ {o} : Idle(q)
        /\ \A j \in Insts : started[j] => j = i
    BY <1>1 DEF IInv, OneRuns, i
  <2>2. \A j \in Insts : ~started'[j]
    BY <1>5, <2>1
  <2>3. \A q \in Ops \ {o} : Idle(q)'
    BY <1>4, <2>1 DEF Idle
  <2>. QED BY <2>2, <2>3 DEF OneRuns
<1>8. TypeOK'
  BY <1>1, <1>2, <1>5, <1>6 DEF IInv, TypeOK, OpsOK, OpRec
<1>9. InstsOK'
  <2> SUFFICES ASSUME NEW j \in Insts PROVE InstOK(j)'
    BY DEF InstsOK
  <2>1. InstOK(j) /\ hb'[j] \in {hb[j], None}
    BY <1>1, <1>2 DEF IInv, TypeOK, InstsOK
  <2>. QED BY <1>1, <1>5, <2>1 DEF InstOK
<1>10. TailsOK'
  <2>1. \A t \in tails : t.inst \in Insts
    BY DEF IInv, TypeOK, Pending
  <2>. QED BY <1>1, <1>5, <2>1 DEF IInv, TailsOK, Gone
<1>11. SocksOK' /\ ClearingOK' /\ ConfigOK'
  BY <1>1 DEF IInv, SocksOK, SockOK, ClearingOK, ConfigOK, Gone
<1>. QED BY <1>6, <1>7, <1>8, <1>9, <1>10, <1>11 DEF IInv

\* The second half of stop().
LEMMA StopSocketKeeps == ASSUME IInv, NEW o \in Ops, StopSocket(o) PROVE IInv'
<1> DEFINE i == op[o].on
           s == ws[i]
           q == op[o].todo
<1>1. /\ ~Idle(o) /\ Head(q) = "stop2" /\ q[1] = "stop2" /\ Skip(o, 1, i) /\ 1 \in 1..Len(q)
      /\ 2 <= Len(q) /\ q[2] # "stop2"
      /\ ws' = [ws EXCEPT ![i] = None]
      /\ intentional' = [intentional EXCEPT ![i] = @ \/ s # None]
      /\ sock' = IF s # None /\ Is(s, {"connecting", "open"}) THEN CloseLocally(s, "other") ELSE sock
      /\ UNCHANGED <<config, created, alive, singleton, made, started, phase, reconnectTimer,
                     connectTimer, hb, tails, clearing, rpcs, fails, overlap>>
  BY WhereItStands DEF StopSocket, At, env, timers, history
<1>2. i \in 1..made /\ ~started[i] /\ i \in Insts /\ s \in Socks \cup {None} /\ i <= made
  <2>1. i \in 1..made /\ ~started[i] /\ made \in Nat /\ 1..made \subseteq Insts
    BY <1>1, MadeAreInsts DEF IInv, OpsOK, At
  <2>. QED BY <2>1 DEF IInv, TypeOK
<1>3. /\ op' \in [Ops -> OpRec] /\ op'[o].on = i /\ Orderly(op'[o].todo)
      /\ \A p \in Ops \ {o} : op'[p] = op[p]
      /\ ~Idle(o)' => Head(op'[o].todo) = q[2]
  BY <1>1, <1>2, Skips
<1>4. s # None => sock[s] # None /\ sock[s].inst = i
  BY <1>2 DEF IInv, InstsOK, InstOK
<1>5. /\ sock' \in [Socks -> Sock \cup {None}]
      /\ \A r \in Socks : /\ (sock'[r] = None) = (sock[r] = None)
                          /\ sock[r] # None =>
                               /\ sock'[r].inst = sock[r].inst /\ sock'[r].bot = sock[r].bot
                               /\ sock'[r].state \in {sock[r].state, "closing"}
                               /\ sock'[r].code = "auth" => sock[r].code = "auth"
      /\ s # None => sock'[s].state = "closing"
  <2>1. CASE s # None /\ Is(s, {"connecting", "open"}) /\ sock' = CloseLocally(s, "other")
    <3>1. s \in Socks /\ sock[s] # None
      BY <1>2, <1>4, <2>1
    <3> HIDE DEF s
    <3>2. /\ sock' \in [Socks -> Sock \cup {None}] /\ sock'[s] # None
          /\ sock'[s].state = "closing" /\ sock'[s].code = "other"
          /\ sock'[s].inst = sock[s].inst /\ sock'[s].bot = sock[s].bot
          /\ \A r \in Socks \ {s} : sock'[r] = sock[r]
      BY <2>1, <3>1, ClosesLocally DEF Codes, IInv
    <3>. QED BY <3>1, <3>2
  <2>2. CASE sock' = sock /\ (s # None => ~Is(s, {"connecting", "open"}))
    <3>1. s # None => sock[s] \in Sock
      BY <1>2, <1>4 DEF IInv, TypeOK
    <3>2. s # None => sock[s].state = "closing"
      BY <1>4, <2>2, <3>1 DEF Is, Sock
    <3>. QED BY <2>2, <3>2 DEF IInv, TypeOK
  <2>. QED BY <1>1, <2>1, <2>2
<1> HIDE DEF i, s, q
<1>6. OpsOK'
  <2>1. \A p \in Ops : Orderly(op'[p].todo)
    BY <1>3 DEF IInv, OpsOK
  <2>2. ASSUME NEW p \in Ops, At(p, "stop2")' PROVE op'[p].on \in 1..made /\ ~started[op'[p].on]
    <3>1. CASE p = o
      BY <1>2, <1>3, <3>1
    <3>2. CASE p # o
      <4>1. op'[p] = op[p] /\ At(p, "stop2")
        BY <1>3, <2>2, <3>2 DEF At, Idle
      <4>. QED BY <4>1 DEF IInv, OpsOK
    <3>. QED BY <3>1, <3>2
  <2>. QED BY <1>1, <1>3, <2>1, <2>2 DEF OpsOK
<1>7. OneRuns'
  <2> SUFFICES ASSUME ~overlap PROVE OneRuns'
    BY <1>1 DEF OneRuns
  <2>1. /\ \A p \in Ops \ {o} : Idle(p)
        /\ \A j \in Insts : ~started[j]
    BY <1>1 DEF IInv, OneRuns, Late, q
  <2>2. \A p \in Ops \ {o} : Idle(p)'
    BY <1>3, <2>1 DEF Idle
  <2>. QED BY <1>1, <2>1, <2>2 DEF OneRuns
<1>8. TypeOK'
  <2>1. intentional' \in [Insts -> BOOLEAN] /\ ws' \in [Insts -> Socks \cup {None}]
    BY <1>1 DEF IInv, TypeOK
  <2>. QED BY <1>1, <1>5, <1>6, <2>1 DEF IInv, TypeOK, OpsOK, OpRec
<1>9. InstsOK'
  <2> SUFFICES ASSUME NEW j \in Insts PROVE InstOK(j)'
    BY DEF InstsOK
  <2>1. InstOK(j) /\ hb[j] \in Socks \cup {None} /\ ws[j] \in Socks \cup {None}
    BY DEF IInv, TypeOK, InstsOK
  <2>2. /\ ws'[j] = (IF j = i THEN None ELSE ws[j])
        /\ intentional'[j] => intentional[j] \/ j = i
        /\ j # i => intentional'[j] = intentional[j]
    BY <1>1, <1>2 DEF IInv, TypeOK
  <2>3. hb[j] # None => sock'[hb[j]] # None /\ sock'[hb[j]].inst = j
    BY <1>5, <2>1 DEF InstOK
  <2>4. ws[j] # None => sock'[ws[j]] # None /\ sock'[ws[j]].inst = j
    BY <1>5, <2>1 DEF InstOK
  <2>. QED BY <1>1, <1>2, <2>1, <2>2, <2>3, <2>4 DEF InstOK
<1>10. SocksOK'
  <2> SUFFICES ASSUME NEW r \in Socks, sock'[r] # None PROVE SockOK(r)'
    BY DEF SocksOK, SockOK
  <2>1. sock[r] # None /\ SockOK(r) /\ sock[r].inst \in Insts /\ r # None
    BY <1>5, BridgeAssumption DEF IInv, TypeOK, SocksOK, Sock
  <2>2. sock'[r].state \in {"connecting", "open"} => ws'[sock[r].inst] = r
    <3>1. CASE sock[r].inst # i
      BY <1>1, <1>5, <2>1, <3>1 DEF SockOK, IInv, TypeOK
    <3>2. CASE sock[r].inst = i
      BY <1>5, <2>1, <3>2 DEF SockOK, s
    <3>. QED BY <3>1, <3>2
  <2>. QED BY <1>1, <1>5, <2>1, <2>2 DEF SockOK, Gone
<1>11. TailsOK' /\ ConfigOK'
  BY <1>1 DEF IInv, TailsOK, ConfigOK, Gone
<1>12. ClearingOK'
  <2>1. \A t \in clearing : t.closes \in Socks \cup {None}
    BY DEF IInv, TypeOK, Clear
  <2>. QED BY <1>1, <1>5, <2>1 DEF IInv, ClearingOK, Gone
<1>. QED BY <1>6, <1>7, <1>8, <1>9, <1>10, <1>11, <1>12 DEF IInv

\* What has the bot of the config, and what is alive, changes; a bot that is gone
\* stays so.
LEMMA BotsChange ==
  ASSUME IInv, OpsOK', OneRuns', singleton' \in 1..made \cup {None},
         config' \in Bots \cup {None}, created' \in 0..MaxBots, created <= created', alive' \subseteq 1..created',
         \A b \in 1..created : b \notin alive => b \notin alive', ConfigOK',
         UNCHANGED <<made, inst, tails, sock, clearing, history>>
  PROVE  IInv'
<1>1. \A b : Gone(b) => Gone(b)'
  <2>1. created \in Nat /\ created' \in Nat
    BY BridgeAssumption DEF IInv, TypeOK
  <2>. QED BY <2>1 DEF Gone
<1>2. UNCHANGED <<made, started, phase, ws, reconnectTimer, connectTimer,
                  hb, intentional, tails, sock, clearing, rpcs, fails, overlap>>
  BY DEF inst, timers, history
<1>3. TypeOK'
  BY <1>2 DEF IInv, TypeOK, OpsOK, OpRec
<1>4. InstsOK' /\ TailsOK' /\ ClearingOK'
  BY <1>1, <1>2 DEF IInv, InstsOK, InstOK, TailsOK, ClearingOK
<1>5. SocksOK'
  <2>1. \A s \in Socks : sock[s] # None => sock[s].bot <= created'
    <3>1. created \in Nat /\ created' \in Nat
      BY BridgeAssumption DEF IInv, TypeOK
    <3>2. \A s \in Socks : sock[s] # None => sock[s].bot \in Nat
      BY DEF IInv, TypeOK, Sock, Bots
    <3>. QED BY <3>1, <3>2 DEF IInv, SocksOK, SockOK
  <2>. QED BY <1>1, <1>2, <2>1 DEF IInv, SocksOK, SockOK
<1>. QED BY <1>3, <1>4, <1>5 DEF IInv

\* A bridge is stopped for good.
LEMMA StoppedKeeps == ASSUME IInv, NEW o \in Ops, Stopped(o) PROVE IInv'
<1> DEFINE q == op[o].todo
<1>1. /\ ~Idle(o) /\ singleton' = None
      /\ UNCHANGED <<env, made, inst, tails, sock, clearing, history>>
      /\ started' = started /\ overlap' = overlap
  BY DEF Stopped, At, inst, history
<1>2. PICK n \in {1, 3} : Skip(o, n, None) /\ (n = 1 => Head(q) = "stopped")
                         /\ (n = 3 => Head(q) = "stop" /\ singleton = None)
  BY DEF Stopped, At
<1>3. n \in 1..Len(q) /\ (n < Len(q) => q[n + 1] \notin Late)
  BY <1>1, <1>2, WhereItStands
<1>4. ~overlap => \A j \in Insts : ~started[j]
  <2>1. CASE n = 1
    BY <1>1, <1>2, <2>1 DEF IInv, OneRuns, Late
  <2>2. CASE n = 3
    BY <1>2, <2>2, BridgeAssumption DEF IInv, OneRuns
  <2>. QED BY <2>1, <2>2
<1> HIDE DEF q
<1>5. OpsOK' /\ OneRuns'
  BY <1>1, <1>2, <1>3, <1>4, GoesOn DEF q
<1>6. ConfigOK' /\ UNCHANGED <<config, created, alive>>
  BY <1>1 DEF IInv, ConfigOK, env
<1>7. created \in 0..MaxBots /\ created <= created /\ config \in Bots \cup {None} /\ alive \subseteq 1..created
  BY BridgeAssumption DEF IInv, TypeOK
<1>. QED BY <1>1, <1>5, <1>6, <1>7, BotsChange

\* A new bridge: nothing refers to it yet.
LEMMA NewInstanceKeeps == ASSUME IInv, NEW o \in Ops, NewInstance(o) PROVE IInv'
<1> DEFINE q == op[o].todo
           i == made + 1
<1>1. /\ ~Idle(o) /\ made < MaxInst /\ made' = i /\ singleton' = i
      /\ started' = [started EXCEPT ![i] = TRUE] /\ phase' = [phase EXCEPT ![i] = "preload"]
      /\ UNCHANGED <<config, created, alive, ws, reconnectTimer, connectTimer, hb, intentional, tails,
                     sock, clearing, rpcs, fails, overlap>>
  BY DEF NewInstance, At, env, timers, history
<1>2. PICK n \in {1, 3} : Skip(o, n, None) /\ (n = 1 => Head(q) = "new")
                         /\ (n = 3 => Head(q) = "stop" /\ singleton = None)
  BY DEF NewInstance, At
<1>3. n \in 1..Len(q) /\ (n < Len(q) => q[n + 1] \notin Late)
  BY <1>1, <1>2, WhereItStands
<1>4. ~overlap => \A j \in Insts : ~started[j]
  <2>1. CASE n = 1
    BY <1>1, <1>2, <2>1 DEF IInv, OneRuns, Late
  <2>2. CASE n = 3
    BY <1>2, <2>2, BridgeAssumption DEF IInv, OneRuns
  <2>. QED BY <2>1, <2>2
<1>5. made \in Nat /\ i \in Insts /\ i > made /\ i \in 1..made' /\ made' \in 0..MaxInst
  BY <1>1, MadeAreInsts DEF IInv, Insts
<1> HIDE DEF q, i
<1>6. started' \in [Insts -> BOOLEAN] /\ \A j \in Insts : j # i => started'[j] = started[j]
  BY <1>1, <1>5 DEF IInv, TypeOK
<1>7. OpsOK' /\ OneRuns'
  BY <1>1, <1>2, <1>3, <1>4, <1>5, <1>6, GoesOn DEF q, i
<1>8. TypeOK'
  BY <1>1, <1>5, <1>6, <1>7 DEF IInv, TypeOK, OpsOK, OpRec
<1>9. InstsOK'
  <2> SUFFICES ASSUME NEW j \in Insts PROVE InstOK(j)'
    BY DEF InstsOK
  <2>1. InstOK(j) /\ j \in Nat
    BY DEF IInv, InstsOK, Insts
  <2>2. CASE j = i
    BY <1>1, <1>5, <2>1, <2>2 DEF InstOK, IInv, TypeOK
  <2>3. CASE j # i
    <3>1. j <= made => j <= made'
      BY <1>1, <1>5, <2>1 DEF i
    <3>. QED BY <1>1, <1>5, <1>6, <2>1, <2>3, <3>1 DEF InstOK, IInv, TypeOK
  <2>. QED BY <2>2, <2>3
<1>10. SocksOK' /\ TailsOK'
  <2>1. \A s \in Socks : sock[s] # None => sock[s].inst <= made /\ sock[s].inst \in Insts
    BY DEF IInv, TypeOK, Sock, SocksOK, SockOK
  <2>2. \A t \in tails : t.inst <= made /\ t.inst \in Insts
    BY DEF IInv, TypeOK, Pending, TailsOK
  <2>3. \A j \in Insts : j <= made => j <= made' /\ j # i
    BY <1>1, <1>5 DEF i, Insts
  <2>. QED BY <1>1, <1>6, <2>1, <2>2, <2>3 DEF IInv, SocksOK, SockOK, TailsOK, Gone
<1>11. ClearingOK' /\ ConfigOK'
  BY <1>1 DEF IInv, ClearingOK, ConfigOK, Gone
<1>. QED BY <1>7, <1>8, <1>9, <1>10, <1>11 DEF IInv

\* A bot is given up: it is gone from the server, or the method goes on without.
LEMMA DropBotKeeps == ASSUME IInv, NEW o \in Ops, DropBot(o) PROVE IInv'
<1> DEFINE q == op[o].todo
<1>1. /\ ~Idle(o) /\ Len(q) \in Nat /\ Len(q) >= 5
      /\ q[2] \notin Late /\ q[3] \notin Late /\ (5 < Len(q) => q[4] \notin Late)
      /\ alive' \subseteq alive
      /\ UNCHANGED <<config, created, singleton, made, inst, tails, sock, clearing, history>>
  <2>1. ~Idle(o) /\ Head(q) = "drop"
    BY DEF DropBot, At
  <2>2. alive' \subseteq alive
    <3>1. alive' = alive \ {config} \/ alive' = alive
      BY Zenon DEF DropBot
    <3>. QED BY <3>1
  <2>3. UNCHANGED <<config, created, singleton, made, inst, tails, sock, clearing, history>>
    BY DEF DropBot
  <2>4. q \in Seq(Steps) /\ Len(q) \in Nat /\ q[1] = "drop"
    BY <2>1, WhereItStands
  <2>5. 5 <= Len(q) /\ q[3] \notin Late /\ (5 < Len(q) => q[4] \notin Late)
    BY <2>1, <2>4, WhereItStands
  <2>6. 1 < Len(q) => q[2] \notin Late
    BY <2>1, <2>4, WhereItStands
  <2>. QED BY <2>1, <2>2, <2>3, <2>4, <2>5, <2>6
<1>2. Len(Unbind) = 5
  <2>1. <<"drop", "clear">> \in Seq(Steps) /\ Stop \in Seq(Steps) /\ Len(<<"drop", "clear">>) = 2 /\ Len(Stop) = 3
    BY DEF Stop, Steps
  <2>2. Len(Unbind) = Len(<<"drop", "clear">>) + Len(Stop)
    BY <2>1, Joined DEF Unbind
  <2>. QED BY <2>1, <2>2
<1>3. PICK n \in 1..5 : /\ Skip(o, n, None)
                        /\ n \in {1, 2} \/ (n = 3 /\ Len(q) > 5) \/ (n = 5 /\ ~(Len(q) > 5))
  BY <1>2 DEF DropBot, Rebinding
<1>4. n \in 1..Len(q) /\ (n < Len(q) => q[n + 1] \notin Late)
  <2> HIDE DEF q
  <2>1. CASE n = 1
    BY <1>1, <2>1
  <2>2. CASE n = 2
    BY <1>1, <2>2
  <2>3. CASE n = 3 /\ Len(q) > 5
    BY <1>1, <2>3
  <2>4. CASE n = 5 /\ ~(Len(q) > 5)
    BY <1>1, <2>4
  <2>. QED BY <1>3, <2>1, <2>2, <2>3, <2>4
<1>5. UNCHANGED <<started, made, singleton, overlap>>
  BY <1>1 DEF inst, history
<1> HIDE DEF q
<1>6. OpsOK' /\ OneRuns'
  BY <1>3, <1>4, <1>5, GoesOn DEF q, IInv, OneRuns
<1>7. /\ ConfigOK' /\ singleton' \in 1..made \cup {None} /\ config' \in Bots \cup {None}
      /\ created' \in 0..MaxBots /\ created <= created' /\ alive' \subseteq 1..created'
      /\ \A b \in 1..created : b \notin alive => b \notin alive'
  BY <1>1, BridgeAssumption DEF IInv, TypeOK, ConfigOK
<1>. QED BY <1>1, <1>6, <1>7, BotsChange

\* The bot's token is thrown away.
LEMMA ClearConfigKeeps == ASSUME IInv, NEW o \in Ops, ClearConfig(o) PROVE IInv'
<1> DEFINE q == op[o].todo
<1>1. /\ ~Idle(o) /\ Len(q) \in Nat /\ Len(q) >= 1 /\ (1 < Len(q) => q[2] \notin Late)
      /\ Skip(o, 1, None) /\ config' = None
      /\ UNCHANGED <<created, alive, singleton, made, inst, tails, sock, clearing, history>>
  BY WhereItStands DEF ClearConfig, At
<1>2. UNCHANGED <<started, made, singleton, overlap>>
  BY <1>1 DEF inst, history
<1>3. 1 \in 1..Len(q) /\ (1 < Len(q) => q[1 + 1] \notin Late)
  BY <1>1
<1> HIDE DEF q
<1>4. OpsOK' /\ OneRuns'
  BY <1>1, <1>2, <1>3, GoesOn DEF q, IInv, OneRuns
<1>5. /\ ConfigOK' /\ singleton' \in 1..made \cup {None} /\ config' \in Bots \cup {None}
      /\ created' \in 0..MaxBots /\ created <= created' /\ alive' \subseteq 1..created'
      /\ \A b \in 1..created : b \notin alive => b \notin alive'
  BY <1>1, BridgeAssumption DEF IInv, TypeOK, ConfigOK
<1>. QED BY <1>1, <1>4, <1>5, BotsChange

\* A new bot is saved: its number is that of no earlier one.
LEMMA SaveConfigKeeps == ASSUME IInv, NEW o \in Ops, SaveConfig(o) PROVE IInv'
<1> DEFINE q == op[o].todo
<1>1. /\ ~Idle(o) /\ Len(q) \in Nat /\ Len(q) >= 1 /\ (1 < Len(q) => q[2] \notin Late)
      /\ Skip(o, 1, None)
      /\ UNCHANGED <<singleton, made, inst, tails, sock, clearing, history>>
  BY WhereItStands DEF SaveConfig, At
<1>2. UNCHANGED <<started, made, singleton, overlap>>
  BY <1>1 DEF inst, history
<1>3. 1 \in 1..Len(q) /\ (1 < Len(q) => q[1 + 1] \notin Late)
  BY <1>1
<1> HIDE DEF q
<1>4. OpsOK' /\ OneRuns'
  BY <1>1, <1>2, <1>3, GoesOn DEF q, IInv, OneRuns
<1>5. \/ created < MaxBots /\ created' = created + 1 /\ config' = created' /\ alive' = alive \cup {created'}
      \/ UNCHANGED <<config, created, alive>>
  BY DEF SaveConfig, env
<1>6. /\ ConfigOK' /\ singleton' \in 1..made \cup {None} /\ config' \in Bots \cup {None}
      /\ created' \in 0..MaxBots /\ created <= created' /\ alive' \subseteq 1..created'
      /\ \A b \in 1..created : b \notin alive => b \notin alive'
  <2>1. /\ singleton' \in 1..made \cup {None} /\ config \in Bots \cup {None}
        /\ created \in 0..MaxBots /\ created \in Nat /\ MaxBots \in Nat /\ alive \subseteq 1..created
    BY <1>1, BridgeAssumption DEF IInv, TypeOK
  <2>2. CASE created < MaxBots /\ created' = created + 1 /\ config' = created' /\ alive' = alive \cup {created'}
    BY <2>1, <2>2 DEF ConfigOK, Bots
  <2>3. CASE UNCHANGED <<config, created, alive>>
    BY <2>1, <2>3 DEF IInv, ConfigOK
  <2>. QED BY <1>5, <2>1, <2>2, <2>3
<1>. QED BY <1>1, <1>4, <1>6, BotsChange

\* The user unbinds a bot.
LEMMA UnbindByUserKeeps == ASSUME IInv, NEW b \in Bots, UnbindByUser(b) PROVE IInv'
<1>1. /\ alive' \subseteq alive
      /\ UNCHANGED <<config, created, singleton, made, inst, tails, sock, clearing, op, history>>
  BY DEF UnbindByUser
<1>2. OpsOK' /\ OneRuns'
  BY <1>1, MethodsKeep DEF inst, history
<1>3. /\ ConfigOK' /\ singleton' \in 1..made \cup {None} /\ config' \in Bots \cup {None}
      /\ created' \in 0..MaxBots /\ created <= created' /\ alive' \subseteq 1..created'
      /\ \A c \in 1..created : c \notin alive => c \notin alive'
  <2>1. /\ singleton \in 1..made \cup {None} /\ config \in Bots \cup {None}
        /\ created \in 0..MaxBots /\ created \in Nat /\ alive \subseteq 1..created
    BY <1>1, BridgeAssumption DEF IInv, TypeOK
  <2>. QED BY <1>1, <2>1 DEF IInv, ConfigOK
<1>. QED BY <1>1, <1>2, <1>3, BotsChange

-----------------------------------------------------------------------------
(* Every step *)

\* Nothing happens.
LEMMA StutterKeeps == ASSUME IInv, UNCHANGED vars PROVE IInv'
<1>1. UNCHANGED <<config, created, alive, singleton, made, started, phase, ws, reconnectTimer,
                  connectTimer, hb, intentional, tails, sock, clearing, op, rpcs, fails, overlap>>
  BY DEF vars, env, inst, timers, history
<1>2. TypeOK'
  BY <1>1 DEF IInv, TypeOK
<1>3. OpsOK' /\ OneRuns'
  BY <1>1, MethodsKeep
<1>4. InstsOK' /\ SocksOK' /\ TailsOK' /\ ClearingOK' /\ ConfigOK'
  BY <1>1 DEF IInv, InstsOK, InstOK, SocksOK, SockOK, TailsOK, ClearingOK, ConfigOK, Gone
<1>. QED BY <1>2, <1>3, <1>4 DEF IInv

\* Every step keeps the invariant.
LEMMA StepKeeps == IInv /\ [Next]_vars => IInv'
<1> SUFFICES ASSUME IInv, [Next]_vars PROVE IInv'
  OBVIOUS
<1>1. CASE UNCHANGED vars
  BY <1>1, StutterKeeps
<1>2. ASSUME NEW i \in Insts,
             \/ Preloaded(i) \/ Reconnect(i) \/ SkipConnect(i) \/ ReadFails(i)
             \/ ConnectTimeout(i) \/ HeartbeatLost(i)
      PROVE  IInv'
  BY <1>2, PreloadedKeeps, ReconnectKeeps, SkipConnectKeeps, ReadFailsKeeps, ConnectTimeoutKeeps,
     HeartbeatLostKeeps
<1>3. ASSUME NEW i \in Insts, NEW s \in Socks, Connect(i, s) PROVE IInv'
  BY <1>3, ConnectKeeps
<1>4. ASSUME NEW s \in Socks, Opened(s) \/ Failed(s) \/ Message(s) \/ Unbound(s) PROVE IInv'
  BY <1>4, OpenedKeeps, FailedKeeps, MessageKeeps, UnboundKeeps
<1>5. ASSUME NEW s \in Socks, NEW code \in Codes, CloseEvent(s, code) PROVE IInv'
  BY <1>5, CloseEventKeeps
<1>6. ASSUME NEW t \in tails, CloseTail(t) PROVE IInv'
  BY <1>6, CloseTailKeeps
<1>7. ASSUME NEW t \in clearing, ClearRead(t) \/ ClearWrite(t) \/ ClearFails(t) PROVE IInv'
  BY <1>7, ClearReadKeeps, ClearWriteKeeps, ClearFailsKeeps
<1>8. ASSUME NEW o \in Ops, NEW method \in DOMAIN Method, Start(o, method) PROVE IInv'
  BY <1>8, StartKeeps
<1>9. ASSUME NEW o \in Ops,
             \/ StopInstance(o) \/ StopSocket(o) \/ Stopped(o) \/ NewInstance(o)
             \/ DropBot(o) \/ ClearConfig(o) \/ SaveConfig(o)
      PROVE  IInv'
  BY <1>9, StopInstanceKeeps, StopSocketKeeps, StoppedKeeps, NewInstanceKeeps,
     DropBotKeeps, ClearConfigKeeps, SaveConfigKeeps
<1>10. ASSUME NEW b \in Bots, UnbindByUser(b) PROVE IInv'
  BY <1>10, UnbindByUserKeeps
<1>. QED BY <1>1, <1>2, <1>3, <1>4, <1>5, <1>6, <1>7, <1>8, <1>9, <1>10 DEF Next

\* What is true in every reachable state of a bridge.
THEOREM Invariance == Spec => []IInv
  BY InitHolds, StepKeeps, PTL DEF Spec

\* As long as RPC methods have not overlapped, only the singleton runs: never two
\* bridges to the server, and never one that no stop() can reach.
THEOREM OneAtATime == Spec => []OneBridge
<1>1. IInv => OneBridge
  BY DEF IInv, OneBridge, OneRuns
<1>. QED BY <1>1, Invariance, PTL

-----------------------------------------------------------------------------
(* What a step may never do *)

\* The steps one at a time, for a property of each.
LEMMA Cases ==
  ASSUME NEW P, [Next]_vars,
         UNCHANGED vars => P,
         \A i \in Insts : Preloaded(i) \/ Reconnect(i) \/ SkipConnect(i) \/ ReadFails(i) => P,
         \A i \in Insts : ConnectTimeout(i) \/ HeartbeatLost(i) => P,
         \A i \in Insts, s \in Socks : Connect(i, s) => P,
         \A s \in Socks : Opened(s) \/ Failed(s) \/ Message(s) \/ Unbound(s) => P,
         \A s \in Socks, code \in Codes : CloseEvent(s, code) => P,
         \A t \in tails : CloseTail(t) => P,
         \A t \in clearing : ClearRead(t) \/ ClearWrite(t) \/ ClearFails(t) => P,
         \A o \in Ops, method \in DOMAIN Method : Start(o, method) => P,
         \A o \in Ops : StopInstance(o) \/ StopSocket(o) => P,
         \A o \in Ops : NewInstance(o) => P,
         \A o \in Ops : Stopped(o) \/ DropBot(o) \/ ClearConfig(o) \/ SaveConfig(o) => P,
         \A b \in Bots : UnbindByUser(b) => P
  PROVE  P
  BY DEF Next

\* The steps that leave the bridges and their sockets alone.
LEMMA BridgesAlone ==
  ASSUME \/ UNCHANGED vars
         \/ \E o \in Ops, method \in DOMAIN Method : Start(o, method)
         \/ \E o \in Ops : Stopped(o) \/ DropBot(o) \/ ClearConfig(o) \/ SaveConfig(o)
         \/ \E b \in Bots : UnbindByUser(b)
  PROVE  UNCHANGED <<made, started, phase, ws, reconnectTimer, connectTimer, hb, intentional,
                     tails, sock, clearing>>
  BY DEF vars, inst, timers, Start, Stopped, DropBot, ClearConfig, SaveConfig, UnbindByUser

\* A bridge that has been stopped, awaits no config and has no socket stays so.
THEOREM StoppedForGood == Spec => StaysStopped
<1>1. ASSUME IInv, [Next]_vars, NEW i \in Insts, Dead(i) PROVE Dead(i)'
  <2>0. /\ i <= made /\ ~started[i] /\ phase[i] # "read" /\ ws[i] = None /\ made \in Nat /\ i \in Nat
        /\ started \in [Insts -> BOOLEAN] /\ ws \in [Insts -> Socks \cup {None}]
        /\ phase \in [Insts -> {"new", "preload", "read", "ready"}]
        /\ \A s \in Socks : sock[s] # None => sock[s].inst \in Insts
    BY <1>1, MadeAreInsts DEF IInv, Dead, TypeOK, Insts, Sock
  <2>1. ASSUME UNCHANGED <<made, started, phase, ws>> PROVE Dead(i)'
    BY <2>0, <2>1 DEF Dead
  <2>2. ASSUME \/ UNCHANGED vars
               \/ \E o \in Ops, method \in DOMAIN Method : Start(o, method)
               \/ \E o \in Ops : Stopped(o) \/ DropBot(o) \/ ClearConfig(o) \/ SaveConfig(o)
               \/ \E b \in Bots : UnbindByUser(b)
        PROVE  Dead(i)'
    <3>1. UNCHANGED <<made, started, phase, ws>>
      BY <2>2, BridgesAlone, Zenon
    <3>. QED BY <2>1, <3>1
  <2>3. ASSUME NEW j \in Insts, Preloaded(j) \/ Reconnect(j) \/ SkipConnect(j) \/ ReadFails(j) PROVE Dead(i)'
    BY <2>0, <2>3 DEF Preloaded, Reconnect, SkipConnect, ReadFails, MayConnect, timers, Dead
  <2>4. ASSUME NEW j \in Insts, ConnectTimeout(j) \/ HeartbeatLost(j) PROVE Dead(i)'
    BY <2>0, <2>4 DEF ConnectTimeout, HeartbeatLost, Dead
  <2>5. ASSUME NEW j \in Insts, NEW s \in Socks, Connect(j, s) PROVE Dead(i)'
    BY <2>0, <2>5 DEF Connect, Dead
  <2>6. ASSUME NEW s \in Socks, Opened(s) \/ Failed(s) \/ Message(s) \/ Unbound(s) PROVE Dead(i)'
    BY <2>0, <2>6 DEF Opened, Failed, Message, Unbound, Dead
  <2>7. ASSUME NEW s \in Socks, NEW code \in Codes, CloseEvent(s, code) PROVE Dead(i)'
    BY <2>0, <2>7 DEF CloseEvent, Dead
  <2>8. ASSUME NEW t \in tails, CloseTail(t) PROVE Dead(i)'
    BY <2>1, <2>8 DEF CloseTail
  <2>9. ASSUME NEW t \in clearing, ClearRead(t) \/ ClearWrite(t) \/ ClearFails(t) PROVE Dead(i)'
    BY <2>1, <2>9 DEF ClearRead, ClearWrite, ClearFails, inst
  <2>10. ASSUME NEW o \in Ops, StopInstance(o) \/ StopSocket(o) PROVE Dead(i)'
    BY <2>0, <2>10 DEF StopInstance, NotStarted, StopSocket, Dead
  <2>11. ASSUME NEW o \in Ops, NewInstance(o) PROVE Dead(i)'
    BY <2>0, <2>11 DEF NewInstance, Dead
  <2>. QED BY <1>1, <2>2, <2>3, <2>4, <2>5, <2>6, <2>7, <2>8, <2>9, <2>10, <2>11, Cases
<1>2. IInv /\ [Next]_vars => [\A i \in Insts : Dead(i) => Dead(i)']_vars
  BY <1>1
<1>. QED BY <1>2, Invariance, PTL DEF Spec, StaysStopped

\* The token that is thrown away is that of a bot that is gone: what a bridge
\* heard on a connection of that bot.
THEOREM OwnTokenStays == Spec => OwnTokenKept
<1>1. IInv => [\A t \in clearing :
                (t \notin clearing' /\ t.step = "write" /\ config \in alive) => t.bot # config]_vars
  BY DEF IInv, ClearingOK, Gone
<1>. QED BY <1>1, Invariance, PTL DEF OwnTokenKept

\* A running bridge watches its socket until an older socket of its own, still to
\* be closed, has its event.
THEOREM WatchedUntilThen == Spec => WatchEndsByOldSocket
<1> DEFINE Old(i) == \E s \in Socks \ {ws[i]} : /\ Is(s, {"connecting", "open", "closing"})
                                               /\ sock[s].inst = i /\ sock'[s] = None
<1>1. ASSUME IInv, [Next]_vars, NEW i \in Insts, Watched(i), ws'[i] # None, started'[i], ~Watched(i)'
      PROVE  Old(i)
  <2> DEFINE w == ws[i]
  <2>0. /\ w \in Socks /\ sock[w] # None /\ sock[w].inst = i /\ ~intentional[i] /\ phase[i] # "read"
        /\ Is(w, {"connecting"}) => connectTimer[i] = w
        /\ Is(w, {"open"}) => hb[i] = w
        /\ sock \in [Socks -> Sock \cup {None}] /\ None \notin Socks
        /\ ws \in [Insts -> Socks \cup {None}] /\ hb \in [Insts -> Socks \cup {None}]
        /\ connectTimer \in [Insts -> Socks \cup {None}] /\ started \in [Insts -> BOOLEAN]
    BY <1>1, BridgeAssumption DEF IInv, TypeOK, Watched, InstsOK, InstOK
  <2>1. /\ \A s \in Socks : /\ sock[s] # None => sock[s] \in Sock /\ sock[s].inst \in Insts
                            /\ Is(s, {"connecting", "open"}) => ws[sock[s].inst] = s
        /\ \A j \in Insts : /\ ws[j] # None => sock[ws[j]] # None /\ sock[ws[j]].inst = j
                            /\ hb[j] # None => sock[hb[j]] # None /\ sock[hb[j]].inst = j
    BY <1>1, <2>0 DEF IInv, Sock, InstsOK, InstOK, SocksOK, SockOK, Is
  <2> HIDE DEF w, Old
  <2>2. ASSUME ws'[i] = w, sock'[w] = sock[w], connectTimer'[i] = connectTimer[i], hb'[i] = hb[i]
        PROVE  FALSE
    BY <1>1, <2>0, <2>2 DEF Watched, Is, w
  <2>3. ASSUME ws'[i] = w, sock'[w].state = "closing" PROVE FALSE
    BY <1>1, <2>0, <2>3 DEF Watched, Is, w
  <2>4. ASSUME \/ UNCHANGED vars
               \/ \E o \in Ops, method \in DOMAIN Method : Start(o, method)
               \/ \E o \in Ops : Stopped(o) \/ DropBot(o) \/ ClearConfig(o) \/ SaveConfig(o)
               \/ \E b \in Bots : UnbindByUser(b)
        PROVE  FALSE
    <3>1. UNCHANGED <<ws, sock, connectTimer, hb>>
      BY <2>4, BridgesAlone, Zenon
    <3>. QED BY <2>2, <3>1 DEF w
  <2>5. ASSUME NEW j \in Insts, Preloaded(j) \/ Reconnect(j) \/ SkipConnect(j) \/ ReadFails(j) PROVE FALSE
    BY <2>2, <2>5 DEF Preloaded, Reconnect, SkipConnect, ReadFails, timers, w
  <2>6. ASSUME NEW j \in Insts, ConnectTimeout(j) PROVE FALSE
    <3> DEFINE s == connectTimer[j]
    <3>1. CASE ws[j] # s \/ intentional[j]
      <4>1. ws' = ws /\ sock' = sock /\ hb' = hb /\ connectTimer' = [connectTimer EXCEPT ![j] = None]
        BY <2>6, <3>1 DEF ConnectTimeout
      <4>2. CASE j # i
        BY <2>0, <2>2, <4>1, <4>2 DEF w
      <4>3. CASE j = i
        <5>1. ~Is(w, {"connecting"})
          BY <2>0, <3>1, <4>3 DEF w
        <5>. QED BY <1>1, <2>0, <4>1, <4>3, <5>1 DEF Watched, Is, w
      <4>. QED BY <4>2, <4>3
    <3>2. CASE ~(ws[j] # s \/ intentional[j])
      <4>1. /\ ws' = [ws EXCEPT ![j] = None] /\ hb' = hb /\ s # None
            /\ connectTimer' = [connectTimer EXCEPT ![j] = None]
            /\ sock' = IF ~Is(s, {"closing"}) THEN CloseLocally(s, "other") ELSE sock
        BY <2>6, <3>2 DEF ConnectTimeout
      <4>2. j # i
        BY <1>1, <2>0, <4>1
      <4>3. s # w
        BY <2>0, <2>1, <3>2, <4>1, <4>2
      <4>4. sock'[w] = sock[w]
        BY <2>0, <4>1, <4>3 DEF CloseLocally
      <4>. QED BY <2>0, <2>2, <4>1, <4>2, <4>4 DEF w
    <3>. QED BY <3>1, <3>2
  <2>7. ASSUME NEW j \in Insts, HeartbeatLost(j) PROVE FALSE
    <3>1. /\ ws' = ws /\ connectTimer' = connectTimer /\ hb' = [hb EXCEPT ![j] = None]
          /\ hb[j] # None /\ Is(hb[j], {"open"}) /\ sock' = CloseLocally(hb[j], "other")
      BY <2>7 DEF HeartbeatLost
    <3>2. hb[j] \in Socks /\ sock[hb[j]].inst = j /\ ws[j] = hb[j]
      BY <2>0, <2>1, <3>1 DEF Is
    <3>3. CASE j = i
      <4>1. hb[j] = w /\ sock'[w].state = "closing"
        <5>1. hb[j] = w /\ sock[w] # None
          BY <2>0, <3>2, <3>3 DEF w
        <5>2. sock' = CloseLocally(w, "other") /\ "other" \in Codes
          BY <3>1, <5>1 DEF Codes
        <5>. QED BY <1>1, <2>0, <5>1, <5>2, ClosesLocally DEF IInv
      <4>. QED BY <2>3, <3>1, <4>1 DEF w
    <3>4. CASE j # i
      <4>1. hb[j] # w
        BY <2>0, <3>2, <3>4
      <4>2. sock'[w] = sock[w]
        BY <2>0, <3>1, <4>1 DEF CloseLocally
      <4>. QED BY <2>0, <2>2, <3>1, <3>4, <4>2 DEF w
    <3>. QED BY <3>3, <3>4
  <2>8. ASSUME NEW j \in Insts, NEW s \in Socks, Connect(j, s) PROVE FALSE
    <3>1. j # i /\ s # w
      BY <2>0, <2>8 DEF Connect
    <3>. QED BY <2>0, <2>2, <2>8, <3>1 DEF Connect, w
  <2>9. ASSUME NEW s \in Socks, Opened(s) PROVE FALSE
    <3>1. /\ Is(s, {"connecting"}) /\ sock' = [sock EXCEPT ![s].state = "open"] /\ ws' = ws
          /\ connectTimer' = [connectTimer EXCEPT ![sock[s].inst] = None]
          /\ hb' = [hb EXCEPT ![sock[s].inst] = s]
      BY <2>9 DEF Opened, Watch
    <3>2. sock[s] # None /\ sock[s] \in Sock /\ sock[s].inst \in Insts /\ ws[sock[s].inst] = s
      BY <2>1, <3>1 DEF Is
    <3>3. CASE sock[s].inst = i
      <4>1. s = w
        BY <3>2, <3>3 DEF w
      <4>2. hb'[i] = w /\ sock'[w].state = "open"
        BY <2>0, <3>1, <3>2, <3>3, <4>1 DEF Sock
      <4>. QED BY <1>1, <2>0, <3>1, <4>2 DEF Watched, Is, w
    <3>4. CASE sock[s].inst # i
      <4>1. s # w
        BY <2>0, <3>4
      <4>. QED BY <2>0, <2>2, <3>1, <3>2, <3>4, <4>1 DEF w
    <3>. QED BY <3>3, <3>4
  <2>10. ASSUME NEW s \in Socks, Failed(s) PROVE FALSE
    <3>1. /\ Is(s, {"connecting", "open"}) /\ ws' = [ws EXCEPT ![sock[s].inst] = None]
          /\ hb' = [hb EXCEPT ![sock[s].inst] = None] /\ sock' = CloseLocally(s, "other")
          /\ connectTimer' = [connectTimer EXCEPT ![sock[s].inst] = None]
      BY <2>10 DEF Failed
    <3>2. sock[s].inst \in Insts /\ sock[s].inst # i
      BY <1>1, <2>0, <2>1, <3>1 DEF Is
    <3>3. s # w
      BY <2>0, <3>2
    <3>4. sock'[w] = sock[w]
      BY <2>0, <3>1, <3>3 DEF CloseLocally
    <3>. QED BY <2>0, <2>2, <3>1, <3>2, <3>4 DEF w
  <2>11. ASSUME NEW s \in Socks, Message(s) \/ Unbound(s) PROVE FALSE
    <3>1. /\ Is(s, {"open"}) /\ UNCHANGED <<ws, connectTimer, sock>>
          /\ hb' = [hb EXCEPT ![sock[s].inst] = s]
      BY <2>11 DEF Message, Unbound, Watch
    <3>2. sock[s].inst \in Insts /\ ws[sock[s].inst] = s
      BY <2>1, <3>1 DEF Is
    <3>3. CASE sock[s].inst = i
      BY <1>1, <2>0, <3>1, <3>2, <3>3 DEF Watched, Is, w
    <3>4. CASE sock[s].inst # i
      BY <2>0, <2>2, <3>1, <3>2, <3>4 DEF w
    <3>. QED BY <3>3, <3>4
  <2>12. ASSUME NEW s \in Socks, NEW code \in Codes, CloseEvent(s, code) PROVE Old(i)
    <3> DEFINE j == sock[s].inst
    <3>1. /\ sock[s] # None /\ sock' = [sock EXCEPT ![s] = None] /\ hb' = [hb EXCEPT ![j] = None]
          /\ connectTimer' = [connectTimer EXCEPT ![j] = None]
          /\ ws[j] \in {None, s} => ws' = [ws EXCEPT ![j] = None]
          /\ ws[j] \notin {None, s} => ws' = ws
      BY <2>12 DEF CloseEvent
    <3>2. sock[s] \in Sock /\ j \in Insts
      BY <2>1, <3>1
    <3> HIDE DEF j
    <3>3. CASE j # i
      <4>1. s # w
        BY <2>0, <3>3 DEF j
      <4>. QED BY <2>0, <2>2, <3>1, <3>2, <3>3, <4>1 DEF w
    <3>4. CASE j = i
      <4>1. s # w /\ sock'[s] = None
        BY <1>1, <2>0, <3>1, <3>2, <3>4 DEF w
      <4>2. Is(s, {"connecting", "open", "closing"})
        BY <3>1, <3>2 DEF Is, Sock
      <4>. QED BY <3>4, <4>1, <4>2 DEF Old, j, w
    <3>. QED BY <3>3, <3>4
  <2>13. ASSUME NEW t \in tails, CloseTail(t) PROVE FALSE
    BY <2>2, <2>13 DEF CloseTail, w
  <2>14. ASSUME NEW t \in clearing, ClearRead(t) \/ ClearWrite(t) \/ ClearFails(t) PROVE FALSE
    <3>1. /\ ws' = ws /\ connectTimer' = connectTimer /\ hb' = hb
          /\ ThenClose(t) \/ sock' = sock
      BY <2>14 DEF ClearRead, ClearWrite, ClearFails, inst, timers
    <3>2. CASE sock' = sock
      BY <2>2, <3>1, <3>2 DEF w
    <3>3. CASE sock' = CloseLocally(t.closes, "auth") /\ t.closes = w
      <4>1. sock'[w].state = "closing"
        <5>1. "auth" \in Codes /\ sock' = CloseLocally(w, "auth")
          BY <3>3 DEF Codes
        <5>. QED BY <1>1, <2>0, <5>1, ClosesLocally DEF IInv
      <4>. QED BY <2>3, <3>1, <4>1 DEF w
    <3>4. CASE sock' = CloseLocally(t.closes, "auth") /\ t.closes # w
      <4>1. sock'[w] = sock[w]
        BY <2>0, <3>4 DEF CloseLocally
      <4>. QED BY <2>2, <3>1, <4>1 DEF w
    <3>. QED BY <3>1, <3>2, <3>3, <3>4 DEF ThenClose
  <2>15. ASSUME NEW o \in Ops, StopInstance(o) \/ StopSocket(o) PROVE FALSE
    <3>1. CASE StopInstance(o)
      <4>1. /\ ws' = ws /\ sock' = sock /\ started' = [started EXCEPT ![singleton] = FALSE]
            /\ hb' = [hb EXCEPT ![singleton] = None]
            /\ connectTimer' = [connectTimer EXCEPT ![singleton] = None]
        BY <3>1 DEF StopInstance, NotStarted
      <4>. QED BY <1>1, <2>0, <2>2, <4>1 DEF w
    <3>2. CASE StopSocket(o)
      <4> DEFINE j == op[o].on
                 s == ws[j]
      <4>1. /\ ws' = [ws EXCEPT ![j] = None] /\ hb' = hb /\ connectTimer' = connectTimer
            /\ sock' = IF s # None /\ Is(s, {"connecting", "open"}) THEN CloseLocally(s, "other") ELSE sock
            /\ At(o, "stop2")
        BY <3>2 DEF StopSocket, timers
      <4>2. j \in Insts /\ j # i
        <5>1. j \in Insts
          BY <1>1, <4>1, MadeAreInsts DEF IInv, OpsOK
        <5>. QED BY <1>1, <2>0, <4>1, <5>1
      <4>3. s # w
        BY <2>0, <2>1, <4>2
      <4>4. sock'[w] = sock[w]
        BY <2>0, <4>1, <4>3 DEF CloseLocally
      <4>. QED BY <2>0, <2>2, <4>1, <4>2, <4>4 DEF w
    <3>. QED BY <2>15, <3>1, <3>2
  <2>16. ASSUME NEW o \in Ops, NewInstance(o) PROVE FALSE
    BY <2>2, <2>16 DEF NewInstance, timers, w
  <2>. QED BY <1>1, <2>4, <2>5, <2>6, <2>7, <2>8, <2>9, <2>10, <2>11, <2>12, <2>13, <2>14, <2>15, <2>16, Cases
<1> HIDE DEF Old
<1>2. IInv /\ [Next]_vars =>
        [\A i \in Insts :
            (Watched(i) /\ ws'[i] # None /\ started'[i] /\ ~Watched(i)')
                => \E s \in Socks \ {ws[i]} : Is(s, {"connecting", "open", "closing"})
                                              /\ sock[s].inst = i /\ sock'[s] = None]_vars
  <2>1. \A i : Old(i) => \E s \in Socks \ {ws[i]} : Is(s, {"connecting", "open", "closing"})
                                                  /\ sock[s].inst = i /\ sock'[s] = None
    BY DEF Old
  <2>. QED BY <1>1, <2>1
<1>. QED BY <1>2, Invariance, PTL DEF Spec, WatchEndsByOldSocket

\* The plugin as it is checked is a bridge, whatever else it does.
THEOREM PluginIsABridge == PluginSpec => Spec
<1>1. PluginInit => Init
  BY DEF PluginInit
<1>2. [PluginNext]_allVars => [Next]_vars
  BY DEF PluginNext, allVars
<1>. QED BY <1>1, <1>2, PTL DEF PluginSpec, Spec

\* A running bridge without a connection is about to try again: it falls idle only
\* when it finds no token, cannot read the config, or has been turned away.
THEOREM TriesAgain == Spec => NeverIdle
<1>1. ASSUME IInv, [Next]_vars, NEW i \in Insts, ~Stuck(i), Stuck(i)'
      PROVE  NoToken(i) \/ TurnedAway \/ ReadFails(i)
  <2> DEFINE Why == NoToken(i) \/ TurnedAway \/ ReadFails(i)
  <2>0. /\ started'[i] /\ ws'[i] = None /\ phase'[i] = "ready" /\ ~reconnectTimer'[i]
        /\ \A t \in tails' : t.inst # i
        /\ started \in [Insts -> BOOLEAN] /\ ws \in [Insts -> Socks \cup {None}]
        /\ phase \in [Insts -> {"new", "preload", "read", "ready"}]
        /\ reconnectTimer \in [Insts -> BOOLEAN]
        /\ None \notin Socks
        /\ \A s \in Socks : sock[s] # None => sock[s] \in Sock /\ sock[s].inst \in Insts
    BY <1>1, BridgeAssumption DEF Stuck, IInv, TypeOK, Sock
  <2> HIDE DEF Why
  <2>1. ASSUME started[i], ws[i] = None, phase[i] = "ready", ~reconnectTimer[i],
               \A t \in tails : t.inst # i
        PROVE  FALSE
    BY <1>1, <2>1 DEF Stuck
  <2>2. ASSUME \/ UNCHANGED vars
               \/ \E o \in Ops, method \in DOMAIN Method : Start(o, method)
               \/ \E o \in Ops : Stopped(o) \/ DropBot(o) \/ ClearConfig(o) \/ SaveConfig(o)
               \/ \E b \in Bots : UnbindByUser(b)
        PROVE  FALSE
    <3>1. UNCHANGED <<started, ws, phase, reconnectTimer, tails>>
      BY <2>2, BridgesAlone, Zenon
    <3>. QED BY <2>0, <2>1, <3>1
  <2>3. ASSUME NEW j \in Insts, Preloaded(j) \/ Reconnect(j) \/ SkipConnect(j) \/ ReadFails(j) PROVE Why
    BY <2>0, <2>1, <2>3 DEF Preloaded, Reconnect, SkipConnect, ReadFails, MayConnect, HasToken, NoToken, timers, Why
  <2>4. ASSUME NEW j \in Insts, ConnectTimeout(j) \/ HeartbeatLost(j) PROVE FALSE
    BY <2>0, <2>1, <2>4 DEF ConnectTimeout, HeartbeatLost, ScheduleReconnect
  <2>5. ASSUME NEW j \in Insts, NEW s \in Socks, Connect(j, s) PROVE FALSE
    BY <2>0, <2>1, <2>5 DEF Connect
  <2>6. ASSUME NEW s \in Socks, Opened(s) \/ Failed(s) \/ Message(s) \/ Unbound(s) PROVE FALSE
    <3>1. CASE Failed(s)
      <4>1. sock[s].inst \in Insts
        BY <2>0, <3>1 DEF Failed, Is
      <4>. QED BY <2>0, <2>1, <3>1, <4>1 DEF Failed, ScheduleReconnect
    <3>2. CASE Opened(s) \/ Message(s) \/ Unbound(s)
      BY <2>0, <2>1, <3>2 DEF Opened, Message, Unbound
    <3>. QED BY <2>6, <3>1, <3>2
  <2>7. ASSUME NEW s \in Socks, NEW code \in Codes, CloseEvent(s, code) PROVE FALSE
    <3> DEFINE j == sock[s].inst
               t == [inst |-> j, code |-> code, intentional |-> intentional[j], bot |-> sock[s].bot]
    <3>1. /\ j \in Insts /\ UNCHANGED <<started, phase, reconnectTimer>>
          /\ \/ ws[j] \notin {None, s} /\ ws' = ws /\ tails' = tails
             \/ ws' = [ws EXCEPT ![j] = None] /\ tails' = tails \cup {t}
      BY <2>0, <2>7 DEF CloseEvent
    <3>2. t.inst = j
      OBVIOUS
    <3> HIDE DEF j, t
    <3>. QED BY <2>0, <2>1, <3>1, <3>2
  <2>8. ASSUME NEW t \in tails, CloseTail(t) PROVE Why
    <3>1. /\ UNCHANGED <<started, ws, phase>> /\ tails' = tails \ {t}
          /\ t.inst \in Insts /\ (t.intentional => ~started[t.inst])
      BY <1>1, <2>8 DEF CloseTail, IInv, TypeOK, Pending, TailsOK
    <3>2. CASE t.code = "auth"
      BY <3>1, <3>2 DEF TurnedAway, Why
    <3>3. CASE t.code # "auth"
      <4>1. IF t.intentional THEN UNCHANGED reconnectTimer ELSE ScheduleReconnect(t.inst)
        BY <2>8, <3>3 DEF CloseTail, AuthClose
      <4>2. t.inst # i
        BY <2>0, <3>1, <4>1 DEF ScheduleReconnect
      <4>3. reconnectTimer'[i] = reconnectTimer[i]
        BY <2>0, <4>1, <4>2 DEF ScheduleReconnect
      <4>. QED BY <2>0, <2>1, <3>1, <4>2, <4>3
    <3>. QED BY <3>2, <3>3
  <2>9. ASSUME NEW t \in clearing, ClearRead(t) \/ ClearWrite(t) \/ ClearFails(t) PROVE FALSE
    BY <2>0, <2>1, <2>9 DEF ClearRead, ClearWrite, ClearFails, inst, timers
  <2>10. ASSUME NEW o \in Ops, StopInstance(o) \/ StopSocket(o) PROVE FALSE
    <3>1. CASE StopInstance(o)
      BY <2>0, <2>1, <3>1 DEF StopInstance, NotStarted
    <3>2. CASE StopSocket(o)
      <4>1. /\ ws' = [ws EXCEPT ![op[o].on] = None] /\ UNCHANGED <<started, phase, reconnectTimer, tails>>
            /\ At(o, "stop2")
        BY <3>2 DEF StopSocket, timers
      <4>2. op[o].on \in Insts /\ ~started[op[o].on]
        BY <1>1, <4>1, MadeAreInsts DEF IInv, OpsOK
      <4>. QED BY <2>0, <2>1, <4>1, <4>2
    <3>. QED BY <2>10, <3>1, <3>2
  <2>11. ASSUME NEW o \in Ops, NewInstance(o) PROVE FALSE
    BY <2>0, <2>1, <2>11 DEF NewInstance, timers
  <2>12. Why
    BY <1>1, <2>2, <2>3, <2>4, <2>5, <2>6, <2>7, <2>8, <2>9, <2>10, <2>11, Cases
  <2>. QED BY <2>12 DEF Why
<1>2. IInv /\ [Next]_vars =>
        [\A i \in Insts :
            (~Stuck(i) /\ Stuck(i)') => NoToken(i) \/ TurnedAway \/ ReadFails(i)]_vars
  BY <1>1
<1>. QED BY <1>2, Invariance, PTL DEF Spec, NeverIdle

-----------------------------------------------------------------------------
(* The automatic upgrade *)

\* As long as no check has gone on while a worker was at work, one worker is at
\* work, none while a check looks for a new version, and what is on disk follows
\* from the step of the worker.
Alone ==
    /\ \A v, w \in Upgrade!Workers : Upgrade!Alive(v) /\ Upgrade!Alive(w) => v = w
    /\ x5.step \in {"ask", "write"} => \A w \in Upgrade!Workers : ~Upgrade!Alive(w)
    /\ x5.step = "write" => x1 = x5.cur
OnDisk(w) ==
    /\ x6[w].step \in {"start", "backup", "update"} => x1 = x6[w].from
    /\ x6[w].step = "backup" => x2 = Upgrade!Missing
    /\ x6[w].step \in {"update", "updating", "verify", "restore", "restoring", "fallback", "uninstalled"}
           => x2 = x6[w].from
    /\ x6[w].step \in {"verify", "remove"} => x1 = x6[w].to
UpgradeInv ==
    /\ Upgrade!TypeOK /\ (x3 = Upgrade!Missing \/ Upgrade!Works(x3))
    /\ \A w \in Upgrade!Workers : Upgrade!Alive(w) => x6[w].to # Upgrade!Missing
    /\ ~x9 => Alone /\ \A w \in Upgrade!Workers : OnDisk(w)

LEMMA UpgradeInit == ASSUME Upgrade!Init PROVE UpgradeInv
<1> USE DEF Upgrade!Missing
<1>1. /\ x1 = 1 /\ x2 = 0 /\ x3 = 1 /\ x4 = 1 /\ x7 = 0 /\ x8 = {} /\ x9 = FALSE
      /\ x5 = [step |-> "idle", cur |-> 0, read |-> {}]
      /\ x6 = [w \in Upgrade!Workers |-> [step |-> "none", from |-> 0, to |-> 0, skip |-> FALSE, read |-> {}]]
  BY DEF Upgrade!Init, Upgrade!Idle, Upgrade!NotStarted
<1>2. 1 \in Upgrade!Versions /\ Upgrade!Works(1)
  BY PluginAssumption DEF Upgrade!Versions, Upgrade!Works
<1>3. Upgrade!TypeOK
  BY <1>1, <1>2 DEF Upgrade!TypeOK, Upgrade!Steps
<1>4. Alone /\ \A w \in Upgrade!Workers : OnDisk(w)
  BY <1>1 DEF Alone, OnDisk, Upgrade!Alive
<1>. QED BY <1>1, <1>2, <1>3, <1>4 DEF UpgradeInv, Upgrade!Alive

\* The scheduler, the gateway and npm.
LEMMA UpgradeCheck ==
  ASSUME UpgradeInv, Upgrade!CheckLock \/ Upgrade!CheckFails \/ Upgrade!ReadState
                     \/ Upgrade!WriteLock \/ Upgrade!GatewayRestarts \/ Upgrade!Publish
  PROVE  UpgradeInv' /\ Upgrade!KeepsPlugin
<1> USE DEF Upgrade!Missing
<1> DEFINE idle == [step |-> "idle", cur |-> 0, read |-> {}]
           ask == [step |-> "ask", cur |-> x5.cur, read |-> x5.read]
           write == [step |-> "write", cur |-> x1, read |-> x8]
           Check == [step : {"idle", "ask", "write", "lock"}, cur : Upgrade!Versions \cup {0},
                     read : SUBSET Upgrade!Versions]
<1>1. /\ x5 \in Check /\ x6 \in [Upgrade!Workers -> [step : Upgrade!Steps, from : Upgrade!Versions \cup {0},
                            to : Upgrade!Versions \cup {0}, skip : BOOLEAN, read : SUBSET Upgrade!Versions]]
      /\ x1 \in Upgrade!Versions \cup {0} /\ x2 \in Upgrade!Versions \cup {0} /\ x3 \in Upgrade!Versions \cup {0}
      /\ x4 \in Upgrade!Versions /\ x7 \in Upgrade!Workers \cup {0} /\ x8 \subseteq Upgrade!Versions /\ x9 \in BOOLEAN
  BY DEF UpgradeInv, Upgrade!TypeOK
<1>2. idle \in Check /\ ask \in Check /\ write \in Check
  BY <1>1
<1>3. /\ idle.step = "idle" /\ ask.step = "ask" /\ write.step = "write" /\ write.cur = x1
  OBVIOUS
<1> DEFINE nobody == \A w \in Upgrade!Workers : ~Upgrade!Alive(w)
<1>4. UNCHANGED <<x1, x2, x6, x8>>
  BY DEF Upgrade!CheckLock, Upgrade!CheckFails, Upgrade!ReadState, Upgrade!WriteLock, Upgrade!GatewayRestarts,
         Upgrade!Publish, Upgrade!disk
<1>5. /\ \/ x5' = x5 /\ x9' = x9
         \/ x5' = idle /\ x9' = x9
         \/ x5' = ask /\ x9' = (x9 \/ ~nobody)
         \/ x5' = write /\ x9' = x9 /\ x5.step = "ask"
      /\ x7' \in Upgrade!Workers \cup {0} /\ x4' \in Upgrade!Versions
      /\ x3' = x3 \/ x3' = 0 \/ Upgrade!Works(x3')
      /\ ~x9 /\ x9' => \A w \in Upgrade!Workers : Upgrade!Alive(w) => x7 # w
  <2> HIDE DEF Check
  <2>1. CASE Upgrade!CheckLock
    <3>1. x5' = ask
      BY <1>1, <2>1 DEF Upgrade!CheckLock, Check
    <3>. QED BY <1>1, <2>1, <3>1 DEF Upgrade!CheckLock, Upgrade!NotLocked
  <2>2. CASE Upgrade!CheckFails \/ Upgrade!GatewayRestarts
    BY <1>1, <2>2 DEF Upgrade!CheckFails, Upgrade!GatewayRestarts, Upgrade!Idle
  <2>3. CASE Upgrade!ReadState
    BY <1>1, <2>3 DEF Upgrade!ReadState
  <2>4. CASE Upgrade!WriteLock
    BY <1>1, <2>4 DEF Upgrade!WriteLock, Upgrade!Idle
  <2>5. CASE Upgrade!Publish
    BY <1>1, <2>5, PluginAssumption DEF Upgrade!Publish, Upgrade!Versions
  <2>. QED BY <2>1, <2>2, <2>3, <2>4, <2>5
<1> HIDE DEF idle, ask, write, Check, nobody
<1>6. Upgrade!TypeOK'
  <2>1. x5' \in Check /\ x9' \in BOOLEAN
    BY <1>1, <1>2, <1>5
  <2>2. x3' \in Upgrade!Versions \cup {0}
    BY <1>1, <1>5 DEF Upgrade!Works
  <2>. QED BY <1>1, <1>4, <1>5, <2>1, <2>2 DEF Upgrade!TypeOK, Check
<1>7. ASSUME ~x9' PROVE Alone' /\ \A w \in Upgrade!Workers : OnDisk(w)'
  <2>1. ~x9 /\ Alone /\ \A w \in Upgrade!Workers : OnDisk(w)
    BY <1>1, <1>5, <1>7 DEF UpgradeInv
  <2>2. \A w \in Upgrade!Workers : OnDisk(w)'
    BY <1>4, <2>1 DEF OnDisk
  <2>3. \A w \in Upgrade!Workers : Upgrade!Alive(w)' <=> Upgrade!Alive(w)
    BY <1>4 DEF Upgrade!Alive
  <2>4. Alone'
    BY <1>1, <1>3, <1>4, <1>5, <1>7, <2>1, <2>3 DEF Alone, nobody, Check
  <2>. QED BY <2>2, <2>4
<1>8. x3' = 0 \/ Upgrade!Works(x3')
  BY <1>5 DEF UpgradeInv
<1>9. UpgradeInv'
  BY <1>4, <1>6, <1>7, <1>8 DEF UpgradeInv, Upgrade!Alive, Upgrade!Works, Upgrade!Versions, Upgrade!Workers
<1>10. Upgrade!Kept' <=> Upgrade!Kept
  BY <1>4 DEF Upgrade!Kept, Upgrade!Works
<1>. QED BY <1>5, <1>9, <1>10 DEF Upgrade!KeepsPlugin

\* A step of a worker: what it does to the disk follows from what it has done, and
\* a plugin that works is given up only as KeepsPlugin says.
Work == [step : Upgrade!Steps, from : Upgrade!Versions \cup {0}, to : Upgrade!Versions \cup {0},
         skip : BOOLEAN, read : SUBSET Upgrade!Versions]
LEMMA WorkerGoes ==
  ASSUME UpgradeInv, NEW w \in Upgrade!Workers, Upgrade!Alive(w),
         x6' \in [Upgrade!Workers -> Work], \A v \in Upgrade!Workers \ {w} : x6'[v] = x6[v],
         x6'[w].step # x6[w].step,
         x1' \in Upgrade!Versions \cup {0}, x2' \in Upgrade!Versions \cup {0}, x8' \subseteq Upgrade!Versions,
         UNCHANGED <<x3, x4, x5, x7, x9>>,
         x6'[w].to = x6[w].to \/ ~Upgrade!Alive(w)',
         OnDisk(w) => OnDisk(w)',
         /\ OnDisk(w) /\ Upgrade!Works(x6[w].from) /\ Upgrade!Kept /\ ~Upgrade!Kept'
            => Upgrade!RemoveBackup(w) /\ x3 # x1
  PROVE  UpgradeInv' /\ Upgrade!KeepsPlugin
<1> USE DEF Upgrade!Missing
<1>1. Upgrade!TypeOK'
  BY DEF UpgradeInv, Upgrade!TypeOK, Work, Upgrade!Steps, Upgrade!Versions, Upgrade!Workers
<1>2. ASSUME ~x9' PROVE Alone' /\ \A v \in Upgrade!Workers : OnDisk(v)'
  <2>1. ~x9 /\ Alone /\ \A v \in Upgrade!Workers : OnDisk(v)
    BY <1>2 DEF UpgradeInv
  <2>2. \A v \in Upgrade!Workers \ {w} : ~Upgrade!Alive(v)
    BY <2>1 DEF Alone
  <2>3. \A v \in Upgrade!Workers \ {w} : ~Upgrade!Alive(v)' /\ OnDisk(v)'
    BY <2>2 DEF Upgrade!Alive, OnDisk
  <2>4. x5.step \notin {"ask", "write"}
    BY <2>1 DEF Alone
  <2>5. Alone'
    BY <2>3, <2>4 DEF Alone
  <2>. QED BY <2>1, <2>3, <2>5
<1>3. UpgradeInv'
  <2>1. \A v \in Upgrade!Workers : Upgrade!Alive(v)' => x6'[v].to # Upgrade!Missing
    BY DEF UpgradeInv, Upgrade!Alive
  <2>. QED BY <1>1, <1>2, <2>1 DEF UpgradeInv, Upgrade!Works, Upgrade!Versions, Upgrade!Workers
<1>4. ASSUME Upgrade!Kept, ~Upgrade!Kept', ~x9
      PROVE  \E v \in Upgrade!Workers :
                \/ Upgrade!Alive(v) /\ ~Upgrade!Works(x6[v].from) /\ x6'[v] # x6[v]
                \/ Upgrade!RemoveBackup(v) /\ x3 # x1
  <2>1. OnDisk(w)
    BY <1>4 DEF UpgradeInv
  <2>. QED BY <1>4, <2>1
<1>. QED BY <1>3, <1>4 DEF Upgrade!KeepsPlugin

\* Of the worker's step and versions.
LEMMA WorkerIs ==
  ASSUME UpgradeInv
  PROVE  /\ x6 \in [Upgrade!Workers -> Work] /\ x1 \in Upgrade!Versions \cup {0} /\ x2 \in Upgrade!Versions \cup {0}
         /\ x8 \subseteq Upgrade!Versions
         /\ \A w \in Upgrade!Workers :
              /\ x6[w].from \in Upgrade!Versions \cup {0} /\ x6[w].to \in Upgrade!Versions \cup {0}
              /\ Upgrade!Alive(w) => x6[w].to \in Upgrade!Versions
  BY DEF UpgradeInv, Upgrade!TypeOK, Upgrade!Missing, Work

\* A worker takes the record r.
Puts(w, r) == x6' = [x6 EXCEPT ![w] = r]
LEMMA WorkerPuts ==
  ASSUME UpgradeInv, NEW w \in Upgrade!Workers, NEW r \in Work, Puts(w, r)
  PROVE  /\ x6' \in [Upgrade!Workers -> Work] /\ \A v \in Upgrade!Workers \ {w} : x6'[v] = x6[v]
         /\ x6'[w] = r
  BY WorkerIs DEF Puts

LEMMA UpgradeBackup ==
  ASSUME UpgradeInv, NEW w \in Upgrade!Workers,
         Upgrade!RemoveOldBackup(w) \/ Upgrade!CreateBackup(w) \/ Upgrade!UpdateBegins(w)
  PROVE  UpgradeInv' /\ Upgrade!KeepsPlugin
<1> USE WorkerIs DEF Upgrade!Missing, Upgrade!Same, Upgrade!Goes, Upgrade!At, Work, Upgrade!Steps, Upgrade!Alive
<1>1. CASE Upgrade!RemoveOldBackup(w)
  <2>1. x6[w].step = "start" /\ x6'[w].step = "backup" /\ x6'[w].from = x6[w].from /\ x6'[w].to = x6[w].to /\ x1' = x1 /\ x2' = 0
    BY <1>1 DEF Upgrade!RemoveOldBackup
  <2>2. OnDisk(w) => OnDisk(w)' /\ (Upgrade!Works(x6[w].from) => Upgrade!Kept')
    BY <2>1 DEF OnDisk, Upgrade!Kept, Upgrade!Works
  <2>. QED BY <1>1, <2>1, <2>2, WorkerGoes DEF Upgrade!RemoveOldBackup
<1>2. CASE Upgrade!CreateBackup(w)
  <2>1. x6[w].step = "backup" /\ x6'[w].step = "update" /\ x6'[w].from = x6[w].from /\ x6'[w].to = x6[w].to /\ x1' = x1 /\ x2' = x1
    BY <1>2 DEF Upgrade!CreateBackup
  <2>2. OnDisk(w) => OnDisk(w)' /\ (Upgrade!Works(x6[w].from) => Upgrade!Kept')
    BY <2>1 DEF OnDisk, Upgrade!Kept, Upgrade!Works
  <2>. QED BY <1>2, <2>1, <2>2, WorkerGoes DEF Upgrade!CreateBackup
<1>3. CASE Upgrade!UpdateBegins(w)
  <2>1. x6[w].step = "update" /\ x6'[w].step = "updating" /\ x6'[w].from = x6[w].from /\ x6'[w].to = x6[w].to /\ x1' = 0 /\ x2' = x2
    BY <1>3 DEF Upgrade!UpdateBegins
  <2>2. OnDisk(w) => OnDisk(w)' /\ (Upgrade!Works(x6[w].from) => Upgrade!Kept')
    BY <2>1 DEF OnDisk, Upgrade!Kept, Upgrade!Works
  <2>. QED BY <1>3, <2>1, <2>2, WorkerGoes DEF Upgrade!UpdateBegins
<1>. QED BY <1>1, <1>2, <1>3

LEMMA UpgradeUpdate ==
  ASSUME UpgradeInv, NEW w \in Upgrade!Workers,
         Upgrade!Updated(w) \/ Upgrade!UpdateFails(w) \/ Upgrade!Verified(w)
         \/ Upgrade!NotVerified(w) \/ Upgrade!RemoveBackup(w)
  PROVE  UpgradeInv' /\ Upgrade!KeepsPlugin
<1> USE WorkerIs DEF Upgrade!Missing, Upgrade!Same, Upgrade!Goes, Upgrade!At, Work, Upgrade!Steps, Upgrade!Alive,
                     Upgrade!disk
<1>1. CASE Upgrade!Updated(w)
  <2>1. /\ x6[w].step = "updating" /\ x6'[w].step = "verify" /\ x6'[w].from = x6[w].from /\ x6'[w].to = x6[w].to
        /\ x1' = x6[w].to /\ x2' = x2
    BY <1>1 DEF Upgrade!Updated
  <2>2. OnDisk(w) => OnDisk(w)' /\ (Upgrade!Works(x6[w].from) => Upgrade!Kept')
    BY <2>1 DEF OnDisk, Upgrade!Kept, Upgrade!Works
  <2>. QED BY <1>1, <2>1, <2>2, WorkerGoes DEF Upgrade!Updated
<1>2. CASE Upgrade!UpdateFails(w)
  <2>1. /\ x6[w].step = "updating" /\ x6'[w].step = "restore" /\ x6'[w].from = x6[w].from /\ x6'[w].to = x6[w].to
        /\ x1' \in Upgrade!Versions \cup {0} /\ x2' = x2
    BY <1>2 DEF Upgrade!UpdateFails
  <2>2. OnDisk(w) => OnDisk(w)' /\ (Upgrade!Works(x6[w].from) => Upgrade!Kept')
    BY <2>1 DEF OnDisk, Upgrade!Kept, Upgrade!Works
  <2>. QED BY <1>2, <2>1, <2>2, WorkerGoes DEF Upgrade!UpdateFails
<1>3. CASE Upgrade!Verified(w)
  <2>1. /\ x6[w].step = "verify" /\ x6'[w].step = "remove" /\ x6'[w].from = x6[w].from /\ x6'[w].to = x6[w].to
        /\ x1' = x1 /\ x2' = x2
    BY <1>3 DEF Upgrade!Verified
  <2>2. OnDisk(w) => OnDisk(w)' /\ (Upgrade!Works(x6[w].from) => Upgrade!Kept')
    BY <2>1 DEF OnDisk, Upgrade!Kept, Upgrade!Works
  <2>. QED BY <1>3, <2>1, <2>2, WorkerGoes DEF Upgrade!Verified
<1>4. CASE Upgrade!NotVerified(w)
  <2>1. /\ x6[w].step = "verify" /\ x6'[w].step = "restore" /\ x6'[w].from = x6[w].from /\ x6'[w].to = x6[w].to /\ x1' = x1 /\ x2' = x2
    BY <1>4 DEF Upgrade!NotVerified
  <2>2. OnDisk(w) => OnDisk(w)' /\ (Upgrade!Works(x6[w].from) => Upgrade!Kept')
    BY <2>1 DEF OnDisk, Upgrade!Kept, Upgrade!Works
  <2>3. x6' \in [Upgrade!Workers -> Work] /\ \A v \in Upgrade!Workers \ {w} : x6'[v] = x6[v]
    <3> DEFINE q == x6[w]
               r == [q EXCEPT !.step = "restore", !.skip = TRUE]
    <3>1. q \in Work
      OBVIOUS
    <3>2. Puts(w, r)
      BY <1>4 DEF Upgrade!NotVerified, Puts
    <3> HIDE DEF q
    <3>3. r \in Work
      BY <3>1
    <3> HIDE DEF r
    <3> HIDE DEF Work
    <3>. QED BY <3>2, <3>3, WorkerPuts
  <2>. QED BY <1>4, <2>1, <2>2, <2>3, WorkerGoes DEF Upgrade!NotVerified
<1>5. CASE Upgrade!RemoveBackup(w)
  <2>1. /\ x6[w].step = "remove" /\ x6'[w].step = "last" /\ x6'[w].from = x6[w].from /\ x6'[w].to = x6[w].to
        /\ x1' = x1 /\ x2' \in Upgrade!Versions \cup {0} /\ x2' \in {0, x2}
    BY <1>5 DEF Upgrade!RemoveBackup
  <2>2. OnDisk(w) => OnDisk(w)' /\ x1 # 0
    BY <2>1 DEF OnDisk, UpgradeInv
  <2>3. OnDisk(w) /\ Upgrade!Kept /\ ~Upgrade!Kept' => x3 # x1
    BY <2>1, <2>2 DEF UpgradeInv, Upgrade!Kept, Upgrade!Works
  <2>. QED BY <1>5, <2>1, <2>2, <2>3, WorkerGoes DEF Upgrade!RemoveBackup
<1>. QED BY <1>1, <1>2, <1>3, <1>4, <1>5

LEMMA UpgradeRestore ==
  ASSUME UpgradeInv, NEW w \in Upgrade!Workers,
         Upgrade!Restore(w) \/ Upgrade!Restored(w) \/ Upgrade!RestoreFails(w)
         \/ Upgrade!Uninstall(w) \/ Upgrade!Install(w)
  PROVE  UpgradeInv' /\ Upgrade!KeepsPlugin
<1> USE WorkerIs DEF Upgrade!Missing, Upgrade!Same, Upgrade!Goes, Upgrade!At, Work, Upgrade!Steps, Upgrade!Alive,
                     Upgrade!disk
<1>1. CASE Upgrade!Restore(w)
  <2>1. /\ x6[w].step = "restore" /\ x6'[w].from = x6[w].from /\ x6'[w].to = x6[w].to /\ x2' = x2
        /\ \/ x2 = 0 /\ x1' = x1 /\ x6'[w].step = "fallback"
           \/ x2 # 0 /\ x1' = 0 /\ x6'[w].step = "restoring"
    BY <1>1 DEF Upgrade!Restore
  <2>2. OnDisk(w) => OnDisk(w)' /\ (Upgrade!Works(x6[w].from) => Upgrade!Kept')
    BY <2>1 DEF OnDisk, Upgrade!Kept, Upgrade!Works
  <2>. QED BY <1>1, <2>1, <2>2, WorkerGoes DEF Upgrade!Restore
<1>2. CASE Upgrade!Restored(w)
  <2>1. /\ x6[w].step = "restoring" /\ x6'[w].step = "restart" /\ x6'[w].from = x6[w].from /\ x6'[w].to = x6[w].to
        /\ x1' = x2 /\ x2' = 0
    BY <1>2 DEF Upgrade!Restored
  <2>2. OnDisk(w) => OnDisk(w)' /\ (Upgrade!Works(x6[w].from) => Upgrade!Kept')
    BY <2>1 DEF OnDisk, Upgrade!Kept, Upgrade!Works
  <2>. QED BY <1>2, <2>1, <2>2, WorkerGoes DEF Upgrade!Restored
<1>3. CASE Upgrade!RestoreFails(w)
  <2>1. /\ x6[w].step = "restoring" /\ x6'[w].step = "fallback" /\ x6'[w].from = x6[w].from /\ x6'[w].to = x6[w].to
        /\ x1' = x1 /\ x2' = x2
    BY <1>3 DEF Upgrade!RestoreFails
  <2>2. OnDisk(w) => OnDisk(w)' /\ (Upgrade!Works(x6[w].from) => Upgrade!Kept')
    BY <2>1 DEF OnDisk, Upgrade!Kept, Upgrade!Works
  <2>. QED BY <1>3, <2>1, <2>2, WorkerGoes DEF Upgrade!RestoreFails
<1>4. CASE Upgrade!Uninstall(w)
  <2>1. /\ x6[w].step = "fallback" /\ x6'[w].step = "uninstalled" /\ x6'[w].from = x6[w].from /\ x6'[w].to = x6[w].to
        /\ x1' \in {0, x1} /\ x2' = x2
    BY <1>4 DEF Upgrade!Uninstall
  <2>2. OnDisk(w) => OnDisk(w)' /\ (Upgrade!Works(x6[w].from) => Upgrade!Kept')
    BY <2>1 DEF OnDisk, Upgrade!Kept, Upgrade!Works
  <2>. QED BY <1>4, <2>1, <2>2, WorkerGoes DEF Upgrade!Uninstall
<1>5. CASE Upgrade!Install(w)
  <2>1. /\ x6[w].step = "uninstalled" /\ x6'[w].step = "restart" /\ x6'[w].from = x6[w].from /\ x6'[w].to = x6[w].to
        /\ x1' \in {x6[w].from, x1} /\ x2' = x2
    BY <1>5 DEF Upgrade!Install
  <2>2. OnDisk(w) => OnDisk(w)' /\ (Upgrade!Works(x6[w].from) => Upgrade!Kept')
    BY <2>1 DEF OnDisk, Upgrade!Kept, Upgrade!Works
  <2>. QED BY <1>5, <2>1, <2>2, WorkerGoes DEF Upgrade!Install
<1>. QED BY <1>1, <1>2, <1>3, <1>4, <1>5

\* The rest leaves the disk alone.
LEMMA UpgradeNotes ==
  ASSUME UpgradeInv, NEW w \in Upgrade!Workers,
         Upgrade!RollbackEnds(w) \/ Upgrade!ReadNoted(w) \/ Upgrade!WriteSkipped(w)
         \/ Upgrade!WriteLast(w) \/ Upgrade!Exits(w)
  PROVE  UpgradeInv' /\ Upgrade!KeepsPlugin
<1> USE WorkerIs DEF Upgrade!Missing, Upgrade!Same, Upgrade!Goes, Upgrade!At, Work, Upgrade!Steps, Upgrade!Alive,
                     Upgrade!disk
<1>1. x1' = x1 /\ x2' = x2 /\ UNCHANGED <<x3, x4, x5, x7, x9>>
  BY DEF Upgrade!RollbackEnds, Upgrade!ReadNoted, Upgrade!WriteSkipped, Upgrade!WriteLast, Upgrade!Exits
<1>2. Upgrade!Kept' <=> Upgrade!Kept
  BY <1>1 DEF Upgrade!Kept, Upgrade!Works
<1>3. CASE Upgrade!RollbackEnds(w)
  <2>1. /\ x6[w].step = "restart" /\ x6'[w].step \in {"skip", "last"} /\ x6'[w].to = x6[w].to
        /\ x6' \in [Upgrade!Workers -> Work] /\ \A v \in Upgrade!Workers \ {w} : x6'[v] = x6[v]
    BY <1>3 DEF Upgrade!RollbackEnds
  <2>2. OnDisk(w) => OnDisk(w)'
    BY <1>1, <2>1 DEF OnDisk
  <2>. QED BY <1>1, <1>2, <1>3, <2>1, <2>2, WorkerGoes DEF Upgrade!RollbackEnds
<1>4. CASE Upgrade!ReadNoted(w)
  <2> DEFINE next == IF x6[w].step = "skip" THEN "skipping" ELSE "lasting"
  <2> DEFINE q == x6[w]
             r == [q EXCEPT !.step = next, !.read = x8]
  <2>1. Puts(w, r) /\ q \in Work
    BY <1>4 DEF Upgrade!ReadNoted, Puts
  <2>2. next \in {"skipping", "lasting"} /\ next \in Upgrade!Steps /\ x6[w].step \in {"skip", "last"}
    BY <1>4 DEF Upgrade!ReadNoted
  <2> HIDE DEF next, q
  <2>5. r \in Work /\ r.step = next /\ r.to = q.to
    BY <2>1, <2>2
  <2> HIDE DEF r
  <2>3. /\ x6' \in [Upgrade!Workers -> Work] /\ \A v \in Upgrade!Workers \ {w} : x6'[v] = x6[v]
        /\ x6'[w].step = next /\ x6'[w].to = x6[w].to
    <3> HIDE DEF Work
    <3>. QED BY <2>1, <2>5, WorkerPuts DEF q
  <2>4. OnDisk(w) => OnDisk(w)'
    BY <1>1, <2>2, <2>3 DEF OnDisk
  <2>. QED BY <1>1, <1>2, <1>4, <2>2, <2>3, <2>4, WorkerGoes DEF Upgrade!ReadNoted
<1>5. CASE Upgrade!WriteSkipped(w) \/ Upgrade!WriteLast(w)
  <2>1. /\ x6[w].step \in {"skipping", "lasting"} /\ x6'[w].step \in {"last", "ok"} /\ x6'[w].to = x6[w].to
        /\ x6' \in [Upgrade!Workers -> Work] /\ \A v \in Upgrade!Workers \ {w} : x6'[v] = x6[v]
    <3>1. \/ x6[w].step = "skipping" /\ Upgrade!Forgets(w, "last")
          \/ x6[w].step = "lasting" /\ Upgrade!Forgets(w, "ok")
      <4> HIDE DEF Work, Upgrade!Steps
      <4>. QED BY <1>5 DEF Upgrade!WriteSkipped, Upgrade!WriteLast
    <3> DEFINE step == IF x6[w].step = "skipping" THEN "last" ELSE "ok"
               q == x6[w]
               r == [q EXCEPT !.step = step, !.read = {}]
    <3>2. Puts(w, r) /\ q \in Work
      BY <3>1 DEF Upgrade!Forgets, Puts
    <3>3. step \in {"last", "ok"} /\ step \in Upgrade!Steps
      OBVIOUS
    <3> HIDE DEF step, q
    <3>4. r \in Work /\ r.step = step /\ r.to = q.to
      BY <3>2, <3>3
    <3> HIDE DEF r
    <3> HIDE DEF Work
    <3>. QED BY <3>1, <3>2, <3>3, <3>4, WorkerPuts DEF q
  <2>2. OnDisk(w) => OnDisk(w)'
    BY <1>1, <2>1 DEF OnDisk
  <2>3. x6[w].to \in Upgrade!Versions /\ x6[w].read \subseteq Upgrade!Versions
    BY <2>1
  <2>4. x8' \subseteq Upgrade!Versions
    BY <1>5, <2>3 DEF Upgrade!WriteSkipped, Upgrade!WriteLast
  <2>. QED BY <1>1, <1>2, <2>1, <2>2, <2>4, WorkerGoes
<1>6. CASE Upgrade!Exits(w)
  <2> DEFINE end == IF x6[w].step = "ok" THEN "exited" ELSE "died"
             gone == [Upgrade!NotStarted EXCEPT !.step = end]
  <2>1. Puts(w, gone)
    BY <1>6 DEF Upgrade!Exits, Puts
  <2>2. end \in {"exited", "died"} /\ end \in Upgrade!Steps
    OBVIOUS
  <2> HIDE DEF end
  <2>6. gone \in Work /\ gone.step = end
    <3>1. Upgrade!NotStarted \in Work
      BY DEF Upgrade!NotStarted
    <3>. QED BY <2>2, <3>1
  <2> HIDE DEF gone
  <2>3. /\ x6' \in [Upgrade!Workers -> Work] /\ \A v \in Upgrade!Workers \ {w} : x6'[v] = x6[v]
        /\ x6'[w].step = end
    <3> HIDE DEF Work
    <3>. QED BY <2>1, <2>6, WorkerPuts
  <2>4. OnDisk(w) => OnDisk(w)'
    BY <1>1, <2>2, <2>3 DEF OnDisk
  <2>5. x6[w].step # end
    BY <1>6, <2>2 DEF Upgrade!Exits
  <2>. QED BY <1>1, <1>2, <1>6, <2>2, <2>3, <2>4, <2>5, WorkerGoes DEF Upgrade!Exits
<1>. QED BY <1>3, <1>4, <1>5, <1>6

\* A check that finds a new version starts a worker, and nobody else is at work.
LEMMA UpgradeStarts == ASSUME UpgradeInv, Upgrade!WriteState PROVE UpgradeInv' /\ Upgrade!KeepsPlugin
<1> USE WorkerIs DEF Upgrade!Missing, Work, Upgrade!Steps
<1>1. x1' = x1 /\ x2' = x2 /\ x8' = x5.read /\ UNCHANGED <<x3, x4, x7, x9>> /\ x5.step = "write"
  BY DEF Upgrade!WriteState, Upgrade!disk
<1>2. Upgrade!Kept' <=> Upgrade!Kept
  BY <1>1 DEF Upgrade!Kept, Upgrade!Works
<1>3. UpgradeInv => x5.cur \in Upgrade!Versions \cup {0} /\ x5.read \subseteq Upgrade!Versions /\ x4 \in Upgrade!Versions
  BY DEF UpgradeInv, Upgrade!TypeOK
<1>4. Upgrade!Works(x3)' <=> Upgrade!Works(x3)
  BY <1>1 DEF Upgrade!Works
<1>5. ASSUME ~Upgrade!Available PROVE UpgradeInv'
  <2>1. x5' = [step |-> "idle", cur |-> 0, read |-> {}] /\ x6' = x6
    BY <1>5 DEF Upgrade!WriteState, Upgrade!Idle
  <2>2. Upgrade!TypeOK'
    BY <1>1, <1>3, <2>1 DEF UpgradeInv, Upgrade!TypeOK, Upgrade!Workers
  <2>3. ~x9' => Alone' /\ \A w \in Upgrade!Workers : OnDisk(w)'
    BY <1>1, <2>1 DEF UpgradeInv, Alone, OnDisk, Upgrade!Alive
  <2>. QED BY <1>1, <1>4, <2>1, <2>2, <2>3 DEF UpgradeInv, Upgrade!Alive, Upgrade!Workers
<1>6. ASSUME Upgrade!Available PROVE UpgradeInv'
  <2> DEFINE locking == [step |-> "lock", cur |-> 0, read |-> {}]
  <2>1. PICK w \in Upgrade!Workers :
          /\ x6[w].step = "none" /\ x5' = locking
          /\ x6' = [x6 EXCEPT ![w].step = "start", ![w].from = x5.cur, ![w].to = x4]
    BY <1>6 DEF Upgrade!WriteState, Upgrade!Idle
  <2>2. /\ x6' \in [Upgrade!Workers -> Work] /\ \A v \in Upgrade!Workers \ {w} : x6'[v] = x6[v]
        /\ x6'[w].step = "start" /\ x6'[w].from = x5.cur /\ x6'[w].to = x4 /\ x5'.step = "lock"
    <3> DEFINE q == x6[w]
               r == [q EXCEPT !.step = "start", !.from = x5.cur, !.to = x4]
    <3>1. q \in Work
      OBVIOUS
    <3>2. Puts(w, r)
      BY <2>1 DEF Puts
    <3> HIDE DEF q
    <3>3. r \in Work /\ r.step = "start" /\ r.from = x5.cur /\ r.to = x4
      BY <1>3, <3>1
    <3>4. x5'.step = "lock"
      BY <2>1
    <3> HIDE DEF Work, r
    <3>. QED BY <3>2, <3>3, <3>4, WorkerPuts
  <2>3. Upgrade!TypeOK'
    <3>1. locking \in [step : {"idle", "ask", "write", "lock"}, cur : Upgrade!Versions \cup {0},
                       read : SUBSET Upgrade!Versions]
      OBVIOUS
    <3>. QED BY <1>1, <1>3, <2>1, <2>2, <3>1 DEF UpgradeInv, Upgrade!TypeOK, Upgrade!Workers
  <2>4. ASSUME ~x9' PROVE Alone' /\ \A v \in Upgrade!Workers : OnDisk(v)'
    <3>1. Alone
      BY <1>1, <2>4 DEF UpgradeInv
    <3>2. x1 = x5.cur /\ \A v \in Upgrade!Workers : ~Upgrade!Alive(v)
      BY <1>1, <3>1 DEF Alone
    <3>3. \A v \in Upgrade!Workers \ {w} : ~Upgrade!Alive(v)' /\ OnDisk(v)'
      BY <2>2, <3>2 DEF Upgrade!Alive, OnDisk
    <3>4. OnDisk(w)'
      BY <1>1, <2>2, <3>2 DEF OnDisk
    <3>5. Alone'
      BY <2>2, <3>3 DEF Alone
    <3>. QED BY <3>3, <3>4, <3>5
  <2>5. \A v \in Upgrade!Workers : Upgrade!Alive(v)' => x6'[v].to # 0
    BY <1>3, <2>2 DEF UpgradeInv, Upgrade!Alive, Upgrade!Versions
  <2>. QED BY <1>1, <1>4, <2>3, <2>4, <2>5 DEF UpgradeInv, Upgrade!Workers
<1>. QED BY <1>1, <1>2, <1>5, <1>6 DEF Upgrade!KeepsPlugin

LEMMA UpgradeStep == UpgradeInv /\ Upgrade!Next => UpgradeInv' /\ Upgrade!KeepsPlugin
  BY UpgradeCheck, UpgradeStarts, UpgradeBackup, UpgradeUpdate, UpgradeRestore, UpgradeNotes DEF Upgrade!Next

-----------------------------------------------------------------------------
(* The history of a chat *)

\* Those that have waited for a file to be read get into the line one by one.
LEMMA Queued ==
  ASSUME NEW S, IsFiniteSet(S)
  PROVE  ChatFile!SetToSeq(S) \in Seq(S)
<1>1. Cardinality(S) \in Nat /\ ExistsBijection(1..Cardinality(S), S)
  BY FS_CardinalityType
<1>2. PICK f \in [1..Cardinality(S) -> S] : \A a, b \in 1..Cardinality(S) : f[a] = f[b] => a = b
  BY <1>1 DEF ExistsBijection, Bijection, Injection, IsInjective
<1>3. ChatFile!SetToSeq(S) \in [1..Cardinality(S) -> S]
  <2> DEFINE P(g) == ChatFile!IsInjective(g)
             T == [1..Cardinality(S) -> S]
  <2>1. f \in T /\ P(f)
    BY <1>2 DEF ChatFile!IsInjective
  <2>2. ChatFile!SetToSeq(S) = CHOOSE g \in T : P(g)
    <3>1. ChatFile!Cardinality(S) = Cardinality(S)
      BY DEF Cardinality, ChatFile!Cardinality
    <3>. QED BY <3>1 DEF ChatFile!SetToSeq
  <2> HIDE DEF P, T
  <2>3. (CHOOSE g \in T : P(g)) \in T
    BY <2>1
  <2>. QED BY <2>2, <2>3 DEF T
<1>. QED BY <1>1, <1>3

Once(h) == \A i, j \in 1..Len(h) : h[i] = h[j] => i = j

\* Who writes has the mutex, and writes what was in the file and its session.
HistoryInv ==
    /\ ChatFile!TypeOK
    /\ Once(x1.h) /\ Once(x2) /\ \A h \in x6 : Once(h)
    /\ \A c \in Hooks :
         /\ x3[c].step = "ok" => ChatFile!Contains(x2, x3[c].s) \/ x7
         /\ x3[c].step = "write" =>
              /\ x4 # <<>> /\ Head(x4) = c
              /\ Once(x5) /\ ChatFile!Contains(x5, x3[c].s)
              /\ x7 \/ \A s \in Ended : ChatFile!Contains(x2, s) => ChatFile!Contains(x5, s)

HookRow == [s : Ended, step : {"new", "load", "lock", "write", "ok", "error"}]
LEMMA HistoryTypes ==
  ASSUME HistoryInv
  PROVE  /\ x1 \in [loaded : BOOLEAN, h : Seq(Ended)] /\ x2 \in Seq(Ended) /\ x3 \in [Hooks -> HookRow]
         /\ x4 \in Seq(Hooks) /\ x5 \in Seq(Ended) /\ x6 \subseteq Seq(Ended) /\ x7 \in BOOLEAN
         /\ x1.h \in Seq(Ended)
  BY DEF HistoryInv, ChatFile!TypeOK, HookRow

\* A hook takes a step.
LEMMA HookGoes ==
  ASSUME HistoryInv, NEW c \in Hooks, NEW step \in {"new", "load", "lock", "write", "ok", "error"},
         x3' = [x3 EXCEPT ![c].step = step]
  PROVE  /\ x3' \in [Hooks -> HookRow] /\ \A d \in Hooks \ {c} : x3'[d] = x3[d]
         /\ x3'[c].s = x3[c].s /\ x3'[c].step = step
<1>1. x3 \in [Hooks -> HookRow]
  BY HistoryTypes
<1>. QED BY <1>1 DEF HookRow

LEMMA HistoryInit == ASSUME ChatFile!Init PROVE HistoryInv
<1>1. /\ x1 = [loaded |-> FALSE, h |-> <<>>] /\ x2 = <<>> /\ x4 = <<>> /\ x5 = <<>> /\ x6 = {} /\ x7 = FALSE
      /\ x3 \in [Hooks -> [s : Ended, step : {"new"}]]
  BY DEF ChatFile!Init, ChatFile!NotLoaded
<1>2. ChatFile!TypeOK
  <2>1. x3 \in [Hooks -> [s : Ended, step : {"new", "load", "lock", "write", "ok", "error"}]]
    BY <1>1
  <2>2. x1 \in [loaded : BOOLEAN, h : Seq(Ended)]
    BY <1>1
  <2>3. x2 \in Seq(Ended) /\ x4 \in Seq(Hooks) /\ x5 \in Seq(Ended) /\ x6 \subseteq Seq(Ended) /\ x7 \in BOOLEAN
    <3>1. <<>> \in Seq(Ended) /\ <<>> \in Seq(Hooks) /\ {} \subseteq Seq(Ended)
      OBVIOUS
    <3>. QED BY <1>1, <3>1, Zenon
  <2>. QED BY <2>1, <2>2, <2>3 DEF ChatFile!TypeOK
<1>. QED BY <1>1, <1>2 DEF HistoryInv, Once

\* Only where the hooks are and who has the mutex is disturbed.
LEMMA HistoryMoves ==
  ASSUME HistoryInv, x4' \in Seq(Hooks), x4 # <<>> => x4' # <<>> /\ Head(x4') = Head(x4),
         x3' \in [Hooks -> HookRow], UNCHANGED <<x2, x5, x6>>, x7' \in BOOLEAN, x7 => x7',
         \A d \in Hooks : x3'[d].s = x3[d].s /\ (x3'[d].step = x3[d].step \/ x3'[d].step \in {"lock", "load"}),
         x1' \in [loaded : BOOLEAN, h : Seq(Ended)], Once(x1'.h)
  PROVE  HistoryInv'
<1>1. ChatFile!TypeOK'
  BY HistoryTypes DEF ChatFile!TypeOK, HookRow
<1>2. \A s \in Ended : ChatFile!Contains(x2', s) <=> ChatFile!Contains(x2, s)
  OBVIOUS
<1>3. \A d \in Hooks :
         /\ x3'[d].step = "ok" => ChatFile!Contains(x2, x3[d].s) \/ x7
         /\ x3'[d].step = "write" =>
              /\ x4 # <<>> /\ Head(x4) = d
              /\ Once(x5) /\ ChatFile!Contains(x5, x3[d].s)
              /\ x7 \/ \A s \in Ended : ChatFile!Contains(x2, s) => ChatFile!Contains(x5, s)
  BY DEF HistoryInv
<1>4. \A d \in Hooks : x3'[d].s = x3[d].s
  OBVIOUS
<1>5. Once(x1'.h) /\ Once(x2') /\ \A h \in x6' : Once(h)
  BY DEF HistoryInv
<1>6. x4 # <<>> => x4' # <<>> /\ Head(x4') = Head(x4)
  OBVIOUS
<1>7. \A d \in Hooks :
         /\ x3'[d].step = "ok" => ChatFile!Contains(x2', x3'[d].s) \/ x7'
         /\ x3'[d].step = "write" =>
              /\ x4' # <<>> /\ Head(x4') = d
              /\ Once(x5') /\ ChatFile!Contains(x5', x3'[d].s)
              /\ x7' \/ \A s \in Ended : ChatFile!Contains(x2', s) => ChatFile!Contains(x5', s)
  BY <1>3, <1>4, <1>6
<1>. QED BY <1>1, <1>5, <1>7 DEF HistoryInv, Once, ChatFile!Contains

LEMMA HistoryBegin == ASSUME HistoryInv, NEW c \in Hooks, ChatFile!Begin(c) PROVE HistoryInv'
<1>1. /\ UNCHANGED <<x1, x2, x5, x6, x7>>
      /\ \/ x3' = [x3 EXCEPT ![c].step = "lock"] /\ x4' = Append(x4, c)
         \/ x3' = [x3 EXCEPT ![c].step = "load"] /\ x4' = x4
  BY DEF ChatFile!Begin, ChatFile!Goes
<1>2. x4' \in Seq(Hooks) /\ (x4 # <<>> => x4' # <<>> /\ Head(x4') = Head(x4))
  <2>1. x4 \in Seq(Hooks) /\ (x4' = x4 \/ x4' = Append(x4, c))
    BY <1>1, HistoryTypes
  <2>. QED BY <2>1
<1>3. PICK step \in {"load", "lock"} : x3' = [x3 EXCEPT ![c].step = step]
  BY <1>1
<1>4. /\ x3' \in [Hooks -> HookRow]
      /\ \A d \in Hooks : x3'[d].s = x3[d].s /\ (x3'[d].step = x3[d].step \/ x3'[d].step \in {"lock", "load"})
  BY <1>3, HookGoes
<1>5. x7' \in BOOLEAN /\ x1' \in [loaded : BOOLEAN, h : Seq(Ended)] /\ Once(x1'.h)
  BY <1>1, HistoryTypes DEF HistoryInv
<1>. QED BY <1>1, <1>2, <1>4, <1>5, HistoryMoves

LEMMA HistoryLoad ==
  ASSUME HistoryInv, NEW got \in Seq(Ended), got = x2 \/ got = <<>>, ChatFile!LoadDone(got)
  PROVE  HistoryInv'
<1> DEFINE waiting == {c \in Hooks : x3[c].step = "load"}
<1>1. /\ UNCHANGED <<x2, x5, x6>> /\ x1' = [loaded |-> TRUE, h |-> got] /\ x7' = (x7 \/ got # x2)
      /\ x4' = x4 \o ChatFile!SetToSeq(waiting)
      /\ x3' = [c \in Hooks |-> IF c \in waiting THEN [x3[c] EXCEPT !.step = "lock"] ELSE x3[c]]
  BY DEF ChatFile!LoadDone, ChatFile!Loaded
<1>2. IsFiniteSet(waiting)
  BY PluginAssumption, FS_Subset
<1>3. ChatFile!SetToSeq(waiting) \in Seq(Hooks)
  BY <1>2, Queued
<1> HIDE DEF waiting
<1>4. x4' \in Seq(Hooks) /\ (x4 # <<>> => x4' # <<>> /\ Head(x4') = Head(x4))
  BY <1>1, <1>3, HistoryTypes
<1>5. /\ x3' \in [Hooks -> HookRow]
      /\ \A d \in Hooks : x3'[d].s = x3[d].s /\ (x3'[d].step = x3[d].step \/ x3'[d].step \in {"lock", "load"})
  BY <1>1, HistoryTypes DEF HookRow
<1>6. x1' \in [loaded : BOOLEAN, h : Seq(Ended)] /\ x1'.h = got /\ Once(got)
  BY <1>1 DEF HistoryInv, Once
<1>7. x7' \in BOOLEAN /\ (x7 => x7')
  BY <1>1, HistoryTypes
<1>. QED BY <1>1, <1>4, <1>5, <1>6, <1>7, HistoryMoves

LEMMA HistoryRecord == ASSUME HistoryInv, NEW c \in Hooks, ChatFile!Record(c) PROVE HistoryInv'
<1> DEFINE s == x3[c].s
<1>1. PICK r \in ChatFile!Reloaded :
         /\ x7' = (x7 \/ r.unread)
         /\ IF ChatFile!Contains(r.h, s)
            THEN /\ x1' = ChatFile!Loaded(r.h) /\ x3' = [x3 EXCEPT ![c].step = "ok"] /\ x4' = Tail(x4)
                 /\ UNCHANGED x5
            ELSE /\ x1' = ChatFile!Loaded(<<s>> \o r.h)
                 /\ x5' = <<s>> \o r.h /\ x3' = [x3 EXCEPT ![c].step = "write"]
                 /\ UNCHANGED x4
  BY DEF ChatFile!Record, ChatFile!Goes
<1>2. UNCHANGED <<x2, x6>> /\ x4 # <<>> /\ Head(x4) = c /\ x3[c].step = "lock" /\ x4 \in Seq(Hooks) /\ s \in Ended
  BY DEF ChatFile!Record, HistoryInv, ChatFile!TypeOK
<1> DEFINE h == r.h
<1>3. /\ h \in Seq(Ended) /\ Once(h) /\ r.unread \in BOOLEAN
      /\ h = x2 \/ x7'
  <2>1. \/ r = [h |-> x2, unread |-> FALSE]
        \/ r = [h |-> x1.h, unread |-> x1.h # x2]
    BY <1>1 DEF ChatFile!Reloaded
  <2>2. Once(x1.h) /\ Once(x2)
    BY DEF HistoryInv
  <2>3. CASE r = [h |-> x2, unread |-> FALSE]
    BY <2>2, <2>3, HistoryTypes
  <2>4. CASE r = [h |-> x1.h, unread |-> x1.h # x2]
    <3>1. r.h = x1.h /\ (r.unread <=> x1.h # x2) /\ r.unread \in BOOLEAN
      BY <2>4
    <3>2. h = x2 \/ r.unread
      BY <3>1
    <3>3. r.unread => x7'
      BY <1>1
    <3>. QED BY <2>2, <3>1, <3>2, <3>3, HistoryTypes
  <2>. QED BY <2>1, <2>3, <2>4
<1> HIDE DEF s, h
<1>4. \A d \in Hooks : x3[d].step # "write"
  BY <1>2 DEF HistoryInv
<1>5. /\ x3' \in [Hooks -> HookRow] /\ \A d \in Hooks \ {c} : x3'[d] = x3[d]
      /\ x3'[c].s = s
  <2>1. PICK step \in {"ok", "write"} : x3' = [x3 EXCEPT ![c].step = step]
    BY <1>1
  <2>. QED BY <2>1, HookGoes DEF s
<1>6. x7' \in BOOLEAN /\ (x7 => x7')
  BY <1>1, <1>3, HistoryTypes
<1>7. CASE ChatFile!Contains(h, s)
  <2>1. x1' = [loaded |-> TRUE, h |-> h] /\ x3' = [x3 EXCEPT ![c].step = "ok"] /\ x4' = Tail(x4) /\ x5' = x5
    BY <1>1, <1>7 DEF ChatFile!Loaded, h
  <2>2. x4' \in Seq(Hooks) /\ x1' \in [loaded : BOOLEAN, h : Seq(Ended)] /\ x1'.h = h /\ x3'[c].step = "ok"
    <3>1. x3'[c].step = "ok"
      BY <2>1, HookGoes
    <3>. QED BY <1>2, <1>3, <2>1, <3>1
  <2>3. ChatFile!Contains(x2, s) \/ x7'
    BY <1>3, <1>7
  <2>4. ChatFile!TypeOK'
    BY <1>2, <1>5, <1>6, <2>1, <2>2, HistoryTypes DEF ChatFile!TypeOK, HookRow
  <2>5. \A d \in Hooks \ {c} : x3'[d].step = x3[d].step /\ x3'[d].s = x3[d].s
    BY <1>5
  <2>6. \A d \in Hooks : x3'[d].step = "ok" => ChatFile!Contains(x2, x3'[d].s) \/ x7'
    BY <1>5, <1>6, <2>3, <2>5 DEF HistoryInv
  <2>7. \A d \in Hooks : x3'[d].step # "write"
    BY <1>4, <2>2, <2>5
  <2>. QED BY <1>2, <1>3, <2>2, <2>4, <2>6, <2>7 DEF HistoryInv, ChatFile!Contains, Once
<1>8. CASE ~ChatFile!Contains(h, s)
  <2> DEFINE w == <<s>> \o h
  <2>1. x1' = [loaded |-> TRUE, h |-> w] /\ x3' = [x3 EXCEPT ![c].step = "write"] /\ x4' = x4 /\ x5' = w
    BY <1>1, <1>8 DEF ChatFile!Loaded, h
  <2>2. w \in Seq(Ended) /\ Len(w) = Len(h) + 1 /\ w[1] = s /\ \A i \in 1..Len(h) : w[i + 1] = h[i]
    BY <1>2, <1>3
  <2> HIDE DEF w
  <2>3. \A i \in 2..Len(w) : i - 1 \in 1..Len(h) /\ w[i] = h[i - 1]
    BY <1>3, <2>2
  <2>4. Once(w)
    <3> SUFFICES ASSUME NEW i \in 1..Len(w), NEW j \in 1..Len(w), w[i] = w[j] PROVE i = j
      BY DEF Once
    <3>1. Len(w) \in Nat /\ Len(h) \in Nat
      BY <1>3, <2>2
    <3>2. \A k \in 1..Len(w) : k # 1 => k \in 2..Len(w)
      BY <3>1
    <3>3. \A k \in 2..Len(w) : w[k] # s
      BY <1>8, <2>3 DEF ChatFile!Contains
    <3>4. CASE i = 1 \/ j = 1
      BY <2>2, <3>2, <3>3, <3>4
    <3>5. CASE i # 1 /\ j # 1
      <4>1. i - 1 \in 1..Len(h) /\ j - 1 \in 1..Len(h) /\ h[i - 1] = h[j - 1]
        BY <2>3, <3>2, <3>5
      <4>2. i - 1 = j - 1
        BY <1>3, <4>1 DEF Once
      <4>. QED BY <4>2
    <3>. QED BY <3>4, <3>5
  <2>5. ChatFile!Contains(w, s) /\ \A e \in Ended : ChatFile!Contains(h, e) => ChatFile!Contains(w, e)
    <3>1. 1 \in 1..Len(w) /\ \A i \in 1..Len(h) : i + 1 \in 1..Len(w)
      BY <1>3, <2>2
    <3>. QED BY <2>2, <3>1 DEF ChatFile!Contains
  <2>6. x7' \/ \A e \in Ended : ChatFile!Contains(x2, e) => ChatFile!Contains(w, e)
    BY <1>3, <2>5
  <2>7. x1' \in [loaded : BOOLEAN, h : Seq(Ended)] /\ x1'.h = w /\ x3'[c].step = "write"
    BY <2>1, <2>2, HookGoes
  <2>8. ChatFile!TypeOK'
    BY <1>2, <1>5, <1>6, <2>1, <2>2, <2>7, HistoryTypes DEF ChatFile!TypeOK, HookRow
  <2>9. \A d \in Hooks \ {c} : x3'[d].step = x3[d].step /\ x3'[d].s = x3[d].s
    BY <1>5
  <2>10. \A d \in Hooks : x3'[d].step = "ok" => ChatFile!Contains(x2, x3'[d].s) \/ x7'
    BY <1>6, <2>7, <2>9 DEF HistoryInv
  <2>11. \A d \in Hooks : x3'[d].step = "write" => d = c
    BY <1>4, <2>9
  <2>12. Once(x1'.h) /\ Once(x5')
    BY <2>1, <2>4, <2>7
  <2>13. ChatFile!Contains(x5', x3'[c].s) /\ (x7' \/ \A e \in Ended : ChatFile!Contains(x2, e) => ChatFile!Contains(x5', e))
    BY <1>5, <2>1, <2>5, <2>6
  <2>. QED BY <1>2, <2>1, <2>8, <2>10, <2>11, <2>12, <2>13 DEF HistoryInv, ChatFile!Contains, Once
<1>. QED BY <1>7, <1>8

LEMMA HistoryWrite ==
  ASSUME HistoryInv, NEW c \in Hooks, ChatFile!Written(c) \/ ChatFile!WriteFails(c)
  PROVE  HistoryInv'
<1>1. /\ x3[c].step = "write" /\ x4' = Tail(x4) /\ UNCHANGED <<x1, x5, x7>>
      /\ \/ x2' = x5 /\ x3' = [x3 EXCEPT ![c].step = "ok"] /\ x6' \in {x6, x6 \cup {x5}}
         \/ x2' = x2 /\ x3' = [x3 EXCEPT ![c].step = "error"] /\ x6' = x6
  BY DEF ChatFile!Written, ChatFile!WriteFails, ChatFile!Goes
<1>2. /\ x4 # <<>> /\ Head(x4) = c /\ Once(x5) /\ ChatFile!Contains(x5, x3[c].s)
      /\ x7 \/ \A s \in Ended : ChatFile!Contains(x2, s) => ChatFile!Contains(x5, s)
  BY <1>1 DEF HistoryInv
<1>3. \A d \in Hooks \ {c} : x3[d].step # "write"
  BY <1>2 DEF HistoryInv
<1>4. /\ x3' \in [Hooks -> HookRow]
      /\ \A d \in Hooks \ {c} : x3'[d] = x3[d]
      /\ x3'[c].s = x3[c].s /\ x3'[c].step \in {"ok", "error"}
      /\ x3'[c].step = "ok" => x2' = x5
      /\ \A d \in Hooks : x3[d].s \in Ended
  <2>1. CASE x2' = x5 /\ x3' = [x3 EXCEPT ![c].step = "ok"]
    BY <2>1, HookGoes, HistoryTypes DEF HookRow
  <2>2. CASE x3' = [x3 EXCEPT ![c].step = "error"]
    BY <2>2, HookGoes, HistoryTypes DEF HookRow
  <2>. QED BY <1>1, <2>1, <2>2
<1>5. x4' \in Seq(Hooks)
  BY <1>1, <1>2, HistoryTypes
<1>6. ChatFile!TypeOK'
  BY <1>1, <1>4, <1>5, HistoryTypes DEF ChatFile!TypeOK, HookRow
<1>7. \A d \in Hooks : x3'[d].step = "ok" => ChatFile!Contains(x2', x3'[d].s) \/ x7
  <2> SUFFICES ASSUME NEW d \in Hooks, x3'[d].step = "ok", ~x7 PROVE ChatFile!Contains(x2', x3'[d].s)
    OBVIOUS
  <2>1. CASE d = c
    BY <1>2, <1>4, <2>1
  <2>2. CASE d # c
    <3>1. ChatFile!Contains(x2, x3[d].s) /\ x3'[d] = x3[d] /\ x3[d].s \in Ended
      BY <1>4, <2>2 DEF HistoryInv
    <3>2. x2' = x2 \/ x2' = x5
      BY <1>1
    <3>. QED BY <1>2, <3>1, <3>2
  <2>. QED BY <2>1, <2>2
<1>8. Once(x2') /\ \A h \in x6' : Once(h)
  BY <1>1, <1>2 DEF HistoryInv
<1>. QED BY <1>1, <1>3, <1>4, <1>6, <1>7, <1>8 DEF HistoryInv, Once, ChatFile!Contains

LEMMA HistoryList == ASSUME HistoryInv, ChatFile!List \/ ChatFile!Listed PROVE HistoryInv'
<1>1. UNCHANGED <<x2, x3, x4, x5, x7>>
  BY DEF ChatFile!List, ChatFile!Listed
<1>2. (x1' = x1 /\ x6' = {x2}) \/ (x6' = {} /\ \E h \in x6 : x1' = [loaded |-> TRUE, h |-> h])
  BY DEF ChatFile!List, ChatFile!Listed, ChatFile!Loaded
<1>3. x1' \in [loaded : BOOLEAN, h : Seq(Ended)] /\ Once(x1'.h) /\ x6' \subseteq Seq(Ended) /\ \A h \in x6' : Once(h)
  <2>1. CASE x1' = x1 /\ x6' = {x2}
    BY <2>1, HistoryTypes DEF HistoryInv
  <2>2. CASE x6' = {} /\ \E h \in x6 : x1' = [loaded |-> TRUE, h |-> h]
    <3>1. PICK h \in x6 : x1' = [loaded |-> TRUE, h |-> h]
      BY <2>2
    <3>2. h \in Seq(Ended) /\ Once(h) /\ x1'.h = h
      BY <3>1, HistoryTypes DEF HistoryInv
    <3>. QED BY <2>2, <3>1, <3>2
  <2>. QED BY <1>2, <2>1, <2>2
<1>. QED BY <1>1, <1>3 DEF HistoryInv, ChatFile!TypeOK, ChatFile!Contains, Once

LEMMA HistoryStep == HistoryInv /\ ChatFile!Next => HistoryInv'
<1>1. HistoryInv => x2 \in Seq(Ended) /\ <<>> \in Seq(Ended)
  BY DEF HistoryInv, ChatFile!TypeOK
<1>. QED BY <1>1, HistoryBegin, HistoryLoad, HistoryRecord, HistoryWrite, HistoryList DEF ChatFile!Next

LEMMA HistoryStays == HistoryInv => ChatFile!HistoryKept
<1>1. HistoryInv => DOMAIN x2 = 1..Len(x2)
  BY DEF HistoryInv, ChatFile!TypeOK
<1>. QED BY <1>1 DEF HistoryInv, ChatFile!HistoryKept, Once

-----------------------------------------------------------------------------
(* Topics *)

CallRow == [kind : TopicFile!Kinds, t : Topics,
            step : {"new", "load", "copy", "agent", "lock", "write", "unlink", "clean", "ok", "error", "dead"}]
KindOf(step, kind) ==
    /\ step = "load" => kind = "create"
    /\ step \in {"copy", "agent", "clean"} => kind = "title"
    /\ step = "unlink" => kind = "delete"
Copied(c, step, kind) == kind = "title" /\ step \in {"agent", "lock", "write", "clean", "dead"}

\* Who writes has the mutex, and writes what is in memory.
CallIs(c) ==
    /\ KindOf(x4[c].step, x4[c].kind)
    /\ x4[c].step \in {"lock", "write"} => x1 # TopicFile!Unloaded
    /\ x4[c].step = "write" =>
         /\ x5 # <<>> /\ Head(x5) = c /\ x6[c] = x1
         /\ x4[c].kind = "create" => x1[x4[c].t] # TopicFile!Absent
    /\ c \in x8 => Copied(c, x4[c].step, x4[c].kind)

\* A topic whose creation was confirmed is in the file, and in memory.
IsThere(t) == x3[t] # TopicFile!Absent /\ (x1 # TopicFile!Unloaded => x1[t] # TopicFile!Absent)
Confirmed(c) ==
    x4[c].kind = "create" /\ x4[c].step = "ok" => TopicFile!Deleted(x4[c].t) \/ x10 \/ IsThere(x4[c].t)
NoneWrites == \A c \in Calls : x4[c].step # "write"

TopicsInv ==
    /\ TopicFile!TypeOK
    /\ x2 => x1 = TopicFile!Unloaded
    /\ \A c \in Calls : CallIs(c) /\ Confirmed(c)
    /\ x1 # TopicFile!Unloaded /\ NoneWrites => x1 = x3 \/ x9 \/ x10

LEMMA TopicsTypes ==
  ASSUME TopicsInv
  PROVE  /\ x1 \in TopicFile!Stores \cup {TopicFile!Unloaded} /\ x2 \in BOOLEAN /\ x3 \in TopicFile!Stores
         /\ x4 \in [Calls -> CallRow] /\ x5 \in Seq(Calls) /\ x6 \in [Calls -> TopicFile!Stores]
         /\ x7 \subseteq Topics /\ x8 \subseteq Calls /\ x9 \in BOOLEAN /\ x10 \in BOOLEAN /\ x11 \in 0..MaxRestart
  BY DEF TopicsInv, TopicFile!TypeOK, CallRow

\* Those that have waited for the file to be read get into the line one by one.
LEMMA QueuedTopics ==
  ASSUME NEW S, IsFiniteSet(S)
  PROVE  TopicFile!SetToSeq(S) \in Seq(S)
<1>1. Cardinality(S) \in Nat /\ ExistsBijection(1..Cardinality(S), S)
  BY FS_CardinalityType
<1>2. PICK f \in [1..Cardinality(S) -> S] : \A a, b \in 1..Cardinality(S) : f[a] = f[b] => a = b
  BY <1>1 DEF ExistsBijection, Bijection, Injection, IsInjective
<1>3. TopicFile!SetToSeq(S) \in [1..Cardinality(S) -> S]
  <2> DEFINE P(g) == TopicFile!IsInjective(g)
             T == [1..Cardinality(S) -> S]
  <2>1. f \in T /\ P(f)
    BY <1>2 DEF TopicFile!IsInjective
  <2>2. TopicFile!SetToSeq(S) = CHOOSE g \in T : P(g)
    <3>1. TopicFile!Cardinality(S) = Cardinality(S)
      BY DEF Cardinality, TopicFile!Cardinality
    <3>. QED BY <3>1 DEF TopicFile!SetToSeq
  <2> HIDE DEF P, T
  <2>3. (CHOOSE g \in T : P(g)) \in T
    BY <2>1
  <2>. QED BY <2>2, <2>3 DEF T
<1>. QED BY <1>1, <1>3

\* With a call there is a topic, so that what was loaded is not nothing.
LEMMA StoreIsLoaded == ASSUME NEW t \in Topics, NEW f \in TopicFile!Stores PROVE f # TopicFile!Unloaded
<1>1. DOMAIN f = Topics
  BY DEF TopicFile!Stores
<1>2. DOMAIN TopicFile!Unloaded = {}
  BY DEF TopicFile!Unloaded
<1>. QED BY <1>1, <1>2

LEMMA CallGoes ==
  ASSUME x4 \in [Calls -> CallRow], NEW c \in Calls,
         NEW step \in {"new", "load", "copy", "agent", "lock", "write", "unlink", "clean", "ok", "error", "dead"},
         x4' = [x4 EXCEPT ![c].step = step]
  PROVE  /\ x4' \in [Calls -> CallRow] /\ \A d \in Calls \ {c} : x4'[d] = x4[d]
         /\ x4'[c].kind = x4[c].kind /\ x4'[c].t = x4[c].t /\ x4'[c].step = step
  BY DEF CallRow

LEMMA TopicsInit == ASSUME TopicFile!Init PROVE TopicsInv
<1>1. /\ x1 = TopicFile!Unloaded /\ x2 = TRUE /\ x3 = TopicFile!Empty /\ x5 = <<>> /\ x6 = [c \in Calls |-> TopicFile!Empty]
      /\ x7 = {} /\ x8 = {} /\ x9 = FALSE /\ x10 = FALSE /\ x11 = 0
      /\ x4 \in [Calls -> [kind : TopicFile!Kinds, t : Topics, step : {"new"}]]
  BY DEF TopicFile!Init
<1>2. x4 \in [Calls -> CallRow] /\ \A c \in Calls : x4[c].step = "new"
  BY <1>1 DEF CallRow
<1>3. TopicFile!Empty \in TopicFile!Stores
  BY DEF TopicFile!Empty, TopicFile!Stores
<1>4. TopicFile!TypeOK
  <2>1. x5 \in Seq(Calls) /\ x11 \in 0..MaxRestart
    BY <1>1, PluginAssumption
  <2>. QED BY <1>1, <1>2, <1>3, <2>1 DEF TopicFile!TypeOK, CallRow
<1>5. \A c \in Calls : CallIs(c) /\ Confirmed(c)
  BY <1>1, <1>2 DEF CallIs, Confirmed, KindOf
<1>. QED BY <1>1, <1>4, <1>5 DEF TopicsInv

\* Kinds and topics of calls stay, and no call is new again.
Onward == \A d \in Calls : /\ x4'[d].kind = x4[d].kind /\ x4'[d].t = x4[d].t
                           /\ x4[d].step # "new" => x4'[d].step # "new"
LEMMA DeletedStays == ASSUME Onward, NEW t \in Topics, TopicFile!Deleted(t) PROVE TopicFile!Deleted(t)'
  BY DEF Onward, TopicFile!Deleted, TopicFile!At

\* A call takes a step that leaves memory and file alone.
LEMMA TopicMoves ==
  ASSUME TopicsInv, NEW c \in Calls,
         NEW step \in {"load", "copy", "agent", "lock", "unlink", "clean", "ok", "error", "dead"},
         x4' = [x4 EXCEPT ![c].step = step], x4[c].step # "write",
         KindOf(step, x4[c].kind), step = "ok" => x4[c].kind # "create", step = "lock" => x1 # TopicFile!Unloaded,
         x5' \in Seq(Calls),
         \A d \in Calls : x4[d].step = "write" /\ x5 # <<>> => x5' # <<>> /\ Head(x5') = Head(x5),
         x8' \subseteq Calls, x8' \ {c} = x8 \ {c}, c \in x8' => Copied(c, step, x4[c].kind),
         UNCHANGED <<x1, x2, x3, x6, x9, x10, x11>>, x7' \subseteq Topics
  PROVE  TopicsInv'
<1>1. /\ x4' \in [Calls -> CallRow] /\ \A d \in Calls \ {c} : x4'[d] = x4[d]
      /\ x4'[c].kind = x4[c].kind /\ x4'[c].t = x4[c].t /\ x4'[c].step = step
  BY TopicsTypes, CallGoes
<1>2. TopicFile!TypeOK'
  BY <1>1, TopicsTypes DEF TopicFile!TypeOK, CallRow
<1>3. Onward
  BY <1>1 DEF Onward
<1>4. \A d \in Calls \ {c} : CallIs(d)'
  BY <1>1 DEF TopicsInv, CallIs, Copied, KindOf
<1>5. CallIs(c)'
  BY <1>1 DEF CallIs, Copied, KindOf
<1>6. ASSUME NEW d \in Calls PROVE Confirmed(d)'
  <2>1. CASE d = c
    BY <1>1, <2>1 DEF Confirmed
  <2>2. CASE d # c
    <3> SUFFICES ASSUME NEW t \in Topics, t = x4[d].t PROVE Confirmed(d)'
      BY TopicsTypes DEF CallRow
    <3>1. TopicFile!Deleted(t) => TopicFile!Deleted(t)'
      BY <1>3, DeletedStays
    <3>2. x4'[d] = x4[d] /\ Confirmed(d)
      BY <1>1, <2>2 DEF TopicsInv
    <3>3. IsThere(t) => IsThere(t)'
      BY DEF IsThere
    <3>4. x4'[d].kind = "create" /\ x4'[d].step = "ok" => TopicFile!Deleted(t)' \/ x10' \/ IsThere(t)'
      BY <3>1, <3>2, <3>3 DEF Confirmed
    <3>. QED BY <3>2, <3>4 DEF Confirmed, TopicFile!Deleted, TopicFile!At, IsThere
  <2>. QED BY <2>1, <2>2
<1>7. NoneWrites' => NoneWrites
  BY <1>1 DEF NoneWrites
<1>. QED BY <1>2, <1>4, <1>5, <1>6, <1>7 DEF TopicsInv

LEMMA TopicCalls ==
  ASSUME TopicsInv, NEW c \in Calls,
         \/ TopicFile!Create(c) \/ TopicFile!NotFound(c) \/ TopicFile!Found(c) \/ TopicFile!Copy(c)
         \/ TopicFile!AgentEnds(c) \/ TopicFile!Unlink(c) \/ TopicFile!CleanUp(c)
  PROVE  TopicsInv'
<1> DEFINE Stages == {"load", "copy", "agent", "lock", "unlink", "clean", "ok", "error", "dead"}
<1>1. CallIs(c) /\ x4[c].kind \in TopicFile!Kinds /\ x5 \in Seq(Calls) /\ x7 \subseteq Topics /\ x8 \subseteq Calls
  BY TopicsTypes DEF TopicsInv, CallRow
<1>2. \A step \in Stages : TopicFile!Goes(c, step) <=> x4' = [x4 EXCEPT ![c].step = step]
  BY DEF TopicFile!Goes
<1>3. PICK step \in Stages :
        /\ x4' = [x4 EXCEPT ![c].step = step] /\ x4[c].step # "write"
        /\ KindOf(step, x4[c].kind) /\ (step = "ok" => x4[c].kind # "create")
        /\ step = "lock" => x1 # TopicFile!Unloaded
        /\ x5' \in {x5, Append(x5, c)}
        /\ x8' \subseteq Calls /\ x8' \ {c} = x8 \ {c} /\ (c \in x8' => Copied(c, step, x4[c].kind))
        /\ UNCHANGED <<x1, x2, x3, x6, x9, x10, x11>> /\ x7' \subseteq Topics
  <2> DEFINE Fits(step) ==
        /\ x4' = [x4 EXCEPT ![c].step = step] /\ x4[c].step # "write"
        /\ KindOf(step, x4[c].kind) /\ (step = "ok" => x4[c].kind # "create")
        /\ step = "lock" => x1 # TopicFile!Unloaded
        /\ x5' \in {x5, Append(x5, c)}
        /\ x8' \subseteq Calls /\ x8' \ {c} = x8 \ {c} /\ (c \in x8' => Copied(c, step, x4[c].kind))
        /\ UNCHANGED <<x1, x2, x3, x6, x9, x10, x11>> /\ x7' \subseteq Topics
  <2> USE DEF TopicFile!Goes, TopicFile!At, TopicFile!Waits, TopicFile!Files, KindOf, Copied, CallIs
  <2>1. CASE TopicFile!Create(c)
    <3>1. Fits("load") \/ Fits("lock")
      BY <1>1, <2>1 DEF TopicFile!Create
    <3>. QED BY <3>1
  <2>2. CASE TopicFile!NotFound(c)
    <3>1. Fits("error")
      BY <1>1, <2>2 DEF TopicFile!NotFound
    <3>. QED BY <3>1
  <2>3. CASE TopicFile!Found(c)
    <3>1. Fits("copy") \/ Fits("lock")
      BY <1>1, <2>3 DEF TopicFile!Found, TopicFile!Has
    <3>. QED BY <3>1
  <2>4. CASE TopicFile!Copy(c)
    <3>1. Fits("agent") \/ Fits("error")
      BY <1>1, <2>4 DEF TopicFile!Copy
    <3>. QED BY <3>1
  <2>5. CASE TopicFile!AgentEnds(c)
    <3>1. Fits("lock") \/ Fits("clean")
      BY <1>1, <2>5 DEF TopicFile!AgentEnds, TopicFile!Has
    <3>. QED BY <3>1
  <2>6. CASE TopicFile!Unlink(c) \/ TopicFile!CleanUp(c)
    <3>1. Fits("ok")
      BY <1>1, <2>6 DEF TopicFile!Unlink, TopicFile!CleanUp
    <3>. QED BY <3>1
  <2>. QED BY <2>1, <2>2, <2>3, <2>4, <2>5, <2>6
<1>4. x5' \in Seq(Calls) /\ (x5 # <<>> => x5' # <<>> /\ Head(x5') = Head(x5))
  <2>1. x5' = x5 \/ x5' = Append(x5, c)
    BY <1>3
  <2>. QED BY <1>1, <2>1
<1>. QED BY <1>3, <1>4, TopicMoves

\* It was deleted meanwhile.
LEMMA TopicGone == ASSUME TopicsInv, NEW c \in Calls, TopicFile!Gone(c) PROVE TopicsInv'
<1>1. /\ x4[c].step = "lock" /\ x5 # <<>> /\ Head(x5) = c /\ x5' = Tail(x5)
      /\ UNCHANGED <<x1, x2, x3, x6, x7, x8, x9, x10, x11>>
      /\ \/ x4' = [x4 EXCEPT ![c].step = "clean"] /\ x4[c].kind = "title"
         \/ x4' = [x4 EXCEPT ![c].step = "unlink"] /\ x4[c].kind = "delete"
         \/ x4' = [x4 EXCEPT ![c].step = "error"] /\ x4[c].kind # "title"
  BY DEF TopicFile!Gone, TopicFile!At, TopicFile!HasLock, TopicFile!Leaves, TopicFile!After, TopicFile!Goes,
         TopicFile!Files
<1>2. \A d \in Calls : x4[d].step # "write"
  BY <1>1 DEF TopicsInv, CallIs
<1>3. CallIs(c) /\ x7 \subseteq Topics /\ x8 \subseteq Calls /\ x5' \in Seq(Calls)
  BY <1>1, TopicsTypes DEF TopicsInv
<1>4. PICK step \in {"clean", "unlink", "error"} :
        /\ x4' = [x4 EXCEPT ![c].step = step] /\ KindOf(step, x4[c].kind)
        /\ c \in x8 => Copied(c, step, x4[c].kind)
  BY <1>1, <1>3 DEF KindOf, Copied, CallIs
<1>. QED BY <1>1, <1>2, <1>3, <1>4, TopicMoves

\* Memory is changed, by the one that has the mutex.
LEMMA TopicChange == ASSUME TopicsInv, NEW c \in Calls, TopicFile!Change(c) PROVE TopicsInv'
<1> DEFINE t == x4[c].t
           new == TopicFile!Title(c)
<1>1. /\ x4[c].step = "lock" /\ x5 # <<>> /\ Head(x5) = c
      /\ x1' = [x1 EXCEPT ![t] = new] /\ x6' = [x6 EXCEPT ![c] = x1']
      /\ x4' = [x4 EXCEPT ![c].step = "write"]
      /\ UNCHANGED <<x2, x3, x5, x7, x8, x9, x10, x11>>
  BY DEF TopicFile!Change, TopicFile!At, TopicFile!HasLock, TopicFile!Goes, TopicFile!Files
<1>2. CallIs(c) /\ t \in Topics /\ x1 \in TopicFile!Stores
  BY <1>1, TopicsTypes DEF TopicsInv, CallRow, CallIs
<1>3. new \in Calls \cup {TopicFile!Untitled, TopicFile!Absent} /\ (x4[c].kind # "delete" => new # TopicFile!Absent)
  BY PluginAssumption DEF TopicFile!Title, TopicFile!Untitled, TopicFile!Absent
<1> HIDE DEF t, new
<1>4. x1' \in TopicFile!Stores /\ x1'[t] = new /\ \A q \in Topics \ {t} : x1'[q] = x1[q]
  BY <1>1, <1>2, <1>3 DEF TopicFile!Stores
<1>5. /\ x4' \in [Calls -> CallRow] /\ \A d \in Calls \ {c} : x4'[d] = x4[d]
      /\ x4'[c].kind = x4[c].kind /\ x4'[c].t = x4[c].t /\ x4'[c].step = "write"
  BY <1>1, TopicsTypes, CallGoes
<1>6. x6' \in [Calls -> TopicFile!Stores] /\ x6'[c] = x1'
  BY <1>1, <1>4, TopicsTypes
<1>7. TopicFile!TypeOK'
  BY <1>1, <1>4, <1>5, <1>6, TopicsTypes DEF TopicFile!TypeOK, CallRow
<1>8. x1 # TopicFile!Unloaded /\ x1' # TopicFile!Unloaded
  BY <1>2, <1>4, StoreIsLoaded
<1>9. \A d \in Calls : x4[d].step # "write"
  BY <1>1 DEF TopicsInv, CallIs
<1>10. ASSUME NEW d \in Calls PROVE CallIs(d)'
  <2>1. CASE d = c
    BY <1>1, <1>2, <1>3, <1>4, <1>5, <1>6, <1>8, <2>1 DEF CallIs, KindOf, Copied, t
  <2>2. CASE d # c
    <3>1. CallIs(d) /\ x4'[d] = x4[d] /\ x4[d].step # "write"
      BY <1>5, <1>9, <2>2 DEF TopicsInv
    <3>. QED BY <1>1, <1>8, <3>1 DEF CallIs, KindOf, Copied
  <2>. QED BY <2>1, <2>2
<1>11. Onward
  BY <1>5 DEF Onward
<1>12. ASSUME NEW d \in Calls PROVE Confirmed(d)'
  <2>1. CASE d = c
    BY <1>5, <2>1 DEF Confirmed
  <2>2. CASE d # c
    <3> SUFFICES ASSUME NEW q \in Topics, q = x4[d].t, x4[d].kind = "create", x4[d].step = "ok", ~x10
                 PROVE  TopicFile!Deleted(q)' \/ IsThere(q)'
      <4>1. x4[d].t \in Topics /\ x4'[d] = x4[d] /\ (x10' <=> x10)
        BY <1>1, <1>5, <2>2, TopicsTypes DEF CallRow
      <4>. QED BY <4>1 DEF Confirmed, TopicFile!Deleted, TopicFile!At, IsThere
    <3>1. TopicFile!Deleted(q) => TopicFile!Deleted(q)'
      BY <1>11, DeletedStays
    <3>2. TopicFile!Deleted(q) \/ IsThere(q)
      BY DEF TopicsInv, Confirmed
    <3>3. CASE q = t /\ x4[c].kind = "delete"
      BY <1>5, <3>3 DEF TopicFile!Deleted, TopicFile!At, t
    <3>4. CASE q # t \/ x4[c].kind # "delete"
      <4>1. IsThere(q) => IsThere(q)'
        BY <1>1, <1>3, <1>4, <1>8, <3>4 DEF IsThere
      <4>. QED BY <3>1, <3>2, <4>1
    <3>. QED BY <3>3, <3>4
  <2>. QED BY <2>1, <2>2
<1>13. ~NoneWrites'
  BY <1>5 DEF NoneWrites
<1>14. ~x2
  BY <1>8 DEF TopicsInv
<1>. QED BY <1>1, <1>7, <1>10, <1>12, <1>13, <1>14, TopicsTypes DEF TopicsInv

\* What the writer wrote is what is in memory.
LEMMA TopicWrite ==
  ASSUME TopicsInv, NEW c \in Calls, TopicFile!Written(c) \/ TopicFile!WriteFails(c)
  PROVE  TopicsInv'
<1>1. /\ x4[c].step = "write" /\ x5' = Tail(x5) /\ UNCHANGED <<x1, x2, x6, x7, x8, x10, x11>>
      /\ \/ x3' = x6[c] /\ x9' = FALSE
         \/ x3' = x3 /\ x9' = TRUE
      /\ \/ x4' = [x4 EXCEPT ![c].step = "clean"] /\ x4[c].kind = "title"
         \/ x4' = [x4 EXCEPT ![c].step = "unlink"] /\ x4[c].kind = "delete"
         \/ x4' = [x4 EXCEPT ![c].step = "ok"] /\ x4[c].kind # "title" /\ x3' = x6[c]
         \/ x4' = [x4 EXCEPT ![c].step = "error"] /\ x4[c].kind # "title"
  BY DEF TopicFile!Written, TopicFile!WriteFails, TopicFile!At, TopicFile!Leaves, TopicFile!After, TopicFile!Goes,
         TopicFile!Files
<1>2. CallIs(c) /\ x5 # <<>> /\ Head(x5) = c /\ x6[c] = x1 /\ x1 # TopicFile!Unloaded
  BY <1>1 DEF TopicsInv, CallIs
<1>3. x1 \in TopicFile!Stores /\ x5' \in Seq(Calls) /\ x3' \in TopicFile!Stores /\ x9' \in BOOLEAN
  <2>1. x1 \in TopicFile!Stores /\ x3' \in {x3, x1} /\ x9' \in BOOLEAN
    BY <1>1, <1>2, TopicsTypes
  <2>2. x5' \in Seq(Calls)
    BY <1>1, <1>2, TopicsTypes
  <2>. QED BY <2>1, <2>2, TopicsTypes
<1>4. PICK step \in {"clean", "unlink", "ok", "error"} :
        /\ x4' = [x4 EXCEPT ![c].step = step] /\ KindOf(step, x4[c].kind)
        /\ c \in x8 => Copied(c, step, x4[c].kind)
        /\ step = "ok" => x3' = x6[c]
  BY <1>1, <1>2 DEF KindOf, Copied, CallIs
<1>5. /\ x4' \in [Calls -> CallRow] /\ \A d \in Calls \ {c} : x4'[d] = x4[d]
      /\ x4'[c].kind = x4[c].kind /\ x4'[c].t = x4[c].t /\ x4'[c].step = step
  BY <1>4, TopicsTypes, CallGoes
<1>6. TopicFile!TypeOK'
  BY <1>1, <1>3, <1>5, TopicsTypes DEF TopicFile!TypeOK, CallRow
<1>7. \A d \in Calls \ {c} : x4[d].step # "write"
  BY <1>2 DEF TopicsInv, CallIs
<1>8. ASSUME NEW d \in Calls PROVE CallIs(d)'
  <2>1. CASE d = c
    BY <1>1, <1>4, <1>5, <2>1 DEF CallIs, KindOf, Copied
  <2>2. CASE d # c
    <3>1. CallIs(d) /\ x4'[d] = x4[d] /\ x4[d].step # "write"
      BY <1>5, <1>7, <2>2 DEF TopicsInv
    <3>. QED BY <1>1, <3>1 DEF CallIs, KindOf, Copied
  <2>. QED BY <2>1, <2>2
<1>9. Onward
  BY <1>5 DEF Onward
<1>10. x3' = x3 \/ x3' = x1
  BY <1>1, <1>2
<1>11. ASSUME NEW d \in Calls PROVE Confirmed(d)'
  <2> SUFFICES ASSUME NEW q \in Topics, q = x4'[d].t, x4'[d].kind = "create", x4'[d].step = "ok", ~x10
               PROVE  TopicFile!Deleted(q)' \/ IsThere(q)'
    <3>1. x4'[d].t \in Topics /\ (x10' <=> x10)
      BY <1>1, <1>5 DEF CallRow
    <3>. QED BY <3>1 DEF Confirmed, TopicFile!Deleted, TopicFile!At, IsThere
  <2>1. CASE d = c
    <3>1. x1[q] # TopicFile!Absent /\ x3' = x1
      BY <1>1, <1>2, <1>4, <1>5, <2>1 DEF CallIs
    <3>. QED BY <1>1, <3>1 DEF IsThere
  <2>2. CASE d # c
    <3>1. x4'[d] = x4[d] /\ Confirmed(d) /\ (TopicFile!Deleted(q) => TopicFile!Deleted(q)')
      BY <1>5, <1>9, <2>2, DeletedStays DEF TopicsInv
    <3>2. TopicFile!Deleted(q) \/ IsThere(q)
      BY <3>1 DEF Confirmed
    <3>3. IsThere(q) => IsThere(q)'
      BY <1>1, <1>2, <1>10 DEF IsThere
    <3>. QED BY <3>1, <3>2, <3>3
  <2>. QED BY <2>1, <2>2
<1>12. x1 = x3' \/ x9'
  BY <1>1, <1>2
<1>. QED BY <1>1, <1>6, <1>8, <1>11, <1>12 DEF TopicsInv

\* Those that wait for the file get into the line.
LEMMA TopicRead ==
  ASSUME TopicsInv, NEW got \in TopicFile!Stores, TopicFile!ReadDone(got)
  PROVE  TopicsInv'
<1> DEFINE waiting == {c \in Calls : x4[c].step = "load"}
<1>1. /\ x2 /\ x2' = FALSE /\ x1' = got /\ x10' = (x10 \/ got # x3)
      /\ x5' = x5 \o TopicFile!SetToSeq(waiting)
      /\ x4' = [c \in Calls |-> IF c \in waiting THEN [x4[c] EXCEPT !.step = "lock"] ELSE x4[c]]
      /\ UNCHANGED <<x3, x6, x7, x8, x9, x11>>
  BY DEF TopicFile!ReadDone, TopicFile!At, TopicFile!Files
<1>2. TopicFile!SetToSeq(waiting) \in Seq(Calls)
  <2>1. IsFiniteSet(waiting)
    BY PluginAssumption, FS_Subset
  <2>. QED BY <2>1, QueuedTopics
<1>3. x5' \in Seq(Calls)
  BY <1>1, <1>2, TopicsTypes
<1>4. /\ x4' \in [Calls -> CallRow]
      /\ \A d \in Calls : x4'[d].kind = x4[d].kind /\ x4'[d].t = x4[d].t
      /\ \A d \in waiting : x4'[d].step = "lock" /\ x4[d].step = "load"
      /\ \A d \in Calls \ waiting : x4'[d] = x4[d]
  BY <1>1, TopicsTypes DEF CallRow
<1> HIDE DEF waiting
<1>5. x10' \in BOOLEAN /\ (x10 => x10') /\ (~x10' => got = x3)
  BY <1>1, TopicsTypes
<1>6. TopicFile!TypeOK'
  BY <1>1, <1>3, <1>4, <1>5, TopicsTypes DEF TopicFile!TypeOK, CallRow
<1>7. x1 = TopicFile!Unloaded /\ \A d \in Calls : x4[d].step \notin {"lock", "write"}
  BY <1>1 DEF TopicsInv, CallIs
<1>8. ASSUME NEW d \in Calls PROVE CallIs(d)'
  <2>1. x1' # TopicFile!Unloaded
    <3>1. x4[d].t \in Topics
      BY TopicsTypes DEF CallRow
    <3>. QED BY <1>1, <3>1, StoreIsLoaded
  <2>2. CallIs(d)
    BY DEF TopicsInv
  <2>3. CASE d \in waiting
    BY <1>1, <1>4, <2>1, <2>2, <2>3 DEF CallIs, KindOf, Copied
  <2>4. CASE d \notin waiting
    BY <1>1, <1>4, <1>7, <2>1, <2>2, <2>4 DEF CallIs, KindOf, Copied
  <2>. QED BY <2>3, <2>4
<1>9. Onward
  BY <1>4 DEF Onward
<1>10. ASSUME NEW d \in Calls PROVE Confirmed(d)'
  <2> SUFFICES ASSUME NEW q \in Topics, q = x4'[d].t, x4'[d].kind = "create", x4'[d].step = "ok", ~x10'
               PROVE  TopicFile!Deleted(q)' \/ IsThere(q)'
    <3>1. x4'[d].t \in Topics
      BY <1>4 DEF CallRow
    <3>. QED BY <3>1 DEF Confirmed, TopicFile!Deleted, TopicFile!At, IsThere
  <2>1. x4'[d] = x4[d] /\ Confirmed(d) /\ (TopicFile!Deleted(q) => TopicFile!Deleted(q)')
    BY <1>4, <1>9, DeletedStays DEF TopicsInv
  <2>2. ~x10
    BY <1>5
  <2>3. TopicFile!Deleted(q) \/ IsThere(q)
    BY <2>1, <2>2 DEF Confirmed
  <2>4. IsThere(q) => IsThere(q)'
    BY <1>1, <1>5 DEF IsThere
  <2>. QED BY <2>1, <2>3, <2>4
<1>11. x1' = x3' \/ x10'
  BY <1>1, <1>5
<1>. QED BY <1>1, <1>6, <1>8, <1>10, <1>11 DEF TopicsInv

\* Whoever was at work is dead after a restart, and the memory is empty.
LEMMA TopicRestart == ASSUME TopicsInv, TopicFile!Restart PROVE TopicsInv'
<1> DEFINE Over == {"new", "ok", "error", "dead"}
<1>1. /\ x11' = x11 + 1 /\ x11 < MaxRestart
      /\ x1' = TopicFile!Unloaded /\ x2' = TRUE /\ x5' = <<>> /\ x9' = FALSE /\ UNCHANGED <<x3, x6, x7, x8, x10>>
      /\ x4' = [c \in Calls |-> IF x4[c].step \in Over THEN x4[c] ELSE [x4[c] EXCEPT !.step = "dead"]]
  BY DEF TopicFile!Restart, TopicFile!Files
<1>2. /\ x4' \in [Calls -> CallRow]
      /\ \A d \in Calls : x4'[d].kind = x4[d].kind /\ x4'[d].t = x4[d].t
      /\ \A d \in Calls : IF x4[d].step \in Over THEN x4'[d] = x4[d] ELSE x4'[d].step = "dead"
  BY <1>1, TopicsTypes DEF CallRow
<1>3. TopicFile!TypeOK'
  <2>1. x11' \in 0..MaxRestart /\ x5' \in Seq(Calls)
    BY <1>1, PluginAssumption, TopicsTypes
  <2>. QED BY <1>1, <1>2, <2>1, TopicsTypes DEF TopicFile!TypeOK, CallRow
<1>4. ASSUME NEW d \in Calls PROVE CallIs(d)'
  <2>1. CallIs(d)
    BY DEF TopicsInv
  <2>. QED BY <1>1, <1>2, <2>1 DEF CallIs, KindOf, Copied
<1>5. Onward
  BY <1>2 DEF Onward
<1>6. ASSUME NEW d \in Calls PROVE Confirmed(d)'
  <2> SUFFICES ASSUME NEW q \in Topics, q = x4'[d].t, x4'[d].kind = "create", x4'[d].step = "ok", ~x10'
               PROVE  TopicFile!Deleted(q)' \/ IsThere(q)'
    <3>1. x4'[d].t \in Topics
      BY <1>2 DEF CallRow
    <3>. QED BY <3>1 DEF Confirmed, TopicFile!Deleted, TopicFile!At, IsThere
  <2>1. x4'[d] = x4[d] /\ Confirmed(d) /\ (TopicFile!Deleted(q) => TopicFile!Deleted(q)')
    BY <1>2, <1>5, DeletedStays DEF TopicsInv
  <2>2. TopicFile!Deleted(q) \/ IsThere(q)
    BY <1>1, <2>1 DEF Confirmed
  <2>3. IsThere(q) => IsThere(q)'
    BY <1>1 DEF IsThere
  <2>. QED BY <2>1, <2>2, <2>3
<1>. QED BY <1>1, <1>3, <1>4, <1>6 DEF TopicsInv

LEMMA TopicTalk == ASSUME TopicsInv, NEW t \in Topics, TopicFile!Talk(t) PROVE TopicsInv'
<1>1. x7' = x7 \cup {t} /\ UNCHANGED <<x1, x2, x3, x4, x5, x6, x8, x9, x10, x11>>
  BY DEF TopicFile!Talk
<1>2. TopicFile!TypeOK'
  BY <1>1 DEF TopicsInv, TopicFile!TypeOK
<1>. QED BY <1>1, <1>2 DEF TopicsInv, CallIs, KindOf, Copied, Confirmed, TopicFile!Deleted, TopicFile!At, IsThere,
                          NoneWrites

LEMMA TopicsStep == TopicsInv /\ TopicFile!Next => TopicsInv'
<1>1. TopicsInv => x3 \in TopicFile!Stores /\ TopicFile!Empty \in TopicFile!Stores
  BY TopicsTypes DEF TopicFile!Empty, TopicFile!Stores
<1>. QED BY <1>1, TopicRead, TopicRestart, TopicCalls, TopicGone, TopicChange, TopicWrite, TopicTalk DEF TopicFile!Next

LEMMA TopicsStay == TopicsInv => TopicFile!TopicsKept
<1> SUFFICES ASSUME TopicsInv PROVE TopicFile!TopicsKept
  OBVIOUS
<1>1. \A c \in Calls : x4[c].kind = "create" /\ x4[c].step = "ok"
        => x3[x4[c].t] # TopicFile!Absent \/ TopicFile!Deleted(x4[c].t) \/ x10
  BY DEF TopicsInv, Confirmed, IsThere
<1>2. \A c \in x8 : x4[c].step \in {"agent", "lock", "write", "clean", "dead"}
  BY TopicsTypes DEF TopicsInv, CallIs, Copied
<1>. QED BY <1>1, <1>2 DEF TopicsInv, TopicFile!TopicsKept, TopicFile!At, NoneWrites

-----------------------------------------------------------------------------
(* Induction, of a set of numbers *)

Before == {ss \in Nat \X Nat : ss[1] < ss[2]}
LEMMA AllNumbers ==
  ASSUME NEW S, 0 \in S, \A n \in Nat : n \in S => n + 1 \in S
  PROVE  \A n \in Nat : n \in S
<1> SUFFICES ASSUME Nat \ S # {} PROVE FALSE
  OBVIOUS
<1>1. IsWellFoundedOn(Before, Nat)
  BY NatLessThanWellFounded DEF OpToRel, Before
<1>2. PICK x \in Nat \ S : \A y \in Nat \ S : ~(<<y, x>> \in Before)
  BY <1>1, WFMin
<1> DEFINE y == x - 1
<1>3. x # 0 /\ y \in Nat /\ y + 1 = x
  OBVIOUS
<1> HIDE DEF y
<1>4. <<y, x>> \in Before
  BY <1>3 DEF Before
<1>5. y \in S
  BY <1>2, <1>3, <1>4
<1>. QED BY <1>3, <1>5

-----------------------------------------------------------------------------
(* Folds *)

Top(s) == Transcripts!Max(s)

LEMMA TopOf == ASSUME NEW n \in Nat, NEW s \in SUBSET (1..n), n \in s PROVE Top(s) = n
<1>1. n \in s /\ \A y \in s : n >= y
  OBVIOUS
<1>2. \A x \in s : (\A y \in s : x >= y) => x = n
  OBVIOUS
<1>3. Top(s) \in s /\ \A y \in s : Top(s) >= y
  BY <1>1 DEF Top, Transcripts!Max
<1>. QED BY <1>2, <1>3

LEMMA MaxIn ==
  ASSUME NEW n \in Nat, NEW s \in SUBSET (1..n), s # {} PROVE Top(s) \in s
<1> DEFINE S == {m \in Nat : \A t \in SUBSET (1..m) : t # {} => Top(t) \in t}
<1>1. 0 \in S
  <2>1. SUBSET (1..0) = {{}}
    OBVIOUS
  <2>. QED BY <2>1
<1>2. ASSUME NEW m \in Nat, m \in S PROVE m + 1 \in S
  <2> SUFFICES ASSUME NEW t \in SUBSET (1..m + 1), t # {} PROVE Top(t) \in t
    OBVIOUS
  <2>1. CASE m + 1 \in t
    BY <2>1, TopOf
  <2>2. CASE m + 1 \notin t
    <3>1. t \in SUBSET (1..m)
      BY <2>2
    <3>. QED BY <1>2, <3>1
  <2>. QED BY <2>1, <2>2
<1>3. \A m \in Nat : m \in S
  <2> HIDE DEF S
  <2>. QED BY <1>1, <1>2, AllNumbers
<1>. QED BY <1>3

Folds(h, base, g, n) ==
    h = [s \in SUBSET (1..n) |-> IF s = {} THEN base ELSE g[<<Top(s), h[s \ {Top(s)}]>>]]
LEMMA FoldExists ==
  ASSUME NEW V, NEW base \in V, NEW n \in Nat, NEW g \in [(1..n) \X V -> V]
  PROVE  \E h \in [SUBSET (1..n) -> V] : Folds(h, base, g, n)
<1> DEFINE P(m) == m <= n => \E h \in [SUBSET (1..m) -> V] : Folds(h, base, g, m)
           S == {m \in Nat : P(m)}
<1>1. P(0)
  <2> DEFINE h == [s \in SUBSET (1..0) |-> base]
  <2>1. 1..0 = {} /\ SUBSET (1..0) = {{}}
    OBVIOUS
  <2>2. h \in [SUBSET (1..0) -> V] /\ Folds(h, base, g, 0)
    BY <2>1 DEF Folds
  <2>. QED BY <2>2
<1>2. ASSUME NEW m \in Nat, P(m) PROVE P(m + 1)
  <2> SUFFICES ASSUME m + 1 <= n PROVE \E h \in [SUBSET (1..m + 1) -> V] : Folds(h, base, g, m + 1)
    OBVIOUS
  <2>0. m <= n
    OBVIOUS
  <2>1. PICK h \in [SUBSET (1..m) -> V] : Folds(h, base, g, m)
    BY <1>2, <2>0, Zenon
  <2> DEFINE k == [s \in SUBSET (1..m + 1) |-> IF m + 1 \in s THEN g[<<m + 1, h[s \ {m + 1}]>>] ELSE h[s]]
             K == [s \in SUBSET (1..m + 1) |-> IF s = {} THEN base ELSE g[<<Top(s), k[s \ {Top(s)}]>>]]
  <2>2. ASSUME NEW s \in SUBSET (1..m + 1), m + 1 \in s PROVE k[s] \in V /\ k[s] = K[s]
    <3>1. Top(s) = m + 1 /\ s # {}
      BY <2>2, TopOf
    <3>2. s \ {m + 1} \in SUBSET (1..m) /\ s \ {m + 1} \in SUBSET (1..m + 1) /\ m + 1 \notin s \ {m + 1}
      OBVIOUS
    <3>3. k[s \ {m + 1}] = h[s \ {m + 1}] /\ h[s \ {m + 1}] \in V
      BY <3>2
    <3>4. k[s] = g[<<m + 1, h[s \ {m + 1}]>>]
      BY <2>2
    <3>5. K[s] = g[<<Top(s), k[s \ {Top(s)}]>>]
      BY <2>2
    <3>6. g[<<m + 1, h[s \ {m + 1}]>>] \in V
      BY <3>3
    <3> HIDE DEF k, K
    <3>. QED BY <3>1, <3>3, <3>4, <3>5, <3>6
  <2>3. ASSUME NEW s \in SUBSET (1..m + 1), m + 1 \notin s PROVE k[s] \in V /\ k[s] = K[s]
    <3>0. s \in SUBSET (1..m)
      BY <2>3
    <3>1. /\ s \in SUBSET (1..m) /\ s \ {Top(s)} \in SUBSET (1..m) /\ s \ {Top(s)} \in SUBSET (1..m + 1)
          /\ m + 1 \notin s \ {Top(s)}
      <4> DEFINE top == Top(s)
      <4> HIDE DEF top
      <4>. QED BY <3>0, <2>3 DEF top
    <3>2. k[s] = h[s] /\ k[s \ {Top(s)}] = h[s \ {Top(s)}] /\ h[s] \in V
      BY <3>1, <2>3
    <3>3. h[s] = IF s = {} THEN base ELSE g[<<Top(s), h[s \ {Top(s)}]>>]
      BY <2>1, <3>1 DEF Folds
    <3>4. K[s] = IF s = {} THEN base ELSE g[<<Top(s), k[s \ {Top(s)}]>>]
      OBVIOUS
    <3> HIDE DEF k, K
    <3>. QED BY <3>2, <3>3, <3>4
  <2>4. k = K /\ k \in [SUBSET (1..m + 1) -> V]
    <3>1. \A s \in SUBSET (1..m + 1) : k[s] \in V /\ k[s] = K[s]
      BY <2>2, <2>3
    <3>. QED BY <3>1
  <2>5. Folds(k, base, g, m + 1)
    BY <2>4 DEF Folds
  <2>. QED BY <2>4, <2>5
<1> HIDE DEF P
<1>3. 0 \in S /\ \A m \in Nat : m \in S => m + 1 \in S
  BY <1>1, <1>2
<1>4. P(n)
  <2>1. \A m \in Nat : m \in S
    <3> HIDE DEF S
    <3>. QED BY <1>3, AllNumbers
  <2>. QED BY <2>1
<1>5. n <= n
  OBVIOUS
<1>. QED BY <1>4, <1>5, Zenon DEF P

-----------------------------------------------------------------------------
(* Files of a session: the newest one is its row *)

TheRow == [live : BOOLEAN, at : Nat]
\* Only the last one may be live, and each is later than those before it.
Rising(q) ==
    /\ \A i \in 1..Len(q) : i < Len(q) => ~q[i].live
    /\ \A i, j \in 1..Len(q) : i < j => q[j].live \/ q[i].at < q[j].at

LEMMA GroupIsLast ==
  ASSUME NEW q \in Seq(TheRow), Len(q) > 0, Rising(q)
  PROVE  Transcripts!Group(q) = q[Len(q)]
<1> DEFINE n == Len(q)
           g == [z \in (1..n) \X TheRow |-> IF Transcripts!Better(q[z[1]], z[2]) THEN q[z[1]] ELSE z[2]]
           Made(h) == h = [s \in SUBSET (DOMAIN q) |->
                           IF s = {} THEN q[1]
                           ELSE IF Transcripts!Better(q[Transcripts!Max(s)], h[s \ {Transcripts!Max(s)}])
                                THEN q[Transcripts!Max(s)] ELSE h[s \ {Transcripts!Max(s)}]]
           h == CHOOSE iter : Made(iter)
<1>1. n \in Nat /\ n > 0 /\ q[1] \in TheRow /\ g \in [(1..n) \X TheRow -> TheRow] /\ DOMAIN q = 1..n
  OBVIOUS
<1>2. Transcripts!Group(q) = h[DOMAIN q]
  BY Zenon DEF Transcripts!Group, Transcripts!FoldLeft, Transcripts!MapThenFoldSet
<1>3. PICK f \in [SUBSET (1..n) -> TheRow] : Folds(f, q[1], g, n)
  BY <1>1, FoldExists
<1>4. Made(f)
  <2>1. ASSUME NEW s \in SUBSET (1..n), s # {}
        PROVE  g[<<Top(s), f[s \ {Top(s)}]>>] =
                 IF Transcripts!Better(q[Top(s)], f[s \ {Top(s)}]) THEN q[Top(s)] ELSE f[s \ {Top(s)}]
    <3>1. Top(s) \in 1..n
      <4>1. Top(s) \in s
        BY <1>1, <2>1, MaxIn
      <4>. QED BY <4>1
    <3> DEFINE m == Top(s)
    <3> HIDE DEF m
    <3>2. m \in 1..n /\ f[s \ {m}] \in TheRow
      BY <3>1 DEF m
    <3>3. g[<<m, f[s \ {m}]>>] = IF Transcripts!Better(q[m], f[s \ {m}]) THEN q[m] ELSE f[s \ {m}]
      BY <3>2
    <3>. QED BY <3>3 DEF m
  <2> HIDE DEF g
  <2>. QED BY <1>1, <1>3, <2>1 DEF Folds, Top
<1>5. Made(h)
  <2> HIDE DEF Made
  <2>. QED BY <1>4, Zenon
<1>6. h[1..0] = q[1]
  <2>1. 1..0 = {} /\ 1..0 \in SUBSET (DOMAIN q)
    OBVIOUS
  <2>. QED BY <1>5, <2>1
<1>7. ASSUME NEW i \in 1..n
      PROVE  h[1..i] = IF Transcripts!Better(q[i], h[1..i - 1]) THEN q[i] ELSE h[1..i - 1]
  <2>1. i \in Nat /\ i \in 1..i /\ 1..i \in SUBSET (DOMAIN q) /\ (1..i) \ {i} = 1..i - 1 /\ 1..i # {}
    OBVIOUS
  <2>2. Transcripts!Max(1..i) = i
    BY <2>1, TopOf DEF Top
  <2>3. ASSUME NEW s \in SUBSET (DOMAIN q), s # {}, NEW m, m = Transcripts!Max(s), NEW r, r = h[s \ {m}]
        PROVE  h[s] = IF Transcripts!Better(q[m], r) THEN q[m] ELSE r
    <3> HIDE DEF h
    <3>. QED BY <1>5, <2>3
  <2> HIDE DEF h, Made
  <2>4. h[(1..i) \ {i}] = h[1..i - 1]
    BY <2>1
  <2>5. ASSUME NEW r, r = h[(1..i) \ {i}] PROVE h[1..i] = IF Transcripts!Better(q[i], r) THEN q[i] ELSE r
    <3> DEFINE s == 1..i
    <3>1. s \in SUBSET (DOMAIN q) /\ s # {} /\ i = Transcripts!Max(s) /\ r = h[s \ {i}]
      BY <2>1, <2>2, <2>5
    <3> HIDE DEF s
    <3>2. h[s] = IF Transcripts!Better(q[i], r) THEN q[i] ELSE r
      BY <2>3, <3>1
    <3>. QED BY <3>2, Zenon DEF s
  <2> DEFINE r == h[1..i - 1]
  <2>6. r = h[(1..i) \ {i}]
    BY <2>4
  <2> HIDE DEF r
  <2>7. h[1..i] = IF Transcripts!Better(q[i], r) THEN q[i] ELSE r
    BY <2>5, <2>6, Zenon
  <2>. QED BY <2>7, Zenon DEF r
<1> HIDE DEF h
<1>8. \A i \in Nat : i + 1 <= n => h[1..i + 1] = q[i + 1]
  <2> DEFINE N == {i \in Nat : i + 1 <= n => h[1..i + 1] = q[i + 1]}
  <2>1. 0 \in N
    <3>1. h[1..1] = IF Transcripts!Better(q[1], h[1..1 - 1]) THEN q[1] ELSE h[1..1 - 1]
      <4>1. 1 \in 1..n
        BY <1>1
      <4>. QED BY <1>7, <4>1, Zenon
    <3>2. 1..1 - 1 = 1..0
      OBVIOUS
    <3>3. h[1..1] = q[1]
      BY <3>1, <3>2, <1>6
    <3>. QED BY <3>3
  <2>2. ASSUME NEW i \in Nat, i \in N PROVE i + 1 \in N
    <3> DEFINE j == i + 1
               k == j + 1
    <3>0. j \in Nat /\ j = i + 1 /\ k = j + 1 /\ k - 1 = j /\ j >= 1 /\ k \in Nat
      OBVIOUS
    <3> SUFFICES ASSUME k <= n PROVE h[1..k] = q[k]
      OBVIOUS
    <3>1. h[1..j] = q[j]
      BY <2>2
    <3> HIDE DEF j, k
    <3>2. k \in 1..n /\ j \in 1..n /\ j < k /\ j < n
      BY <1>1, <3>0
    <3>3. h[1..k] = IF Transcripts!Better(q[k], q[j]) THEN q[k] ELSE q[j]
      BY <1>7, <3>0, <3>1, <3>2
    <3>4. ~q[j].live /\ (q[k].live \/ q[j].at < q[k].at) /\ q[j] \in TheRow /\ q[k] \in TheRow
      BY <3>2 DEF Rising
    <3>5. Transcripts!Better(q[k], q[j])
      BY <3>4 DEF Transcripts!Better, TheRow
    <3>. QED BY <3>3, <3>5
  <2>3. \A i \in Nat : i \in N
    <3> HIDE DEF N
    <3>. QED BY <2>1, <2>2, AllNumbers
  <2>. QED BY <2>3
<1>9. h[1..n] = q[n]
  <2>1. n - 1 \in Nat /\ (n - 1) + 1 = n /\ n <= n
    BY <1>1
  <2>. QED BY <1>8, <2>1
<1>. QED BY <1>1, <1>2, <1>9

-----------------------------------------------------------------------------
(* Rows, the newest first: how many are before one *)

\* u: the time of each session's row, 0 if there is none
Rowed(u) == {s \in Sessions : u[s] > 0}
Ahead(u, s) == {t \in Sessions : u[t] > u[s]}
Place(u, s) == Cardinality(Ahead(u, s))
RowTimes == {u \in [Sessions -> 0..MaxTime] : \A s, t \in Sessions : u[s] = u[t] /\ u[s] > 0 => s = t}

LEMMA RowedFinite ==
  ASSUME NEW u \in RowTimes
  PROVE  /\ IsFiniteSet(Rowed(u)) /\ Cardinality(Rowed(u)) \in Nat
         /\ \A s \in Sessions : /\ Ahead(u, s) \subseteq Rowed(u) /\ IsFiniteSet(Ahead(u, s))
                                /\ Place(u, s) \in Nat
<1>1. MaxTime \in Nat
  BY PluginAssumption
<1> DEFINE f == [s \in Rowed(u) |-> u[s]]
<1>2. f \in Injection(Rowed(u), 0..MaxTime)
  <2>1. f \in [Rowed(u) -> 0..MaxTime]
    BY DEF RowTimes, Rowed
  <2>2. \A a, b \in Rowed(u) : f[a] = f[b] => a = b
    BY DEF RowTimes, Rowed
  <2>. QED BY <2>1, <2>2 DEF Injection, IsInjective
<1>3. IsFiniteSet(0..MaxTime)
  BY <1>1, FS_Interval
<1> HIDE DEF f
<1>4. IsFiniteSet(Rowed(u))
  BY <1>2, <1>3, FS_Injection
<1>5. ASSUME NEW s \in Sessions PROVE Ahead(u, s) \subseteq Rowed(u)
  BY DEF RowTimes, Ahead, Rowed
<1>6. ASSUME NEW s \in Sessions PROVE IsFiniteSet(Ahead(u, s))
  <2>1. Ahead(u, s) \in SUBSET Rowed(u)
    BY <1>5
  <2>. QED BY <1>4, <2>1, FS_Subset
<1>7. ASSUME NEW s \in Sessions PROVE Place(u, s) \in Nat
  BY <1>6, FS_CardinalityType DEF Place
<1>8. Cardinality(Rowed(u)) \in Nat
  BY <1>4, FS_CardinalityType
<1>. QED BY <1>4, <1>5, <1>6, <1>7, <1>8

\* The newer one is before the older one.
LEMMA PlaceBefore ==
  ASSUME NEW u \in RowTimes, NEW s \in Sessions, NEW t \in Sessions, u[t] > u[s]
  PROVE  Place(u, t) < Place(u, s)
<1>1. u[s] \in Nat /\ u[t] \in Nat /\ \A x \in Sessions : u[x] \in Nat
  BY DEF RowTimes
<1>2. Ahead(u, t) \subseteq Ahead(u, s) /\ t \in Ahead(u, s) /\ t \notin Ahead(u, t)
  BY <1>1 DEF Ahead
<1>3. IsFiniteSet(Ahead(u, s)) /\ Ahead(u, t) \in SUBSET Ahead(u, s) /\ Ahead(u, t) # Ahead(u, s)
  BY <1>2, RowedFinite
<1>4. /\ Cardinality(Ahead(u, t)) <= Cardinality(Ahead(u, s))
      /\ Cardinality(Ahead(u, s)) # Cardinality(Ahead(u, t))
  BY <1>3, FS_Subset
<1>5. Place(u, t) \in Nat /\ Place(u, s) \in Nat
  BY RowedFinite
<1>. QED BY <1>4, <1>5 DEF Place

LEMMA PlaceInside ==
  ASSUME NEW u \in RowTimes, NEW s \in Rowed(u)
  PROVE  Place(u, s) < Cardinality(Rowed(u))
<1>1. s \in Sessions /\ IsFiniteSet(Rowed(u)) /\ Cardinality(Rowed(u)) \in Nat /\ Place(u, s) \in Nat
  BY RowedFinite DEF Rowed
<1>2. Ahead(u, s) \in SUBSET Rowed(u) /\ s \notin Ahead(u, s)
  <2>1. u[s] \in Nat
    BY <1>1 DEF RowTimes
  <2>2. s \notin Ahead(u, s)
    BY <2>1 DEF Ahead
  <2>. QED BY <1>1, <2>2, RowedFinite
<1>3. Cardinality(Ahead(u, s)) <= Cardinality(Rowed(u)) /\ Cardinality(Rowed(u)) # Cardinality(Ahead(u, s))
  BY <1>1, <1>2, FS_Subset
<1>. QED BY <1>1, <1>3 DEF Place

LEMMA PlaceOwn ==
  ASSUME NEW u \in RowTimes, NEW s \in Rowed(u), NEW t \in Rowed(u), Place(u, s) = Place(u, t)
  PROVE  s = t
<1>1. s \in Sessions /\ t \in Sessions /\ u[s] \in Nat /\ u[t] \in Nat /\ u[s] > 0
  BY DEF Rowed, RowTimes
<1>2. Place(u, s) \in Nat /\ Place(u, t) \in Nat
  BY <1>1, RowedFinite
<1>3. ~(u[s] > u[t]) /\ ~(u[t] > u[s])
  BY <1>1, <1>2, PlaceBefore
<1>4. u[s] = u[t]
  BY <1>1, <1>3
<1>. QED BY <1>1, <1>4 DEF RowTimes

\* Every place is taken.
LEMMA PlaceTaken ==
  ASSUME NEW u \in RowTimes, NEW i \in 1..Cardinality(Rowed(u))
  PROVE  \E s \in Rowed(u) : Place(u, s) = i - 1
<1> DEFINE n == Cardinality(Rowed(u))
           f == [s \in Rowed(u) |-> Place(u, s) + 1]
<1>1. n \in Nat /\ IsFiniteSet(Rowed(u)) /\ IsFiniteSet(1..n) /\ Cardinality(1..n) = n
  <2>1. n \in Nat /\ IsFiniteSet(Rowed(u))
    BY RowedFinite
  <2>2. IsFiniteSet(1..n) /\ Cardinality(1..n) = IF 1 > n THEN 0 ELSE n - 1 + 1
    BY <2>1, FS_Interval
  <2> HIDE DEF n
  <2>. QED BY <2>1, <2>2
<1>2. f \in Injection(Rowed(u), 1..n)
  <2>1. ASSUME NEW s \in Rowed(u) PROVE Place(u, s) \in Nat /\ Place(u, s) < n
    <3>1. s \in Sessions
      BY DEF Rowed
    <3>. QED BY <3>1, RowedFinite, PlaceInside
  <2> HIDE DEF n
  <2>2. \A s \in Rowed(u) : Place(u, s) + 1 \in 1..n
    BY <1>1, <2>1
  <2>3. f \in [Rowed(u) -> 1..n]
    BY <2>2
  <2>4. \A a, b \in Rowed(u) : f[a] = f[b] => Place(u, a) = Place(u, b)
    BY <2>1
  <2>5. \A a, b \in Rowed(u) : f[a] = f[b] => a = b
    BY <2>4, PlaceOwn
  <2> HIDE DEF f
  <2>. QED BY <2>3, <2>5 DEF Injection, IsInjective
<1>3. f \in Surjection(Rowed(u), 1..n)
  <2> HIDE DEF f
  <2>. QED BY <1>1, <1>2, FS_Injection DEF n
<1>4. PICK s \in Rowed(u) : f[s] = i
  <2> HIDE DEF f
  <2>. QED BY <1>3 DEF Surjection
<1>5. s \in Sessions /\ Place(u, s) \in Nat /\ i = Place(u, s) + 1
  <2>1. s \in Sessions
    BY DEF Rowed
  <2>2. Place(u, s) \in Nat
    BY <2>1, RowedFinite
  <2>. QED BY <1>4, <2>1, <2>2
<1>6. Place(u, s) = i - 1
  BY <1>5
<1>. QED BY <1>6

-----------------------------------------------------------------------------
(* Transcripts: what is in the directory *)

TheFile == {f \in [gen : 0..MaxTime, at : 0..MaxTime, lines : 0..MaxLines] : f.gen <= f.at}
TheFiles == [live : TheFile, archived : Seq(TheFile)]

\* A file is archived with the time of its last write.
InOrder(f) ==
    /\ \A i, j \in 1..Len(f.archived) : i < j => f.archived[i].at < f.archived[j].at
    /\ f.live # Transcripts!NoFile => \A i \in 1..Len(f.archived) : f.archived[i].at < f.live.at

\* No two sessions have the time of the same write.
Stamps(f, ix) == {f.live.at, ix} \cup {f.archived[i].at : i \in 1..Len(f.archived)}
DirInv ==
    /\ x1 \in [Sessions -> TheFiles] /\ x2 \in [Sessions -> 0..MaxTime] /\ x3 \in 1..MaxTime + 1
    /\ \A s \in Sessions : InOrder(x1[s]) /\ \A t \in Stamps(x1[s], x2[s]) : t < x3
    /\ \A s, t \in Sessions : s # t => Stamps(x1[s], x2[s]) \cap Stamps(x1[t], x2[t]) \subseteq {0}

\* The row of a session.
Newest(f, ix) ==
    IF f.live # Transcripts!NoFile THEN f.live.at
    ELSE IF f.archived = <<>> THEN ix ELSE f.archived[Len(f.archived)].at
U == [s \in Sessions |-> Newest(x1[s], x2[s])]

NamesOf(f) ==
    [i \in DOMAIN f.archived |-> [live |-> FALSE, at |-> f.archived[i].at]]
    \o (IF f.live = Transcripts!NoFile THEN <<>> ELSE <<[live |-> TRUE, at |-> f.live.at]>>)

LEMMA NamesNewest ==
  ASSUME NEW f \in TheFiles, InOrder(f), NEW ix
  PROVE  (IF NamesOf(f) = <<>> THEN ix ELSE Transcripts!Group(NamesOf(f)).at) = Newest(f, ix)
<1>0. MaxTime \in Nat
  BY PluginAssumption
<1> DEFINE q == f.archived
           a == [i \in DOMAIN q |-> [live |-> FALSE, at |-> q[i].at]]
<1>1. q \in Seq(TheFile) /\ f.live.at \in Nat /\ Len(q) \in Nat /\ DOMAIN q = 1..Len(q)
      /\ \A i \in 1..Len(q) : q[i].at \in Nat
  BY <1>0 DEF TheFiles, TheFile
<1>2. a \in Seq(TheRow) /\ Len(a) = Len(q)
      /\ \A i \in 1..Len(q) : ~a[i].live /\ a[i].at = q[i].at
  BY <1>1 DEF TheRow
<1> HIDE DEF q
<1>3. CASE f.live = Transcripts!NoFile
  <2>1. NamesOf(f) = a
    <3>1. NamesOf(f) = a \o <<>>
      BY <1>3 DEF NamesOf, q
    <3> HIDE DEF a
    <3>. QED BY <1>2, <3>1
  <2>2. CASE q = <<>>
    <3>1. a = <<>>
      BY <1>2, <2>2
    <3>. QED BY <1>3, <2>1, <2>2, <3>1 DEF Newest, q
  <2>3. CASE q # <<>>
    <3>1. Len(q) > 0 /\ Len(a) > 0 /\ a # <<>>
      BY <1>1, <1>2, <2>3
    <3>2. \A i, j \in 1..Len(a) : i < j => a[i].at < a[j].at
      BY <1>2 DEF InOrder, q
    <3>3. Rising(a)
      <4> HIDE DEF a
      <4>. QED BY <1>2, <3>2 DEF Rising
    <3>4. Transcripts!Group(a) = a[Len(a)]
      <4> HIDE DEF a
      <4>. QED BY <1>2, <3>1, <3>3, GroupIsLast
    <3>5. a[Len(a)].at = q[Len(q)].at
      BY <1>1, <1>2, <3>1
    <3> HIDE DEF a
    <3>. QED BY <1>3, <2>1, <2>3, <3>1, <3>4, <3>5 DEF Newest, q
  <2>. QED BY <2>2, <2>3
<1>4. CASE f.live # Transcripts!NoFile
  <2> DEFINE r == [live |-> TRUE, at |-> f.live.at]
             b == Append(a, r)
  <2>1. r \in TheRow /\ r.live /\ r.at = f.live.at
    BY <1>1 DEF TheRow
  <2>2. NamesOf(f) = b
    <3>1. NamesOf(f) = a \o <<r>>
      BY <1>4 DEF NamesOf, q
    <3> HIDE DEF a, r
    <3>. QED BY <1>2, <2>1, <3>1
  <2> HIDE DEF a, r
  <2>3. b \in Seq(TheRow) /\ Len(b) = Len(q) + 1 /\ b[Len(q) + 1] = r /\ \A i \in 1..Len(q) : b[i] = a[i]
    BY <1>1, <1>2, <2>1
  <2> HIDE DEF b
  <2>4. \A i \in 1..Len(b) : i < Len(b) => ~b[i].live
    BY <1>1, <1>2, <2>3
  <2>5. \A i, j \in 1..Len(b) : i < j => b[j].live \/ b[i].at < b[j].at
    <3> SUFFICES ASSUME NEW i \in 1..Len(b), NEW j \in 1..Len(b), i < j PROVE b[j].live \/ b[i].at < b[j].at
      OBVIOUS
    <3>1. CASE j = Len(q) + 1
      BY <2>1, <2>3, <3>1
    <3>2. CASE j # Len(q) + 1
      <4>1. i \in 1..Len(q) /\ j \in 1..Len(q)
        BY <1>1, <2>3, <3>2
      <4>2. q[i].at < q[j].at
        BY <4>1 DEF InOrder, q
      <4>. QED BY <1>2, <2>3, <4>1, <4>2
    <3>. QED BY <3>1, <3>2
  <2>6. Rising(b)
    BY <2>4, <2>5, Zenon DEF Rising
  <2>7. Len(b) > 0 /\ b # <<>> /\ b[Len(b)] = r
    BY <1>1, <2>3
  <2>8. Transcripts!Group(b) = r
    BY <2>3, <2>6, <2>7, GroupIsLast
  <2>. QED BY <1>4, <2>1, <2>2, <2>7, <2>8 DEF Newest
<1>. QED BY <1>3, <1>4

LEMMA CountsSame == ASSUME NEW S PROVE Transcripts!Cardinality(S) = Cardinality(S)
  BY Zenon DEF Transcripts!Cardinality, Cardinality

LEMMA NewestIsStamp ==
  ASSUME NEW f \in TheFiles, NEW ix PROVE Newest(f, ix) \in Stamps(f, ix)
<1>1. Len(f.archived) \in Nat /\ (f.archived # <<>> => Len(f.archived) \in 1..Len(f.archived))
  BY DEF TheFiles
<1>. QED BY <1>1 DEF Newest, Stamps

\* The rows are those of the files, each with a time of its own.
LEMMA RowsTimed ==
  ASSUME DirInv
  PROVE  /\ U \in RowTimes /\ \A s \in Sessions : Transcripts!UpdatedAt(s) = U[s]
         /\ Transcripts!Listed = Rowed(U) /\ \A s \in Rowed(U) : Transcripts!Rank(s) = Place(U, s)
<1>0. MaxTime \in Nat
  BY PluginAssumption
<1>1. ASSUME NEW s \in Sessions PROVE Transcripts!UpdatedAt(s) = U[s] /\ U[s] \in 0..MaxTime
                                      /\ U[s] \in Stamps(x1[s], x2[s])
  <2>1. x1[s] \in TheFiles /\ InOrder(x1[s]) /\ x2[s] \in 0..MaxTime
    BY DEF DirInv
  <2>2. Transcripts!Named(s) = NamesOf(x1[s])
    BY DEF Transcripts!Named, NamesOf
  <2>3. Transcripts!UpdatedAt(s) = Newest(x1[s], x2[s])
    BY <2>1, <2>2, NamesNewest DEF Transcripts!UpdatedAt
  <2>4. Newest(x1[s], x2[s]) \in Stamps(x1[s], x2[s])
    BY <2>1, NewestIsStamp
  <2>5. Stamps(x1[s], x2[s]) \subseteq 0..MaxTime
    <3>1. x1[s].live.at \in 0..MaxTime /\ \A i \in 1..Len(x1[s].archived) : x1[s].archived[i].at \in 0..MaxTime
      BY <2>1 DEF TheFiles, TheFile
    <3>. QED BY <2>1, <3>1 DEF Stamps
  <2>. QED BY <2>3, <2>4, <2>5 DEF U
<1>2. U \in RowTimes
  <2>1. ASSUME NEW s \in Sessions, NEW t \in Sessions, U[s] = U[t], U[s] > 0 PROVE s = t
    <3>1. U[s] \in Stamps(x1[s], x2[s]) /\ U[s] \in Stamps(x1[t], x2[t]) /\ U[s] # 0
      BY <1>0, <1>1, <2>1
    <3>. QED BY <3>1 DEF DirInv
  <2>2. U \in [Sessions -> 0..MaxTime]
    <3>1. U = [s \in Sessions |-> U[s]]
      BY DEF U
    <3>. QED BY <1>1, <3>1
  <2>. QED BY <2>1, <2>2 DEF RowTimes
<1>3. Transcripts!Listed = Rowed(U)
  BY <1>1 DEF Transcripts!Listed, Rowed
<1>4. ASSUME NEW s \in Rowed(U) PROVE Transcripts!Rank(s) = Place(U, s)
  <2>1. s \in Sessions
    BY DEF Rowed
  <2>2. Transcripts!Rank(s) = Cardinality({t \in Rowed(U) : U[t] > U[s]})
    <3>1. \A t \in Rowed(U) : Transcripts!Sort(t, s) <=> U[t] > U[s]
      BY <1>1, <2>1 DEF Transcripts!Sort, Transcripts!Newer, Rowed
    <3>2. {t \in Rowed(U) : Transcripts!Sort(t, s)} = {t \in Rowed(U) : U[t] > U[s]}
      BY <3>1
    <3>3. {t \in Transcripts!Listed : Transcripts!Sort(t, s)} = {t \in Rowed(U) : U[t] > U[s]}
      BY <1>3, <3>2, Zenon
    <3>4. Transcripts!Rank(s) = Cardinality({t \in Transcripts!Listed : Transcripts!Sort(t, s)})
      BY CountsSame, Zenon DEF Transcripts!Rank
    <3>. QED BY <3>3, <3>4, Zenon
  <2>3. {t \in Rowed(U) : U[t] > U[s]} = Ahead(U, s)
    <3>1. Ahead(U, s) \subseteq Rowed(U)
      BY <1>2, <2>1, RowedFinite
    <3>. QED BY <3>1 DEF Ahead, Rowed
  <2>. QED BY <2>2, <2>3 DEF Place
<1>. QED BY <1>1, <1>2, <1>3, <1>4

\* The list of the rows, each at its place.
LEMMA RowsPlaced ==
  ASSUME DirInv
  PROVE  /\ Transcripts!Rows \in [1..Cardinality(Rowed(U)) -> Rowed(U)]
         /\ \A i \in 1..Cardinality(Rowed(U)) : Place(U, Transcripts!Rows[i]) = i - 1
<1> DEFINE n == Cardinality(Rowed(U))
<1>1. U \in RowTimes /\ Transcripts!Listed = Rowed(U) /\ \A s \in Rowed(U) : Transcripts!Rank(s) = Place(U, s)
  BY RowsTimed
<1>2. ASSUME NEW i \in 1..n
      PROVE  LET s == CHOOSE s \in Transcripts!Listed : Transcripts!Rank(s) = i - 1
             IN  s \in Rowed(U) /\ Place(U, s) = i - 1
  <2>1. PICK s \in Rowed(U) : Place(U, s) = i - 1
    BY <1>1, PlaceTaken
  <2>2. s \in Transcripts!Listed /\ Transcripts!Rank(s) = i - 1
    BY <1>1, <2>1
  <2> DEFINE c == CHOOSE t \in Transcripts!Listed : Transcripts!Rank(t) = i - 1
  <2>3. c \in Transcripts!Listed /\ Transcripts!Rank(c) = i - 1
    BY <2>2, Zenon
  <2> HIDE DEF c
  <2>4. c \in Rowed(U) /\ Place(U, c) = i - 1
    BY <1>1, <2>3
  <2>. QED BY <2>4 DEF c
<1>3. Transcripts!Rows = [i \in 1..n |-> CHOOSE s \in Transcripts!Listed : Transcripts!Rank(s) = i - 1]
  <2>1. Transcripts!Cardinality(Transcripts!Listed) = n
    BY <1>1, CountsSame
  <2>. QED BY <2>1, Zenon DEF Transcripts!Rows
<1> DEFINE c(i) == CHOOSE s \in Transcripts!Listed : Transcripts!Rank(s) = i - 1
<1>4. \A i \in 1..n : c(i) \in Rowed(U) /\ Place(U, c(i)) = i - 1
  BY <1>2
<1>5. Transcripts!Rows = [i \in 1..n |-> c(i)]
  BY <1>3
<1> HIDE DEF c
<1>. QED BY <1>4, <1>5

\* A list of rows that are at their places.
Lists(q, u) ==
    /\ q \in [1..Cardinality(Rowed(u)) -> Rowed(u)]
    /\ \A i \in 1..Cardinality(Rowed(u)) : Place(u, q[i]) = i - 1

LEMMA ListsAll ==
  ASSUME NEW u \in RowTimes, NEW q, Lists(q, u)
  PROVE  /\ q \in Seq(Sessions) /\ Len(q) = Cardinality(Rowed(u)) /\ Len(q) \in Nat
         /\ \A s \in Rowed(u) : Place(u, s) + 1 \in 1..Len(q) /\ q[Place(u, s) + 1] = s
<1> DEFINE n == Cardinality(Rowed(u))
<1>1. n \in Nat
  BY RowedFinite
<1>2. Rowed(u) \subseteq Sessions
  BY DEF Rowed
<1>3. q \in Seq(Sessions) /\ Len(q) = n
  <2> HIDE DEF n
  <2>1. q \in [1..n -> Sessions]
    BY <1>2 DEF Lists, n
  <2>. QED BY <1>1, <2>1
<1>4. ASSUME NEW s \in Rowed(u) PROVE Place(u, s) + 1 \in 1..n /\ q[Place(u, s) + 1] = s
  <2>1. Place(u, s) \in Nat /\ Place(u, s) < n
    BY <1>2, RowedFinite, PlaceInside
  <2> DEFINE i == Place(u, s) + 1
  <2>2. i \in 1..n /\ i - 1 = Place(u, s)
    <3> HIDE DEF n
    <3>. QED BY <1>1, <2>1
  <2> HIDE DEF i
  <2>3. q[i] \in Rowed(u) /\ Place(u, q[i]) = Place(u, s)
    BY <2>2 DEF Lists
  <2>4. q[i] = s
    BY <2>3, PlaceOwn
  <2>. QED BY <2>2, <2>4 DEF i
<1>. QED BY <1>1, <1>3, <1>4

-----------------------------------------------------------------------------
(* Pages *)

LEMMA LeastOf == ASSUME NEW a \in Int, NEW b \in Int PROVE Transcripts!Min({a, b}) = IF a <= b THEN a ELSE b
<1> DEFINE m == IF a <= b THEN a ELSE b
           P(x) == x \in {a, b} /\ \A y \in {a, b} : x =< y
<1>1. P(m)
  OBVIOUS
<1>2. \A x : P(x) => x = m
  OBVIOUS
<1>3. Transcripts!Min({a, b}) = CHOOSE x \in {a, b} : \A y \in {a, b} : x =< y
  BY DEF Transcripts!Min
<1>4. P(Transcripts!Min({a, b}))
  BY <1>1, <1>3
<1> HIDE DEF P, m
<1>5. Transcripts!Min({a, b}) = m
  BY <1>2, <1>4
<1>. QED BY <1>5 DEF m

LEMMA MostOf == ASSUME NEW a \in Int, NEW b \in Int PROVE Transcripts!Max({a, b}) = IF a >= b THEN a ELSE b
<1> DEFINE m == IF a >= b THEN a ELSE b
           P(x) == x \in {a, b} /\ \A y \in {a, b} : x >= y
<1>1. P(m)
  OBVIOUS
<1>2. \A x : P(x) => x = m
  OBVIOUS
<1>3. Transcripts!Max({a, b}) = CHOOSE x \in {a, b} : \A y \in {a, b} : x >= y
  BY DEF Transcripts!Max
<1>4. P(Transcripts!Max({a, b}))
  BY <1>1, <1>3
<1> HIDE DEF P, m
<1>5. Transcripts!Max({a, b}) = m
  BY <1>2, <1>4
<1>. QED BY <1>5 DEF m

\* What is left of n, and no more than a page.
Page(n, c) == IF n <= c THEN 0 ELSE IF n - c <= Limit THEN n - c ELSE Limit
LEMMA SliceIs ==
  ASSUME NEW T, NEW q \in Seq(T), NEW c \in Nat
  PROVE  /\ Page(Len(q), c) \in Nat /\ Page(Len(q), c) <= Limit
         /\ \A i \in 1..Page(Len(q), c) : c + i \in 1..Len(q)
         /\ Transcripts!Slice(q, c) = [i \in 1..Page(Len(q), c) |-> q[c + i]]
         /\ Transcripts!Slice(q, c) \in Seq(T) /\ Len(Transcripts!Slice(q, c)) = Page(Len(q), c)
<1> DEFINE n == Len(q)
           k == Page(n, c)
<1>1. n \in Nat /\ Limit \in Nat /\ Limit > 0
  BY PluginAssumption
<1>2. k \in Nat /\ k <= Limit /\ \A i \in 1..k : c + i \in 1..n
  <2> HIDE DEF n
  <2>. QED BY <1>1 DEF Page
<1>3. Transcripts!Min({Limit, Transcripts!Max({n - c, 0})}) = k
  <2> HIDE DEF n
  <2>1. Transcripts!Max({n - c, 0}) = IF n - c >= 0 THEN n - c ELSE 0
    BY <1>1, MostOf
  <2> DEFINE r == IF n - c >= 0 THEN n - c ELSE 0
  <2>2. r \in Int /\ (IF Limit <= r THEN Limit ELSE r) = k
    BY <1>1 DEF Page
  <2> HIDE DEF r
  <2>3. Transcripts!Min({Limit, r}) = IF Limit <= r THEN Limit ELSE r
    BY <1>1, <2>2, LeastOf
  <2>. QED BY <2>1, <2>2, <2>3 DEF r
<1>4. Transcripts!Slice(q, c) = [i \in 1..k |-> q[c + i]]
  <2> HIDE DEF k
  <2>. QED BY <1>3 DEF Transcripts!Slice
<1>5. Transcripts!Slice(q, c) \in Seq(T) /\ Len(Transcripts!Slice(q, c)) = k
  <2>1. \A i \in 1..k : q[c + i] \in T
    BY <1>2
  <2> HIDE DEF k
  <2>2. [i \in 1..k |-> q[c + i]] \in [1..k -> T]
    BY <2>1
  <2>. QED BY <1>2, <1>4, <2>2
<1>. QED BY <1>2, <1>4, <1>5

-----------------------------------------------------------------------------
(* A caller going through the list *)

Walks == [at : {"none", "open", "done"}, cursor : Nat, seen : Seq(Sessions), still : SUBSET Sessions,
          moved : BOOLEAN, gone : BOOLEAN]
Seen(q, s) == \E i \in 1..Len(q) : q[i] = s
NotTwice(q, s) == \A i, j \in 1..Len(q) : q[i] = s /\ q[j] = s => i = j

\* Of the sessions whose row has not moved, those not seen yet are still to come,
\* and those seen do not come again.
GoesOn1(w, u, s) == ~w.gone => Seen(w.seen, s) \/ Place(u, s) >= w.cursor
GoesOn2(w, u, s) == ~w.moved => NotTwice(w.seen, s) /\ (Seen(w.seen, s) => Place(u, s) < w.cursor)
Goes(w, u) == \A s \in w.still : s \in Rowed(u) /\ GoesOn1(w, u, s) /\ GoesOn2(w, u, s)
Went(w) == \A s \in w.still : (~w.gone => Seen(w.seen, s)) /\ (~w.moved => NotTwice(w.seen, s))

\* The sessions on a page are those at its places, once each.
LEMMA OnPage ==
  ASSUME NEW u \in RowTimes, NEW q, Lists(q, u), NEW c \in Nat, NEW s \in Rowed(u)
  PROVE  /\ Seen(Transcripts!Slice(q, c), s) <=> c <= Place(u, s) /\ Place(u, s) < c + Limit
         /\ NotTwice(Transcripts!Slice(q, c), s)
<1> DEFINE p == Transcripts!Slice(q, c)
           n == Len(q)
           k == Page(n, c)
           a == Place(u, s)
<1>1. /\ q \in Seq(Sessions) /\ n = Cardinality(Rowed(u)) /\ n \in Nat /\ a + 1 \in 1..n /\ q[a + 1] = s
  BY ListsAll
<1>2. /\ k \in Nat /\ k <= Limit /\ \A i \in 1..k : c + i \in 1..n
      /\ p = [i \in 1..k |-> q[c + i]] /\ Len(p) = k
  BY <1>1, SliceIs
<1>3. Limit \in Nat /\ Limit > 0 /\ a \in Nat
  <2>1. Limit \in Nat /\ Limit > 0
    BY PluginAssumption
  <2>2. s \in Sessions
    BY DEF Rowed
  <2>. QED BY <2>1, <2>2, RowedFinite
<1>4. ASSUME NEW i \in 1..k, p[i] = s PROVE c + i = a + 1
  <2>1. c + i \in 1..n /\ q[c + i] = s
    BY <1>2, <1>4
  <2>2. a = c + i - 1
    BY <1>1, <2>1 DEF Lists
  <2> HIDE DEF k, a
  <2>. QED BY <1>2, <1>3, <2>2
<1>5. ASSUME c <= a, a < c + Limit PROVE \E i \in 1..k : p[i] = s
  <2> DEFINE i == a + 1 - c
  <2>1. i \in 1..k /\ c + i = a + 1
    <3> HIDE DEF a, n
    <3>. QED BY <1>1, <1>3, <1>5 DEF Page
  <2> HIDE DEF i, k, a, p
  <2>2. p[i] = q[c + i]
    BY <1>2, <2>1
  <2>3. p[i] = s
    BY <1>1, <2>1, <2>2
  <2>. QED BY <2>1, <2>3
<1> HIDE DEF k, a, p, n
<1>6. Seen(p, s) => c <= a /\ a < c + Limit
  <2> SUFFICES ASSUME NEW i \in 1..k, p[i] = s PROVE c <= a /\ a < c + Limit
    BY <1>2 DEF Seen
  <2>. QED BY <1>2, <1>3, <1>4
<1>7. c <= a /\ a < c + Limit => Seen(p, s)
  BY <1>2, <1>5 DEF Seen
<1>8. NotTwice(p, s)
  <2>1. ASSUME NEW i \in 1..k, NEW j \in 1..k, p[i] = s, p[j] = s PROVE i = j
    BY <1>2, <1>3, <1>4, <2>1
  <2>. QED BY <1>2, <2>1 DEF NotTwice
<1>. QED BY <1>6, <1>7, <1>8 DEF p, a

\* Pages put together.
LEMMA SeenJoined ==
  ASSUME NEW q \in Seq(Sessions), NEW p \in Seq(Sessions), NEW s
  PROVE  /\ Seen(q \o p, s) <=> Seen(q, s) \/ Seen(p, s)
         /\ NotTwice(q, s) /\ NotTwice(p, s) /\ ~(Seen(q, s) /\ Seen(p, s)) => NotTwice(q \o p, s)
<1> DEFINE r == q \o p
<1>1. /\ Len(q) \in Nat /\ Len(p) \in Nat /\ Len(r) = Len(q) + Len(p)
      /\ \A i \in 1..Len(q) : r[i] = q[i]
      /\ \A i \in 1..Len(p) : r[Len(q) + i] = p[i] /\ Len(q) + i \in 1..Len(r)
      /\ \A i \in 1..Len(r) : i \in 1..Len(q) \/ (i - Len(q) \in 1..Len(p) /\ r[i] = p[i - Len(q)])
  OBVIOUS
<1> HIDE DEF r
<1>2. Seen(r, s) => Seen(q, s) \/ Seen(p, s)
  BY <1>1 DEF Seen
<1>3. Seen(q, s) => Seen(r, s)
  BY <1>1 DEF Seen
<1>4. Seen(p, s) => Seen(r, s)
  <2> SUFFICES ASSUME NEW i \in 1..Len(p), p[i] = s PROVE Seen(r, s)
    BY DEF Seen
  <2>1. r[Len(q) + i] = s /\ Len(q) + i \in 1..Len(r)
    BY <1>1
  <2>. QED BY <2>1 DEF Seen
<1>5. ASSUME NotTwice(q, s), NotTwice(p, s), ~(Seen(q, s) /\ Seen(p, s)) PROVE NotTwice(r, s)
  <2> SUFFICES ASSUME NEW i \in 1..Len(r), NEW j \in 1..Len(r), r[i] = s, r[j] = s PROVE i = j
    BY DEF NotTwice
  <2>1. CASE i \in 1..Len(q) /\ j \in 1..Len(q)
    BY <1>1, <1>5, <2>1 DEF NotTwice
  <2>2. CASE i \notin 1..Len(q) /\ j \notin 1..Len(q)
    <3>1. i - Len(q) \in 1..Len(p) /\ j - Len(q) \in 1..Len(p) /\ p[i - Len(q)] = s /\ p[j - Len(q)] = s
      BY <1>1, <2>2
    <3>2. i - Len(q) = j - Len(q)
      BY <1>5, <3>1 DEF NotTwice
    <3>. QED BY <1>1, <3>2
  <2>3. CASE i \in 1..Len(q) /\ j \notin 1..Len(q)
    BY <1>1, <1>5, <2>3 DEF Seen
  <2>4. CASE i \notin 1..Len(q) /\ j \in 1..Len(q)
    BY <1>1, <1>5, <2>4 DEF Seen
  <2>. QED BY <2>1, <2>2, <2>3, <2>4
<1>. QED BY <1>2, <1>3, <1>4, <1>5 DEF r

\* After a page.
LEMMA PageRead ==
  ASSUME NEW u \in RowTimes, NEW q, Lists(q, u), NEW w \in Walks, Goes(w, u), NEW v \in Walks,
         v.seen = w.seen \o Transcripts!Slice(q, w.cursor), v.cursor = w.cursor + Limit,
         v.still = w.still, v.moved = w.moved, v.gone = w.gone
  PROVE  /\ Goes(v, u)
         /\ ~Transcripts!More(q, w.cursor) => Went(v)
<1> DEFINE c == w.cursor
           p == Transcripts!Slice(q, c)
<1>1. c \in Nat /\ w.seen \in Seq(Sessions) /\ Limit \in Nat /\ v.cursor \in Nat
  BY PluginAssumption DEF Walks
<1>2. q \in Seq(Sessions) /\ p \in Seq(Sessions) /\ Len(q) \in Nat /\ Len(q) = Cardinality(Rowed(u))
  BY <1>1, ListsAll, SliceIs
<1>3. ASSUME NEW s \in w.still
      PROVE  s \in Rowed(u) /\ GoesOn1(v, u, s) /\ GoesOn2(v, u, s)
             /\ Place(u, s) \in Nat /\ Place(u, s) < Len(q)
  <2>1. s \in Rowed(u) /\ GoesOn1(w, u, s) /\ GoesOn2(w, u, s)
    BY DEF Goes
  <2>2. Place(u, s) \in Nat /\ Place(u, s) < Len(q)
    <3>1. s \in Sessions
      BY <2>1 DEF Rowed
    <3>. QED BY <1>2, <2>1, <3>1, RowedFinite, PlaceInside
  <2>3. /\ Seen(p, s) <=> c <= Place(u, s) /\ Place(u, s) < c + Limit
        /\ NotTwice(p, s)
    BY <1>1, <2>1, OnPage
  <2> HIDE DEF p
  <2>4. /\ Seen(v.seen, s) <=> Seen(w.seen, s) \/ Seen(p, s)
        /\ NotTwice(w.seen, s) /\ NotTwice(p, s) /\ ~(Seen(w.seen, s) /\ Seen(p, s)) => NotTwice(v.seen, s)
    BY <1>1, <1>2, SeenJoined DEF p
  <2>5. GoesOn1(v, u, s)
    BY <1>1, <2>1, <2>2, <2>3, <2>4 DEF GoesOn1
  <2>6. GoesOn2(v, u, s)
    BY <1>1, <2>1, <2>2, <2>3, <2>4 DEF GoesOn2
  <2>. QED BY <2>1, <2>2, <2>5, <2>6
<1> HIDE DEF p
<1>4. Goes(v, u)
  BY <1>3, Zenon DEF Goes
<1>5. ASSUME ~Transcripts!More(q, c) PROVE Went(v)
  <2>1. c + Limit >= Len(q)
    BY <1>1, <1>2, <1>5 DEF Transcripts!More
  <2> SUFFICES ASSUME NEW s \in w.still
               PROVE  (~v.gone => Seen(v.seen, s)) /\ (~v.moved => NotTwice(v.seen, s))
    BY DEF Went
  <2>2. ~(Place(u, s) >= v.cursor)
    BY <1>1, <1>2, <1>3, <2>1
  <2>. QED BY <1>3, <2>2 DEF GoesOn1, GoesOn2
<1>. QED BY <1>4, <1>5 DEF c

\* A row moves up: those of the others go back, if anything.
LEMMA MovesUp ==
  ASSUME NEW u \in RowTimes, NEW z \in RowTimes, NEW s \in Sessions, z[s] >= u[s],
         \A t \in Sessions \ {s} : z[t] = u[t],
         NEW w \in Walks, Goes(w, u), NEW v \in Walks,
         v.seen = w.seen, v.cursor = w.cursor, v.still \subseteq w.still \ {s}, v.moved, v.gone = w.gone
  PROVE  Goes(v, z)
<1>1. ASSUME NEW t \in v.still PROVE t \in Rowed(z) /\ GoesOn1(v, z, t) /\ GoesOn2(v, z, t)
  <2>1. t \in Sessions /\ t # s /\ t \in Rowed(u) /\ GoesOn1(w, u, t) /\ t \in w.still
    BY DEF Walks, Goes
  <2>2. t \in Rowed(z) /\ z[t] = u[t]
    BY <2>1 DEF Rowed
  <2>3. \A x \in Sessions : u[x] \in Nat /\ z[x] \in Nat
    BY PluginAssumption DEF RowTimes
  <2>4. Ahead(u, t) \in SUBSET Ahead(z, t)
    BY <2>1, <2>2, <2>3 DEF Ahead
  <2>5. Place(u, t) <= Place(z, t)
    BY <2>1, <2>4, RowedFinite, FS_Subset DEF Place
  <2>6. Place(u, t) \in Nat /\ Place(z, t) \in Nat /\ w.cursor \in Nat
    BY <2>1, RowedFinite DEF Walks
  <2>7. GoesOn1(v, z, t)
    BY <2>1, <2>5, <2>6 DEF GoesOn1
  <2>. QED BY <2>2, <2>7 DEF GoesOn2
<1>. QED BY <1>1, Zenon DEF Goes

\* One moves down, or is gone: the others go forward, if anything.
LEMMA MovesDown ==
  ASSUME NEW u \in RowTimes, NEW z \in RowTimes, NEW s \in Sessions, z[s] <= u[s],
         \A t \in Sessions \ {s} : z[t] = u[t],
         NEW w \in Walks, Goes(w, u), NEW v \in Walks,
         v.seen = w.seen, v.cursor = w.cursor, v.still \subseteq w.still \ {s}, v.gone, v.moved = w.moved
  PROVE  Goes(v, z)
<1>1. ASSUME NEW t \in v.still PROVE t \in Rowed(z) /\ GoesOn1(v, z, t) /\ GoesOn2(v, z, t)
  <2>1. t \in Sessions /\ t # s /\ t \in Rowed(u) /\ GoesOn2(w, u, t) /\ t \in w.still
    BY DEF Walks, Goes
  <2>2. t \in Rowed(z) /\ z[t] = u[t]
    BY <2>1 DEF Rowed
  <2>3. \A x \in Sessions : u[x] \in Nat /\ z[x] \in Nat
    BY PluginAssumption DEF RowTimes
  <2>4. Ahead(z, t) \in SUBSET Ahead(u, t)
    BY <2>1, <2>2, <2>3 DEF Ahead
  <2>5. Place(z, t) <= Place(u, t)
    BY <2>1, <2>4, RowedFinite, FS_Subset DEF Place
  <2>6. Place(u, t) \in Nat /\ Place(z, t) \in Nat /\ w.cursor \in Nat
    BY <2>1, RowedFinite DEF Walks
  <2>7. GoesOn2(v, z, t)
    BY <2>1, <2>5, <2>6 DEF GoesOn2
  <2>. QED BY <2>2, <2>7 DEF GoesOn1
<1>. QED BY <1>1, Zenon DEF Goes

-----------------------------------------------------------------------------
(* A caller going through a transcript *)

Scrolls == [at : {"none", "open", "done"}, of : Sessions, cursor : Nat, read : Seq(Nat \X Nat), replaced : BOOLEAN]
FileOf(f) ==
    IF f.live # Transcripts!NoFile THEN f.live
    ELSE IF f.archived = <<>> THEN Transcripts!NoFile ELSE f.archived[Len(f.archived)]

\* What was read are the lines of one file, from the first one on.
LinesOf(q, gen) == \A i \in 1..Len(q) : q[i] = <<gen, i>>
BeginsWith(r, f) == LinesOf(r.read, f.gen) /\ Len(r.read) = r.cursor /\ r.cursor <= f.lines
Reads(r, d) ==
    /\ r.at = "none" => r.read = <<>> /\ r.cursor = 0
    /\ r.at = "open" => r.replaced \/ BeginsWith(r, FileOf(d[r.of]))
    /\ r.at = "done" => r.replaced \/ \E gen \in Nat : LinesOf(r.read, gen)

LEMMA FileTypes ==
  /\ TheFile \subseteq [gen : Nat, at : Nat, lines : Nat] /\ Transcripts!NoFile \in TheFile
  /\ \A f \in TheFiles : f.live \in TheFile /\ f.archived \in Seq(TheFile) /\ FileOf(f) \in TheFile
<1>1. MaxTime \in Nat /\ MaxLines \in Nat
  BY PluginAssumption
<1>2. TheFile \subseteq [gen : Nat, at : Nat, lines : Nat]
  BY <1>1 DEF TheFile
<1>3. Transcripts!NoFile \in TheFile
  BY <1>1 DEF TheFile, Transcripts!NoFile
<1>4. ASSUME NEW f \in TheFiles PROVE f.live \in TheFile /\ f.archived \in Seq(TheFile) /\ FileOf(f) \in TheFile
  <2>1. f.live \in TheFile /\ f.archived \in Seq(TheFile)
    BY DEF TheFiles
  <2> HIDE DEF TheFile
  <2>2. f.archived # <<>> => f.archived[Len(f.archived)] \in TheFile
    BY <2>1
  <2>. QED BY <1>3, <2>1, <2>2 DEF FileOf
<1>. QED BY <1>2, <1>3, <1>4

LEMMA Joins ==
  ASSUME NEW T, NEW q \in Seq(T), NEW p \in Seq(T)
  PROVE  /\ \A i \in 1..Len(q) : (q \o p)[i] = q[i]
         /\ \A i \in 1..Len(p) : (q \o p)[Len(q) + i] = p[i]
  OBVIOUS
LEMMA AsSequence ==
  ASSUME NEW T, NEW n \in Nat, NEW q \in [1..n -> T]
  PROVE  q \in Seq(T) /\ Len(q) = n
  OBVIOUS

LEMMA LinesAre ==
  ASSUME DirInv, NEW s \in Sessions
  PROVE  /\ Transcripts!Resolve(s) = FileOf(x1[s]) /\ FileOf(x1[s]) \in TheFile
         /\ FileOf(x1[s]).gen \in Nat /\ FileOf(x1[s]).lines \in Nat
         /\ Transcripts!Lines(s) \in Seq(Nat \X Nat) /\ Len(Transcripts!Lines(s)) = FileOf(x1[s]).lines
         /\ LinesOf(Transcripts!Lines(s), FileOf(x1[s]).gen)
<1> DEFINE f == FileOf(x1[s])
<1>1. Transcripts!Resolve(s) = f
  BY DEF Transcripts!Resolve, Transcripts!Last, FileOf
<1>2. f \in TheFile
  BY FileTypes DEF DirInv
<1>3. f \in [gen : Nat, at : Nat, lines : Nat]
  BY <1>2, FileTypes
<1> HIDE DEF f
<1>4. f.gen \in Nat /\ f.lines \in Nat
  BY <1>3
<1>5. Transcripts!Lines(s) = [i \in 1..f.lines |-> <<f.gen, i>>]
  BY <1>1 DEF Transcripts!Lines
<1> DEFINE n == f.lines
           g == f.gen
<1> HIDE DEF n, g
<1>6. [i \in 1..n |-> <<g, i>>] \in [1..n -> Nat \X Nat] /\ n \in Nat
  BY <1>4 DEF n, g
<1>7. [i \in 1..n |-> <<g, i>>] \in Seq(Nat \X Nat) /\ Len([i \in 1..n |-> <<g, i>>]) = n
      /\ LinesOf([i \in 1..n |-> <<g, i>>], g)
  BY <1>6 DEF LinesOf
<1>. QED BY <1>1, <1>2, <1>4, <1>5, <1>7 DEF f, n, g

\* A page of lines more.
LEMMA MoreRead ==
  ASSUME DirInv, NEW r \in Scrolls, NEW v \in Scrolls, BeginsWith(r, FileOf(x1[r.of])),
         v.read = r.read \o Transcripts!Slice(Transcripts!Lines(r.of), r.cursor), v.of = r.of,
         v.cursor = r.cursor + Limit
  PROVE  /\ Transcripts!More(Transcripts!Lines(r.of), r.cursor) => BeginsWith(v, FileOf(x1[r.of]))
         /\ \E gen \in Nat : LinesOf(v.read, gen)
<1> DEFINE q == Transcripts!Lines(r.of)
           c == r.cursor
           f == FileOf(x1[r.of])
           k == Page(Len(q), c)
           p == Transcripts!Slice(q, c)
<1>1. r.of \in Sessions /\ c \in Nat /\ r.read \in Seq(Nat \X Nat) /\ Limit \in Nat /\ Limit > 0
  BY PluginAssumption DEF Scrolls
<1>2. q \in Seq(Nat \X Nat) /\ Len(q) = f.lines /\ LinesOf(q, f.gen) /\ f.gen \in Nat /\ f.lines \in Nat
  BY <1>1, LinesAre
<1>3. /\ k \in Nat /\ k <= Limit /\ \A i \in 1..k : c + i \in 1..Len(q)
      /\ p = [i \in 1..k |-> q[c + i]] /\ Len(p) = k /\ p \in Seq(Nat \X Nat)
  <2> DEFINE T == Nat \X Nat
  <2>1. q \in Seq(T) /\ c \in Nat
    BY <1>1, <1>2
  <2> HIDE DEF T, q, c
  <2>2. /\ k \in Nat /\ k <= Limit /\ \A i \in 1..k : c + i \in 1..Len(q)
        /\ p = [i \in 1..k |-> q[c + i]] /\ p \in Seq(T) /\ Len(p) = k
    BY <2>1, SliceIs
  <2>. QED BY <2>2 DEF T
<1>4. LinesOf(r.read, f.gen) /\ Len(r.read) = c /\ c <= f.lines
  BY DEF BeginsWith
<1>5. v.read = r.read \o p
  OBVIOUS
<1> DEFINE g == f.gen
           n == f.lines
<1> HIDE DEF p, k, q, f
<1>6. v.read \in Seq(Nat \X Nat) /\ Len(v.read) = c + k
  BY <1>1, <1>3, <1>4, <1>5
<1> HIDE DEF c
<1>7. \A i \in 1..Len(v.read) : v.read[i] = <<g, i>>
  <2> SUFFICES ASSUME NEW i \in 1..Len(v.read) PROVE v.read[i] = <<g, i>>
    OBVIOUS
  <2>0. /\ \A j \in 1..c : v.read[j] = r.read[j]
        /\ \A j \in 1..k : v.read[c + j] = p[j]
    <3> DEFINE a == r.read
               b == v.read
               T == Nat \X Nat
    <3>1. a \in Seq(T) /\ p \in Seq(T) /\ b = a \o p /\ Len(a) = c /\ Len(p) = k
      BY <1>1, <1>3, <1>4, <1>5
    <3> HIDE DEF a, b, T
    <3>3. /\ \A j \in 1..Len(a) : (a \o p)[j] = a[j]
          /\ \A j \in 1..Len(p) : (a \o p)[Len(a) + j] = p[j]
      BY <3>1, Joins
    <3>2. (\A j \in 1..c : b[j] = a[j]) /\ (\A j \in 1..k : b[c + j] = p[j])
      BY <3>1, <3>3
    <3>. QED BY <3>2 DEF a, b
  <2>1. CASE i \in 1..c
    <3>1. v.read[i] = r.read[i] /\ i \in 1..Len(r.read)
      BY <1>4, <2>0, <2>1
    <3>. QED BY <1>4, <3>1 DEF LinesOf
  <2>2. CASE i \notin 1..c
    <3> DEFINE j == i - c
    <3>1. j \in 1..k /\ c + j = i
      BY <1>1, <1>3, <1>6, <2>2
    <3> HIDE DEF j
    <3>2. v.read[i] = p[j]
      BY <2>0, <3>1
    <3>3. p[j] = q[i] /\ i \in 1..Len(q)
      BY <1>3, <3>1
    <3>. QED BY <1>2, <3>2, <3>3 DEF LinesOf
  <2>. QED BY <2>1, <2>2
<1>8. LinesOf(v.read, g)
  BY <1>7 DEF LinesOf
<1>9. ASSUME Transcripts!More(q, c) PROVE Len(v.read) = v.cursor /\ v.cursor <= n
  <2>1. c + Limit < Len(q)
    BY <1>9 DEF Transcripts!More
  <2>2. k = Limit
    BY <1>1, <1>2, <2>1 DEF Page, k
  <2>. QED BY <1>1, <1>2, <1>6, <2>1, <2>2 DEF c
<1>. QED BY <1>2, <1>8, <1>9 DEF BeginsWith, q, c, f

\* The file that is read grows, or the caller knows that it is replaced.
LEMMA ReadsStill ==
  ASSUME NEW d \in [Sessions -> TheFiles], NEW e \in [Sessions -> TheFiles], NEW s \in Sessions, NEW yes \in BOOLEAN,
         \A t \in Sessions \ {s} : e[t] = d[t],
         yes \/ (FileOf(e[s]).gen = FileOf(d[s]).gen /\ FileOf(d[s]).lines <= FileOf(e[s]).lines),
         NEW r \in Scrolls, Reads(r, d), NEW v,
         v = [r EXCEPT !.replaced = @ \/ (yes /\ r.of = s /\ r.at = "open")]
  PROVE  v \in Scrolls /\ Reads(v, e)
<1> DEFINE now == r.replaced \/ (yes /\ r.of = s /\ r.at = "open")
<1>1. now \in BOOLEAN /\ (r.replaced => now) /\ (yes /\ r.of = s /\ r.at = "open" => now)
  BY DEF Scrolls
<1>2. v = [r EXCEPT !.replaced = now]
  OBVIOUS
<1> HIDE DEF now
<1>3. /\ v \in Scrolls /\ v.at = r.at /\ v.of = r.of /\ v.cursor = r.cursor /\ v.read = r.read /\ v.replaced = now
      /\ r.of \in Sessions /\ r.cursor \in Nat
  BY <1>1, <1>2 DEF Scrolls
<1>4. ASSUME r.at = "open", ~now PROVE BeginsWith(v, FileOf(e[r.of]))
  <2>1. BeginsWith(r, FileOf(d[r.of]))
    BY <1>1, <1>4 DEF Reads
  <2>2. FileOf(e[r.of]).gen = FileOf(d[r.of]).gen /\ FileOf(d[r.of]).lines <= FileOf(e[r.of]).lines
    <3>1. CASE r.of = s
      BY <1>1, <1>4, <3>1
    <3>2. CASE r.of # s
      <4>1. e[r.of] = d[r.of] /\ FileOf(d[r.of]) \in TheFile
        BY <1>3, <3>2, FileTypes
      <4>2. FileOf(d[r.of]).lines \in Nat
        BY <4>1, FileTypes
      <4>. QED BY <4>1, <4>2
    <3>. QED BY <3>1, <3>2
  <2>3. FileOf(d[r.of]).lines \in Nat /\ FileOf(e[r.of]).lines \in Nat
    <3>1. FileOf(d[r.of]) \in TheFile /\ FileOf(e[r.of]) \in TheFile
      BY <1>3, FileTypes
    <3>. QED BY <3>1, FileTypes
  <2>. QED BY <1>3, <2>1, <2>2, <2>3 DEF BeginsWith, LinesOf
<1>5. r.at = "none" => v.read = <<>> /\ v.cursor = 0
  BY <1>3 DEF Reads
<1>6. r.at = "done" => now \/ \E gen \in Nat : LinesOf(v.read, gen)
  BY <1>1, <1>3 DEF Reads
<1>. QED BY <1>3, <1>4, <1>5, <1>6 DEF Reads

\* The last lines are the end of all.
LEMMA EndOfAll ==
  ASSUME NEW T, NEW q \in Seq(T)
  PROVE  Transcripts!IsSuffix(Transcripts!LastOf(q), q)
<1> DEFINE n == Len(q)
           p == Transcripts!LastOf(q)
<1>1. n \in Nat /\ Limit \in Nat /\ Limit > 0
  BY PluginAssumption
<1>2. /\ p \in Seq(T) /\ Len(p) <= n /\ Len(p) \in Nat
      /\ \A i \in 1..Len(p) : p[(Len(p) - i) + 1] = q[(n - i) + 1]
  <2>1. CASE n > Limit
    <3>1. p = SubSeq(q, n - Limit + 1, n)
      BY <2>1 DEF Transcripts!LastOf
    <3>2. p \in Seq(T) /\ Len(p) = Limit /\ \A i \in 1..Limit : p[i] = q[n - Limit + i]
      <4> HIDE DEF p
      <4>. QED BY <1>1, <2>1, <3>1
    <3> HIDE DEF p, n
    <3>3. ASSUME NEW i \in 1..Limit PROVE p[(Limit - i) + 1] = q[(n - i) + 1]
      <4>1. (Limit - i) + 1 \in 1..Limit /\ n - Limit + ((Limit - i) + 1) = (n - i) + 1
        BY <1>1
      <4>. QED BY <3>2, <4>1
    <3>. QED BY <1>1, <2>1, <3>2, <3>3
  <2>2. CASE ~(n > Limit)
    <3>1. p = q
      BY <2>2 DEF Transcripts!LastOf
    <3>. QED BY <1>1, <3>1
  <2>. QED BY <2>1, <2>2
<1> DEFINE a == Transcripts!Reverse(p)
           b == Transcripts!Reverse(q)
<1> HIDE DEF p
<1>3. a = [i \in 1..Len(p) |-> p[(Len(p) - i) + 1]] /\ b = [i \in 1..n |-> q[(n - i) + 1]]
  BY DEF Transcripts!Reverse
<1>4. a \in Seq(T) /\ Len(a) = Len(p) /\ b \in Seq(T) /\ Len(b) = n
  <2>1. \A i \in 1..Len(p) : p[(Len(p) - i) + 1] \in T
    BY <1>2
  <2>2. \A i \in 1..n : q[(n - i) + 1] \in T
    BY <1>1
  <2> HIDE DEF n, a, b
  <2>3. [i \in 1..Len(p) |-> p[(Len(p) - i) + 1]] \in [1..Len(p) -> T] /\ [i \in 1..n |-> q[(n - i) + 1]] \in [1..n -> T]
    BY <2>1, <2>2
  <2>4. a \in [1..Len(p) -> T] /\ b \in [1..n -> T]
    BY <1>3, <2>3
  <2>5. n \in Nat /\ Len(p) \in Nat
    BY <1>1, <1>2
  <2>. QED BY <2>4, <2>5, AsSequence
<1>5. \A i \in 1..Len(p) : a[i] = b[i]
  <2> HIDE DEF n, a, b
  <2>. QED BY <1>1, <1>2, <1>3
<1> HIDE DEF a, b, n
<1>6. Len(a) <= Len(b)
  BY <1>2, <1>4
<1>7. SubSeq(a, 1, Len(a)) = SubSeq(b, 1, Len(a))
  <2>1. SubSeq(a, 1, Len(a)) \in Seq(T) /\ SubSeq(b, 1, Len(a)) \in Seq(T)
        /\ Len(SubSeq(a, 1, Len(a))) = Len(a) /\ Len(SubSeq(b, 1, Len(a))) = Len(a)
        /\ \A i \in 1..Len(a) : SubSeq(a, 1, Len(a))[i] = a[i] /\ SubSeq(b, 1, Len(a))[i] = b[i]
    BY <1>2, <1>4, <1>6
  <2>2. \A i \in 1..Len(a) : SubSeq(a, 1, Len(a))[i] = SubSeq(b, 1, Len(a))[i]
    BY <1>4, <1>5, <2>1
  <2>. QED BY <2>1, <2>2, SeqEqual
<1>. QED BY <1>6, <1>7 DEF Transcripts!IsSuffix, Transcripts!IsPrefix, a, b, p

-----------------------------------------------------------------------------
(* Transcripts: the inductive invariant *)

Walked(w, u) == w \in Walks /\ (w.at = "open" => Goes(w, u)) /\ (w.at = "done" => Went(w))
SessionsInv == DirInv /\ Walked(x4, U) /\ x5 \in Scrolls /\ Reads(x5, x1)

LEMMA SessionsInit == ASSUME Transcripts!Init PROVE SessionsInv
<1>0. MaxTime \in Nat /\ MaxLines \in Nat
  BY PluginAssumption
<1>1. /\ x1 = [s \in Sessions |-> Transcripts!NoFiles] /\ x2 = [s \in Sessions |-> 0] /\ x3 = 1
      /\ x4 = Transcripts!NoWalk
  BY DEF Transcripts!Init
<1>2. PICK z \in Sessions : x5 = [at |-> "none", of |-> z, cursor |-> 0, read |-> <<>>, replaced |-> FALSE]
  BY DEF Transcripts!Init, Transcripts!NoScroll
<1>3. x5 \in Scrolls /\ Reads(x5, x1)
  BY <1>2 DEF Scrolls, Reads
<1>4. x4 \in Walks /\ x4.at = "none"
  BY <1>1 DEF Transcripts!NoWalk, Walks
<1>5. Transcripts!NoFiles \in TheFiles /\ Transcripts!NoFiles.live.at = 0 /\ Transcripts!NoFiles.archived = <<>>
      /\ Transcripts!NoFiles.live = Transcripts!NoFile
  <2>1. Transcripts!NoFile \in TheFile
    BY FileTypes
  <2>. QED BY <2>1 DEF Transcripts!NoFiles, TheFiles, Transcripts!NoFile
<1>6. Stamps(Transcripts!NoFiles, 0) = {0} /\ InOrder(Transcripts!NoFiles)
  BY <1>5 DEF Stamps, InOrder
<1>7. DirInv
  <2>1. x1 \in [Sessions -> TheFiles] /\ x2 \in [Sessions -> 0..MaxTime] /\ x3 \in 1..MaxTime + 1
    BY <1>0, <1>1, <1>5
  <2>2. \A s \in Sessions : x1[s] = Transcripts!NoFiles /\ x2[s] = 0
    BY <1>1
  <2>. QED BY <1>1, <1>6, <2>1, <2>2 DEF DirInv
<1>. QED BY <1>3, <1>4, <1>7 DEF SessionsInv, Walked

\* A session's files and entry change, at the time of the clock or to what they were.
LEMMA DirChanges ==
  ASSUME DirInv, NEW s \in Sessions, NEW f \in TheFiles, InOrder(f), NEW ix \in 0..MaxTime,
         x1' = [x1 EXCEPT ![s] = f], x2' = [x2 EXCEPT ![s] = ix], x3' \in 1..MaxTime + 1, x3' >= x3,
         Stamps(f, ix) \subseteq Stamps(x1[s], x2[s]) \cup {0, x3}, x3 \in Stamps(f, ix) => x3' > x3
  PROVE  /\ DirInv' /\ U' \in RowTimes /\ U \in RowTimes
         /\ U'[s] = Newest(f, ix) /\ U[s] = Newest(x1[s], x2[s])
         /\ \A t \in Sessions \ {s} : U'[t] = U[t] /\ x1'[t] = x1[t]
         /\ x1' \in [Sessions -> TheFiles] /\ x1'[s] = f
<1>0. MaxTime \in Nat
  BY PluginAssumption
<1>1. x1 \in [Sessions -> TheFiles] /\ x2 \in [Sessions -> 0..MaxTime] /\ x3 \in Nat /\ x3 >= 1 /\ x3' \in Nat
  BY <1>0 DEF DirInv
<1>2. /\ x1' \in [Sessions -> TheFiles] /\ x2' \in [Sessions -> 0..MaxTime] /\ x1'[s] = f /\ x2'[s] = ix
      /\ \A t \in Sessions \ {s} : x1'[t] = x1[t] /\ x2'[t] = x2[t]
  <2> HIDE DEF TheFiles
  <2>. QED BY <1>1
<1>3. \A t \in Sessions : \A n \in Stamps(x1[t], x2[t]) : n < x3
  BY DEF DirInv
<1>4. \A t \in Sessions : InOrder(x1'[t])
  BY <1>2 DEF DirInv
<1>5. ASSUME NEW t \in Sessions, NEW n \in Stamps(x1'[t], x2'[t]) PROVE n < x3'
  <2>1. CASE t = s
    <3>1. n \in Stamps(f, ix)
      BY <1>2, <1>5, <2>1
    <3>2. n = x3 => n < x3'
      BY <3>1
    <3>3. n \in Stamps(x1[s], x2[s]) => n < x3'
      <4>1. Stamps(x1[s], x2[s]) \subseteq Nat
        <5>1. x1[s].live \in TheFile /\ x1[s].archived \in Seq(TheFile) /\ x2[s] \in Nat
          BY <1>1, FileTypes
        <5>2. \A i \in 1..Len(x1[s].archived) : x1[s].archived[i] \in TheFile
          BY <5>1
        <5>3. \A g \in TheFile : g.at \in Nat
          BY FileTypes
        <5>. QED BY <5>1, <5>2, <5>3 DEF Stamps
      <4>. QED BY <1>1, <1>3, <4>1
    <3>. QED BY <1>1, <3>1, <3>2, <3>3
  <2>2. CASE t # s
    <3>1. n \in Stamps(x1[t], x2[t])
      BY <1>2, <1>5, <2>2
    <3>2. Stamps(x1[t], x2[t]) \subseteq Nat
      <4>1. x1[t].live \in TheFile /\ x1[t].archived \in Seq(TheFile) /\ x2[t] \in Nat
        BY <1>1, FileTypes
      <4>2. \A i \in 1..Len(x1[t].archived) : x1[t].archived[i] \in TheFile
        BY <4>1
      <4>3. \A g \in TheFile : g.at \in Nat
        BY FileTypes
      <4>. QED BY <4>1, <4>2, <4>3 DEF Stamps
    <3>. QED BY <1>1, <1>3, <3>1, <3>2
  <2>. QED BY <2>1, <2>2
<1>6. ASSUME NEW t \in Sessions, t # s PROVE Stamps(f, ix) \cap Stamps(x1[t], x2[t]) \subseteq {0}
  <2>1. Stamps(x1[s], x2[s]) \cap Stamps(x1[t], x2[t]) \subseteq {0}
    BY <1>6 DEF DirInv
  <2>2. x3 \notin Stamps(x1[t], x2[t])
    BY <1>1, <1>3
  <2>. QED BY <2>1, <2>2
<1>7. ASSUME NEW t \in Sessions, NEW z \in Sessions, t # z
      PROVE  Stamps(x1'[t], x2'[t]) \cap Stamps(x1'[z], x2'[z]) \subseteq {0}
  <2>1. CASE t = s
    BY <1>2, <1>6, <1>7, <2>1
  <2>2. CASE z = s
    <3>1. Stamps(f, ix) \cap Stamps(x1[t], x2[t]) \subseteq {0}
      BY <1>6, <1>7, <2>2
    <3>2. x1'[t] = x1[t] /\ x2'[t] = x2[t] /\ x1'[z] = f /\ x2'[z] = ix
      BY <1>2, <1>7, <2>2
    <3>. QED BY <3>1, <3>2
  <2>3. CASE t # s /\ z # s
    BY <1>2, <1>7, <2>3 DEF DirInv
  <2>. QED BY <2>1, <2>2, <2>3
<1>8. DirInv'
  BY <1>2, <1>4, <1>5, <1>7 DEF DirInv
<1>9. U' = [t \in Sessions |-> Newest(x1'[t], x2'[t])] /\ U = [t \in Sessions |-> Newest(x1[t], x2[t])]
  BY DEF U
<1>10. U \in RowTimes /\ U' \in RowTimes
  <2>1. U \in RowTimes
    BY RowsTimed
  <2>2. ASSUME NEW t \in Sessions PROVE U'[t] \in Stamps(x1'[t], x2'[t]) /\ U'[t] \in 0..MaxTime
    <3>1. x1'[t] \in TheFiles /\ x2'[t] \in 0..MaxTime
      BY <1>2
    <3>2. U'[t] = Newest(x1'[t], x2'[t])
      BY <1>9
    <3>3. Newest(x1'[t], x2'[t]) \in Stamps(x1'[t], x2'[t])
      BY <3>1, NewestIsStamp
    <3>4. Stamps(x1'[t], x2'[t]) \subseteq 0..MaxTime
      <4>1. x1'[t].live.at \in 0..MaxTime /\ \A i \in 1..Len(x1'[t].archived) : x1'[t].archived[i].at \in 0..MaxTime
        BY <3>1 DEF TheFiles, TheFile
      <4>. QED BY <3>1, <4>1 DEF Stamps
    <3>. QED BY <3>2, <3>3, <3>4
  <2>3. U' \in [Sessions -> 0..MaxTime]
    BY <1>9, <2>2
  <2>4. ASSUME NEW t \in Sessions, NEW z \in Sessions, U'[t] = U'[z], U'[t] > 0 PROVE t = z
    <3>1. U'[t] \in Stamps(x1'[t], x2'[t]) /\ U'[t] \in Stamps(x1'[z], x2'[z]) /\ U'[t] # 0
      BY <1>0, <2>2, <2>4
    <3>. QED BY <1>7, <3>1
  <2>. QED BY <2>1, <2>3, <2>4 DEF RowTimes
<1>. QED BY <1>2, <1>8, <1>9, <1>10

-----------------------------------------------------------------------------
(* Transcripts: the gateway *)

\* A row moves, up or not: the caller is told.
Shifts(u, z, s, up) ==
    (IF up THEN z[s] >= u[s] ELSE z[s] <= u[s]) /\ \A t \in Sessions \ {s} : z[t] = u[t]
Told(w, s, up) ==
    IF w.at # "open" THEN w
    ELSE [w EXCEPT !.still = @ \ {s}, !.moved = @ \/ up, !.gone = @ \/ ~up]

LEMMA WalkStill ==
  ASSUME NEW u \in RowTimes, NEW z \in RowTimes, NEW s \in Sessions, NEW up \in BOOLEAN, Shifts(u, z, s, up),
         NEW w, Walked(w, u)
  PROVE  Walked(Told(w, s, up), z)
<1> DEFINE v == Told(w, s, up)
<1>0. w \in Walks
  BY DEF Walked
<1>1. CASE w.at # "open"
  BY <1>1 DEF Walked, Told
<1>2. CASE w.at = "open"
  <2> DEFINE m == w.moved \/ up
             g == w.gone \/ ~up
             k == w.still \ {s}
  <2>1. m \in BOOLEAN /\ g \in BOOLEAN /\ k \in SUBSET Sessions
        /\ (up => m /\ g = w.gone) /\ (~up => g /\ m = w.moved)
    BY <1>0 DEF Walks
  <2>2. v = [w EXCEPT !.still = k, !.moved = m, !.gone = g]
    BY <1>2 DEF Told
  <2> HIDE DEF v, m, g, k
  <2>3. /\ v \in Walks /\ v.at = "open" /\ v.seen = w.seen /\ v.cursor = w.cursor
        /\ v.still = k /\ v.moved = m /\ v.gone = g
    BY <1>0, <1>2, <2>1, <2>2 DEF Walks
  <2>4. v.still \subseteq w.still \ {s}
    BY <2>3 DEF k
  <2>5. Goes(w, u) /\ \A t \in Sessions \ {s} : z[t] = u[t]
    BY <1>2 DEF Walked, Shifts
  <2>6. ASSUME up PROVE Goes(v, z)
    <3>1. v \in Walks /\ v.moved /\ v.gone = w.gone /\ v.seen = w.seen /\ v.cursor = w.cursor
      BY <2>1, <2>3, <2>6
    <3>2. z[s] >= u[s]
      BY <2>6 DEF Shifts
    <3>. QED BY <1>0, <2>4, <2>5, <3>1, <3>2, MovesUp, Zenon
  <2>7. ASSUME ~up PROVE Goes(v, z)
    <3>1. v \in Walks /\ v.gone /\ v.moved = w.moved /\ v.seen = w.seen /\ v.cursor = w.cursor
      BY <2>1, <2>3, <2>7
    <3>2. z[s] <= u[s]
      BY <2>7 DEF Shifts
    <3>. QED BY <1>0, <2>4, <2>5, <3>1, <3>2, MovesDown, Zenon
  <2>8. Goes(v, z)
    BY <2>6, <2>7
  <2>. QED BY <2>3, <2>8 DEF Walked, v
<1>. QED BY <1>1, <1>2

\* What the proofs of the steps know of the directory.
LEMMA DirIs ==
  ASSUME DirInv, NEW s \in Sessions
  PROVE  /\ x1[s] \in TheFiles /\ InOrder(x1[s]) /\ x2[s] \in 0..MaxTime /\ x3 \in Nat /\ x3 >= 1 /\ x3 <= MaxTime + 1
         /\ x1[s].live \in TheFile /\ x1[s].archived \in Seq(TheFile) /\ MaxTime \in Nat /\ MaxLines \in Nat
         /\ x1[s] = [live |-> x1[s].live, archived |-> x1[s].archived]
         /\ x1[s].live.at \in Nat /\ x1[s].live.at < x3 /\ x1[s].live.gen \in Nat /\ x1[s].live.lines \in Nat
         /\ \A i \in 1..Len(x1[s].archived) : x1[s].archived[i].at \in Nat /\ x1[s].archived[i].at < x3
         /\ Newest(x1[s], x2[s]) < x3
<1>1. x1[s] \in TheFiles /\ InOrder(x1[s]) /\ x2[s] \in 0..MaxTime /\ x3 \in 1..MaxTime + 1 /\ MaxTime \in Nat
      /\ MaxLines \in Nat /\ \A n \in Stamps(x1[s], x2[s]) : n < x3
  BY PluginAssumption DEF DirInv
<1>2. x1[s].live \in TheFile /\ x1[s].archived \in Seq(TheFile)
  BY <1>1, FileTypes
<1>3. \A g \in TheFile : g.at \in Nat /\ g.gen \in Nat /\ g.lines \in Nat
  BY FileTypes
<1>4. x1[s] = [live |-> x1[s].live, archived |-> x1[s].archived]
  BY <1>1 DEF TheFiles
<1>5. \A i \in 1..Len(x1[s].archived) : x1[s].archived[i] \in TheFile
  <2> HIDE DEF TheFile
  <2>. QED BY <1>2
<1>6. Newest(x1[s], x2[s]) < x3
  BY <1>1, NewestIsStamp
<1>7. x1[s].live.at < x3 /\ \A i \in 1..Len(x1[s].archived) : x1[s].archived[i].at < x3
  BY <1>1 DEF Stamps
<1>. QED BY <1>1, <1>2, <1>3, <1>4, <1>5, <1>6, <1>7

LEMMA WriteStep ==
  ASSUME SessionsInv, NEW s \in Sessions, Transcripts!Write(s)
  PROVE  SessionsInv'
<1> DEFINE n == Transcripts!NoFile
           l == x1[s].live
           a == x1[s].archived
           h == [gen |-> IF l = n THEN x3 ELSE l.gen, at |-> x3, lines |-> l.lines + 1]
           f == [live |-> h, archived |-> a]
<1>1. DirInv /\ Walked(x4, U) /\ x5 \in Scrolls /\ Reads(x5, x1)
  BY DEF SessionsInv
<1>2. /\ x1[s] \in TheFiles /\ InOrder(x1[s]) /\ x2[s] \in 0..MaxTime /\ x3 \in Nat /\ x3 >= 1
      /\ l \in TheFile /\ a \in Seq(TheFile) /\ MaxTime \in Nat /\ MaxLines \in Nat
      /\ x1[s] = [live |-> l, archived |-> a]
      /\ l.at \in Nat /\ l.at < x3 /\ l.gen \in Nat /\ l.lines \in Nat
      /\ \A i \in 1..Len(a) : a[i].at \in Nat /\ a[i].at < x3
      /\ Newest(x1[s], x2[s]) < x3
  BY <1>1, DirIs
<1>3. x3 <= MaxTime /\ x3' = x3 + 1 /\ l.lines < MaxLines
  BY DEF Transcripts!Write, Transcripts!Ticks
<1>4. x1' = [x1 EXCEPT ![s] = f] /\ x2' = [x2 EXCEPT ![s] = x3]
  <2>1. x1' = [x1 EXCEPT ![s] = [x1[s] EXCEPT !.live = h]]
    BY DEF Transcripts!Write
  <2>2. [x1[s] EXCEPT !.live = h] = f
    BY <1>2
  <2>. QED BY <2>1, <2>2 DEF Transcripts!Write
<1>5. l.gen <= l.at
  BY <1>2 DEF TheFile
<1>6. h \in TheFile /\ h # n /\ h.at = x3
  <2>1. h.gen \in 0..MaxTime /\ h.at = x3 /\ h.gen <= h.at
    BY <1>2, <1>3, <1>5
  <2>2. h.lines \in 0..MaxLines /\ h.lines # 0
    BY <1>2, <1>3
  <2>3. h = [gen |-> h.gen, at |-> h.at, lines |-> h.lines] /\ h.at \in 0..MaxTime
    BY <1>2, <1>3
  <2> HIDE DEF h
  <2>4. h \in TheFile
    BY <2>1, <2>2, <2>3 DEF TheFile
  <2>. QED BY <2>1, <2>2, <2>4 DEF Transcripts!NoFile
<1>7. f \in TheFiles /\ f.live = h /\ f.archived = a
  BY <1>2, <1>6 DEF TheFiles
<1>8. l # n => h.gen = l.gen /\ l.lines <= h.lines
  BY <1>2
<1> HIDE DEF h
<1>9. InOrder(f)
  BY <1>2, <1>6, <1>7 DEF InOrder
<1>10. Stamps(f, x3) \subseteq Stamps(x1[s], x2[s]) \cup {0, x3}
  BY <1>6, <1>7 DEF Stamps
<1>11. Newest(f, x3) = x3
  BY <1>6, <1>7 DEF Newest
<1>12. FileOf(f) = h /\ (l # n => FileOf(x1[s]) = l)
  BY <1>6, <1>7 DEF FileOf
<1> HIDE DEF f
<1>13. /\ DirInv' /\ U' \in RowTimes /\ U \in RowTimes /\ U'[s] = x3 /\ U[s] = Newest(x1[s], x2[s])
       /\ \A t \in Sessions \ {s} : U'[t] = U[t] /\ x1'[t] = x1[t]
       /\ x1' \in [Sessions -> TheFiles] /\ x1'[s] = f
  <2>1. x3 \in 0..MaxTime /\ x3' \in 1..MaxTime + 1 /\ x3' >= x3 /\ x3' > x3
    BY <1>2, <1>3
  <2>2. f \in TheFiles /\ (x3 \in Stamps(f, x3) => x3' > x3)
    BY <1>7, <2>1
  <2>3. DirInv
    BY <1>1
  <2>4. /\ DirInv' /\ U' \in RowTimes /\ U \in RowTimes
        /\ U'[s] = Newest(f, x3) /\ U[s] = Newest(x1[s], x2[s])
        /\ \A t \in Sessions \ {s} : U'[t] = U[t] /\ x1'[t] = x1[t]
        /\ x1' \in [Sessions -> TheFiles] /\ x1'[s] = f
    BY <1>4, <1>9, <1>10, <2>1, <2>2, <2>3, DirChanges, Zenon
  <2>. QED BY <1>11, <2>4
<1>14. Walked(x4', U')
  <2>1. x4' = Told(x4, s, TRUE)
    BY DEF Transcripts!Write, Transcripts!Moves, Told
  <2>2. U'[s] >= U[s]
    <3>1. U[s] \in 0..MaxTime
      BY <1>13 DEF RowTimes
    <3>. QED BY <1>2, <1>13, <3>1
  <2>3. Shifts(U, U', s, TRUE)
    BY <1>13, <2>2 DEF Shifts
  <2>4. Walked(Told(x4, s, TRUE), U')
    BY <1>1, <1>13, <2>3, WalkStill
  <2>. QED BY <2>1, <2>4
<1>15. x5' \in Scrolls /\ Reads(x5', x1')
  <2>1. x5' = [x5 EXCEPT !.replaced = @ \/ ((l = n) /\ x5.of = s /\ x5.at = "open")]
    BY DEF Transcripts!Write, Transcripts!Replaces
  <2>2. (l = n) \/ (FileOf(x1'[s]).gen = FileOf(x1[s]).gen /\ FileOf(x1[s]).lines <= FileOf(x1'[s]).lines)
    BY <1>8, <1>12, <1>13
  <2>3. x1 \in [Sessions -> TheFiles] /\ \A t \in Sessions \ {s} : x1'[t] = x1[t]
    BY <1>1, <1>13 DEF DirInv
  <2> DEFINE yes == l = n
  <2>4. yes \in BOOLEAN /\ (yes \/ (FileOf(x1'[s]).gen = FileOf(x1[s]).gen
                                    /\ FileOf(x1[s]).lines <= FileOf(x1'[s]).lines))
    BY <2>2
  <2>5. x5' = [x5 EXCEPT !.replaced = @ \/ (yes /\ x5.of = s /\ x5.at = "open")]
    BY <2>1
  <2>6. x1' \in [Sessions -> TheFiles] /\ x5 \in Scrolls /\ Reads(x5, x1)
    BY <1>1, <1>13
  <2> HIDE DEF yes
  <2>. QED BY <2>3, <2>4, <2>5, <2>6, ReadsStill, Zenon
<1>. QED BY <1>13, <1>14, <1>15 DEF SessionsInv

LEMMA EnterStep ==
  ASSUME SessionsInv, NEW s \in Sessions, Transcripts!Enter(s)
  PROVE  SessionsInv'
<1> DEFINE f == x1[s]
<1>1. DirInv /\ Walked(x4, U) /\ x5 \in Scrolls /\ Reads(x5, x1)
  BY DEF SessionsInv
<1>2. f \in TheFiles /\ InOrder(f) /\ x3 \in Nat /\ x3 >= 1 /\ MaxTime \in Nat /\ Newest(f, x2[s]) < x3
  BY <1>1, DirIs
<1>3. x3 <= MaxTime /\ x3' = x3 + 1 /\ x1' = x1 /\ x5' = x5 /\ x2' = [x2 EXCEPT ![s] = x3]
      /\ f = Transcripts!NoFiles
  BY DEF Transcripts!Enter, Transcripts!Ticks
<1>4. f.live = Transcripts!NoFile /\ f.archived = <<>>
  BY <1>3 DEF Transcripts!NoFiles
<1>5. x1' = [x1 EXCEPT ![s] = f]
  BY <1>1, <1>3 DEF DirInv
<1>6. Stamps(f, x3) \subseteq Stamps(x1[s], x2[s]) \cup {0, x3}
  BY DEF Stamps
<1>7. Newest(f, x3) = x3
  BY <1>4 DEF Newest
<1>8. /\ DirInv' /\ U' \in RowTimes /\ U \in RowTimes /\ U'[s] = x3 /\ U[s] = Newest(x1[s], x2[s])
      /\ \A t \in Sessions \ {s} : U'[t] = U[t]
  <2>1. x3 \in 0..MaxTime /\ x3' \in 1..MaxTime + 1 /\ x3' >= x3 /\ x3' > x3
    BY <1>2, <1>3
  <2> HIDE DEF f
  <2>2. f \in TheFiles /\ InOrder(f) /\ (x3 \in Stamps(f, x3) => x3' > x3)
    BY <1>2, <2>1
  <2>3. DirInv /\ x2' = [x2 EXCEPT ![s] = x3]
    BY <1>1, <1>3
  <2>4. /\ DirInv' /\ U' \in RowTimes /\ U \in RowTimes
        /\ U'[s] = Newest(f, x3) /\ U[s] = Newest(x1[s], x2[s])
        /\ \A t \in Sessions \ {s} : U'[t] = U[t] /\ x1'[t] = x1[t]
        /\ x1' \in [Sessions -> TheFiles] /\ x1'[s] = f
    BY <1>5, <1>6, <2>1, <2>2, <2>3, DirChanges, Zenon
  <2>. QED BY <1>7, <2>4
<1>9. Walked(x4', U')
  <2>1. x4' = Told(x4, s, TRUE)
    BY DEF Transcripts!Enter, Transcripts!Moves, Told
  <2>2. U'[s] >= U[s]
    <3>1. U[s] \in 0..MaxTime
      BY <1>8 DEF RowTimes
    <3>. QED BY <1>2, <1>8, <3>1
  <2>3. Shifts(U, U', s, TRUE)
    BY <1>8, <2>2 DEF Shifts
  <2>4. Walked(Told(x4, s, TRUE), U')
    BY <1>1, <1>8, <2>3, WalkStill
  <2>. QED BY <2>1, <2>4
<1>. QED BY <1>1, <1>3, <1>8, <1>9 DEF SessionsInv

LEMMA ResetStep ==
  ASSUME SessionsInv, NEW s \in Sessions, Transcripts!Reset(s)
  PROVE  SessionsInv'
<1> DEFINE n == Transcripts!NoFile
           l == x1[s].live
           a == x1[s].archived
           b == Append(a, l)
           f == [live |-> n, archived |-> b]
<1>1. DirInv /\ Walked(x4, U) /\ x5 \in Scrolls /\ Reads(x5, x1)
  BY DEF SessionsInv
<1>2. /\ x1[s] \in TheFiles /\ InOrder(x1[s]) /\ x2[s] \in 0..MaxTime /\ x3 \in Nat /\ x3 >= 1
      /\ l \in TheFile /\ a \in Seq(TheFile) /\ MaxTime \in Nat
      /\ l.at \in Nat /\ l.at < x3
      /\ \A i \in 1..Len(a) : a[i].at \in Nat /\ a[i].at < x3
  BY <1>1, DirIs
<1>3. x3 <= MaxTime /\ x3' = x3 + 1 /\ l # n /\ x4' = x4 /\ x5' = x5
  BY DEF Transcripts!Reset, Transcripts!Ticks
<1>4. x1' = [x1 EXCEPT ![s] = f] /\ x2' = [x2 EXCEPT ![s] = x3]
  BY DEF Transcripts!Reset
<1>5. b \in Seq(TheFile) /\ Len(b) = Len(a) + 1 /\ b[Len(a) + 1] = l /\ Len(a) \in Nat
      /\ \A i \in 1..Len(a) : b[i] = a[i]
  <2> HIDE DEF a, l, TheFile
  <2>. QED BY <1>2
<1>6. f \in TheFiles /\ f.live = n /\ f.archived = b /\ b # <<>>
  <2>1. n \in TheFile
    BY FileTypes
  <2> HIDE DEF b, TheFile
  <2>. QED BY <1>5, <2>1 DEF TheFiles
<1> HIDE DEF b
<1>7. \A i \in 1..Len(a) : a[i].at < l.at
  BY <1>2, <1>3 DEF InOrder
<1>8. InOrder(f)
  <2>1. \A i, j \in 1..Len(a) : i < j => a[i].at < a[j].at
    BY <1>2 DEF InOrder
  <2> SUFFICES ASSUME NEW i \in 1..Len(b), NEW j \in 1..Len(b), i < j PROVE b[i].at < b[j].at
    BY <1>6 DEF InOrder
  <2> HIDE DEF a, l
  <2>. QED BY <1>5, <1>7, <2>1
<1>9. n.at = 0
  BY DEF Transcripts!NoFile
<1>10. Stamps(f, x3) \subseteq Stamps(x1[s], x2[s]) \cup {0, x3}
  <2>1. \A i \in 1..Len(b) : b[i].at = l.at \/ \E j \in 1..Len(a) : b[i].at = a[j].at
    <3> HIDE DEF a, l
    <3>. QED BY <1>5
  <2>. QED BY <1>6, <1>9, <2>1 DEF Stamps
<1>11. Newest(f, x3) = l.at /\ Newest(x1[s], x2[s]) = l.at
  BY <1>3, <1>5, <1>6 DEF Newest
<1>12. FileOf(f) = l /\ FileOf(x1[s]) = l
  BY <1>3, <1>5, <1>6 DEF FileOf
<1> HIDE DEF f
<1>13. /\ DirInv' /\ U' \in RowTimes /\ U \in RowTimes /\ U'[s] = U[s]
       /\ \A t \in Sessions \ {s} : U'[t] = U[t] /\ x1'[t] = x1[t]
       /\ x1' \in [Sessions -> TheFiles] /\ x1'[s] = f
  <2>1. x3 \in 0..MaxTime /\ x3' \in 1..MaxTime + 1 /\ x3' >= x3 /\ x3' > x3
    BY <1>2, <1>3
  <2>2. f \in TheFiles /\ (x3 \in Stamps(f, x3) => x3' > x3)
    BY <1>6, <2>1
  <2>3. DirInv
    BY <1>1
  <2>4. /\ DirInv' /\ U' \in RowTimes /\ U \in RowTimes
        /\ U'[s] = Newest(f, x3) /\ U[s] = Newest(x1[s], x2[s])
        /\ \A t \in Sessions \ {s} : U'[t] = U[t] /\ x1'[t] = x1[t]
        /\ x1' \in [Sessions -> TheFiles] /\ x1'[s] = f
    BY <1>4, <1>8, <1>10, <2>1, <2>2, <2>3, DirChanges, Zenon
  <2>. QED BY <1>11, <2>4
<1>14. Walked(x4', U')
  <2>1. U' = U
    BY <1>13 DEF RowTimes
  <2>. QED BY <1>1, <1>3, <2>1
<1>15. x5' \in Scrolls /\ Reads(x5', x1')
  <2>1. FileOf(x1'[x5.of]) = FileOf(x1[x5.of])
    <3>1. x5.of \in Sessions
      BY <1>1 DEF Scrolls
    <3>. QED BY <1>12, <1>13, <3>1
  <2>. QED BY <1>1, <1>3, <2>1 DEF Reads
<1>. QED BY <1>13, <1>14, <1>15 DEF SessionsInv

LEMMA DeleteStep ==
  ASSUME SessionsInv, NEW s \in Sessions, Transcripts!Delete(s)
  PROVE  SessionsInv'
<1> DEFINE n == Transcripts!NoFile
           l == x1[s].live
           a == x1[s].archived
           f == [live |-> n, archived |-> a]
<1>1. DirInv /\ Walked(x4, U) /\ x5 \in Scrolls /\ Reads(x5, x1)
  BY DEF SessionsInv
<1>2. /\ x1[s] \in TheFiles /\ InOrder(x1[s]) /\ x2[s] \in 0..MaxTime /\ x3 \in Nat /\ x3 >= 1 /\ x3 <= MaxTime + 1
      /\ l \in TheFile /\ a \in Seq(TheFile) /\ MaxTime \in Nat
      /\ x1[s] = [live |-> l, archived |-> a]
      /\ l.at \in Nat /\ l.at < x3
      /\ \A i \in 1..Len(a) : a[i].at \in Nat /\ a[i].at < x3
  BY <1>1, DirIs
<1>3. x3' = x3
  BY DEF Transcripts!Delete
<1>4. x1' = [x1 EXCEPT ![s] = f] /\ x2' = [x2 EXCEPT ![s] = 0]
  <2>1. x1' = [x1 EXCEPT ![s] = [x1[s] EXCEPT !.live = n]]
    BY DEF Transcripts!Delete
  <2>2. [x1[s] EXCEPT !.live = n] = f
    BY <1>2
  <2>. QED BY <2>1, <2>2 DEF Transcripts!Delete
<1>5. f \in TheFiles /\ f.live = n /\ f.archived = a
  <2>1. n \in TheFile
    BY FileTypes
  <2>. QED BY <1>2, <2>1 DEF TheFiles
<1>6. InOrder(f)
  BY <1>2, <1>5 DEF InOrder
<1>7. n.at = 0
  BY DEF Transcripts!NoFile
<1>8. Stamps(f, 0) \subseteq Stamps(x1[s], x2[s]) \cup {0, x3}
  BY <1>5, <1>7 DEF Stamps
<1>9. x3 \notin Stamps(f, 0)
  BY <1>2, <1>5, <1>7 DEF Stamps
<1>10. a # <<>> => Len(a) \in 1..Len(a)
  <2> HIDE DEF a
  <2>. QED BY <1>2
<1>11. Newest(f, 0) <= Newest(x1[s], x2[s])
  <2>1. CASE l = n
    BY <1>2, <1>5, <1>10, <2>1 DEF Newest
  <2>2. CASE l # n
    <3>1. \A i \in 1..Len(a) : a[i].at < l.at
      BY <1>2, <2>2 DEF InOrder
    <3>2. Newest(x1[s], x2[s]) = l.at
      BY <2>2 DEF Newest
    <3>3. Newest(f, 0) = IF a = <<>> THEN 0 ELSE a[Len(a)].at
      BY <1>5 DEF Newest
    <3>. QED BY <1>2, <1>10, <3>1, <3>2, <3>3
  <2>. QED BY <2>1, <2>2
<1>12. l = n => FileOf(f) = FileOf(x1[s])
  BY <1>5 DEF FileOf
<1> HIDE DEF f
<1>13. /\ DirInv' /\ U' \in RowTimes /\ U \in RowTimes /\ U'[s] <= U[s]
       /\ \A t \in Sessions \ {s} : U'[t] = U[t] /\ x1'[t] = x1[t]
       /\ x1' \in [Sessions -> TheFiles] /\ x1'[s] = f
  <2>1. 0 \in 0..MaxTime /\ x3' \in 1..MaxTime + 1 /\ x3' >= x3
    BY <1>2, <1>3
  <2>2. f \in TheFiles /\ (x3 \in Stamps(f, 0) => x3' > x3)
    BY <1>5, <1>9
  <2>3. DirInv
    BY <1>1
  <2>4. /\ DirInv' /\ U' \in RowTimes /\ U \in RowTimes
        /\ U'[s] = Newest(f, 0) /\ U[s] = Newest(x1[s], x2[s])
        /\ \A t \in Sessions \ {s} : U'[t] = U[t] /\ x1'[t] = x1[t]
        /\ x1' \in [Sessions -> TheFiles] /\ x1'[s] = f
    BY <1>4, <1>6, <1>8, <2>1, <2>2, <2>3, DirChanges, Zenon
  <2>. QED BY <1>11, <2>4
<1>14. Walked(x4', U')
  <2>1. x4' = Told(x4, s, FALSE)
    BY DEF Transcripts!Delete, Transcripts!Moves, Told
  <2>2. Shifts(U, U', s, FALSE)
    BY <1>13 DEF Shifts
  <2>3. Walked(Told(x4, s, FALSE), U')
    BY <1>1, <1>13, <2>2, WalkStill
  <2>. QED BY <2>1, <2>3
<1>15. x5' \in Scrolls /\ Reads(x5', x1')
  <2> DEFINE yes == l # n
  <2>1. x5' = [x5 EXCEPT !.replaced = @ \/ (yes /\ x5.of = s /\ x5.at = "open")]
    BY DEF Transcripts!Delete, Transcripts!Replaces
  <2>2. yes \/ (FileOf(x1'[s]).gen = FileOf(x1[s]).gen /\ FileOf(x1[s]).lines <= FileOf(x1'[s]).lines)
    <3>1. FileOf(x1[s]) \in TheFile
      BY <1>2, FileTypes
    <3>2. FileOf(x1[s]).lines \in Nat
      BY <3>1, FileTypes
    <3>. QED BY <1>12, <1>13, <3>2
  <2>3. x1 \in [Sessions -> TheFiles] /\ (\A t \in Sessions \ {s} : x1'[t] = x1[t]) /\ yes \in BOOLEAN
    BY <1>1, <1>13 DEF DirInv
  <2>4. x1' \in [Sessions -> TheFiles] /\ x5 \in Scrolls /\ Reads(x5, x1)
    BY <1>1, <1>13
  <2> HIDE DEF yes
  <2>. QED BY <2>1, <2>2, <2>3, <2>4, ReadsStill, Zenon
<1>. QED BY <1>13, <1>14, <1>15 DEF SessionsInv

-----------------------------------------------------------------------------
(* Transcripts: the callers *)

\* A page of the list.
LEMMA ListPage ==
  ASSUME DirInv, NEW w \in Walks, Goes(w, U), Transcripts!ListFrom(w)
  PROVE  Walked(x4', U)
<1> DEFINE q == Transcripts!Rows
           p == Transcripts!Slice(q, w.cursor)
           v == x4'
           now == IF Transcripts!More(q, w.cursor) THEN "open" ELSE "done"
           e == w.seen \o p
           c == w.cursor + Limit
<1>1. U \in RowTimes /\ Lists(q, U)
  BY RowsTimed, RowsPlaced DEF Lists
<1>2. q \in Seq(Sessions)
  BY <1>1, ListsAll
<1>3. w.cursor \in Nat /\ w.seen \in Seq(Sessions) /\ Limit \in Nat
  BY PluginAssumption DEF Walks
<1>4. p \in Seq(Sessions)
  BY <1>2, <1>3, SliceIs
<1>5. v = [w EXCEPT !.seen = e, !.cursor = c, !.at = now]
  BY DEF Transcripts!ListFrom
<1> HIDE DEF p, q
<1>6. now \in {"open", "done"} /\ (now = "done" => ~Transcripts!More(q, w.cursor)) /\ c \in Nat /\ e \in Seq(Sessions)
  BY <1>3, <1>4
<1> HIDE DEF now, e, c, v
<1>7. /\ v \in Walks /\ v.at = now /\ v.seen = e /\ v.cursor = c
      /\ v.still = w.still /\ v.moved = w.moved /\ v.gone = w.gone
  BY <1>5, <1>6 DEF Walks
<1>8. v.seen = w.seen \o Transcripts!Slice(q, w.cursor) /\ v.cursor = w.cursor + Limit
  BY <1>7 DEF e, c, p
<1>9. Goes(v, U) /\ (~Transcripts!More(q, w.cursor) => Went(v))
  BY <1>1, <1>7, <1>8, PageRead, Zenon
<1>. QED BY <1>6, <1>7, <1>9 DEF Walked, v

LEMMA ListStep ==
  ASSUME SessionsInv, Transcripts!List
  PROVE  SessionsInv'
<1>1. DirInv /\ Walked(x4, U) /\ x5 \in Scrolls /\ Reads(x5, x1)
  BY DEF SessionsInv
<1>2. x1' = x1 /\ x2' = x2 /\ x3' = x3 /\ x5' = x5
  BY DEF Transcripts!List
<1>3. DirInv' /\ U' = U
  BY <1>1, <1>2 DEF DirInv, InOrder, U
<1>4. Walked(x4', U)
  <2>1. ASSUME Transcripts!ListFrom([Transcripts!NoWalk EXCEPT !.still = Transcripts!ToSet(Transcripts!Rows)])
        PROVE  Walked(x4', U)
    <3> DEFINE k == Transcripts!ToSet(Transcripts!Rows)
               w == [Transcripts!NoWalk EXCEPT !.still = k]
    <3>1. k \subseteq Rowed(U) /\ U \in RowTimes
      BY <1>1, RowsTimed, RowsPlaced DEF Transcripts!ToSet
    <3>2. \A s \in k : s \in Sessions /\ s \in Rowed(U) /\ Place(U, s) \in Nat
      BY <3>1, RowedFinite DEF Rowed
    <3>3. k \in SUBSET Sessions
      BY <3>2
    <3>4. Transcripts!ListFrom(w)
      BY <2>1
    <3> HIDE DEF k
    <3>5. w = [at |-> "none", cursor |-> 0, seen |-> <<>>, still |-> k, moved |-> FALSE, gone |-> FALSE]
      <4> DEFINE z == Transcripts!NoWalk
      <4>1. z = [at |-> "none", cursor |-> 0, seen |-> <<>>, still |-> {}, moved |-> FALSE, gone |-> FALSE]
        BY DEF Transcripts!NoWalk
      <4>2. w = [z EXCEPT !.still = k]
        OBVIOUS
      <4> HIDE DEF z, w
      <4>. QED BY <4>1, <4>2
    <3> HIDE DEF w
    <3>6. w \in Walks
      BY <3>3, <3>5 DEF Walks
    <3>7. Goes(w, U)
      <4>1. \A s : ~Seen(<<>>, s) /\ NotTwice(<<>>, s)
        BY DEF Seen, NotTwice
      <4>. QED BY <3>2, <3>5, <4>1 DEF Goes, GoesOn1, GoesOn2
    <3>. QED BY <1>1, <3>4, <3>6, <3>7, ListPage
  <2>2. ASSUME x4.at = "open", Transcripts!ListFrom(x4) PROVE Walked(x4', U)
    BY <1>1, <2>2, ListPage DEF Walked
  <2>3. ASSUME x4' = Transcripts!NoWalk PROVE Walked(x4', U)
    BY <2>3 DEF Walked, Walks, Transcripts!NoWalk
  <2>. QED BY <2>1, <2>2, <2>3 DEF Transcripts!List
<1>. QED BY <1>1, <1>2, <1>3, <1>4 DEF SessionsInv

\* A page of a transcript.
LEMMA GetPage ==
  ASSUME DirInv, NEW r \in Scrolls, r.replaced \/ BeginsWith(r, FileOf(x1[r.of])), Transcripts!GetFrom(r)
  PROVE  x5' \in Scrolls /\ Reads(x5', x1)
<1> DEFINE T == Nat \X Nat
           q == Transcripts!Lines(r.of)
           p == Transcripts!Slice(q, r.cursor)
           v == x5'
           now == IF Transcripts!More(q, r.cursor) THEN "open" ELSE "done"
           e == r.read \o p
           c == r.cursor + Limit
<1>1. r.of \in Sessions /\ r.cursor \in Nat /\ r.read \in Seq(T) /\ Limit \in Nat
  BY PluginAssumption DEF Scrolls
<1>2. q \in Seq(T)
  BY <1>1, LinesAre
<1> HIDE DEF T, q
<1>3. p \in Seq(T)
  BY <1>1, <1>2, SliceIs
<1>4. v = [r EXCEPT !.read = e, !.cursor = c, !.at = now]
  BY DEF Transcripts!GetFrom, q
<1> HIDE DEF p
<1>5. now \in {"open", "done"} /\ (now = "open" => Transcripts!More(q, r.cursor)) /\ c \in Nat /\ e \in Seq(T)
  BY <1>1, <1>3
<1> HIDE DEF now, e, c, v
<1>6. v \in Scrolls /\ v.at = now /\ v.of = r.of /\ v.read = e /\ v.cursor = c /\ v.replaced = r.replaced
  BY <1>4, <1>5 DEF Scrolls, T
<1>7. v.read = r.read \o Transcripts!Slice(Transcripts!Lines(r.of), r.cursor) /\ v.cursor = r.cursor + Limit
  BY <1>6 DEF e, c, p, q
<1>8. ASSUME BeginsWith(r, FileOf(x1[r.of]))
      PROVE  /\ now = "open" => BeginsWith(v, FileOf(x1[r.of]))
             /\ \E gen \in Nat : LinesOf(v.read, gen)
  <2>1. /\ Transcripts!More(Transcripts!Lines(r.of), r.cursor) => BeginsWith(v, FileOf(x1[r.of]))
        /\ \E gen \in Nat : LinesOf(v.read, gen)
    BY <1>6, <1>7, <1>8, MoreRead, Zenon
  <2>. QED BY <1>5, <2>1 DEF q
<1>9. Reads(v, x1)
  BY <1>5, <1>6, <1>8 DEF Reads
<1>. QED BY <1>6, <1>9 DEF v

LEMMA GetStep ==
  ASSUME SessionsInv, Transcripts!Get
  PROVE  SessionsInv'
<1>1. DirInv /\ Walked(x4, U) /\ x5 \in Scrolls /\ Reads(x5, x1)
  BY DEF SessionsInv
<1>2. x1' = x1 /\ x2' = x2 /\ x3' = x3 /\ x4' = x4
  BY DEF Transcripts!Get
<1>3. DirInv' /\ U' = U
  BY <1>1, <1>2 DEF DirInv, InOrder, U
<1>4. x5' \in Scrolls /\ Reads(x5', x1)
  <2>1. ASSUME x5.at = "none", Transcripts!GetFrom(x5) PROVE x5' \in Scrolls /\ Reads(x5', x1)
    <3>1. x5.read = <<>> /\ x5.cursor = 0 /\ x5.of \in Sessions
      BY <1>1, <2>1 DEF Reads, Scrolls
    <3>2. FileOf(x1[x5.of]).lines \in Nat
      BY <1>1, <3>1, LinesAre
    <3>3. BeginsWith(x5, FileOf(x1[x5.of]))
      BY <3>1, <3>2 DEF BeginsWith, LinesOf
    <3>. QED BY <1>1, <2>1, <3>3, GetPage
  <2>2. ASSUME x5.at = "open", Transcripts!GetFrom(x5) PROVE x5' \in Scrolls /\ Reads(x5', x1)
    <3>1. x5.replaced \/ BeginsWith(x5, FileOf(x1[x5.of]))
      BY <1>1, <2>2 DEF Reads
    <3>. QED BY <1>1, <2>2, <3>1, GetPage
  <2>3. ASSUME NEW s \in Sessions, x5' = Transcripts!NoScroll(s) PROVE x5' \in Scrolls /\ Reads(x5', x1)
    BY <2>3 DEF Scrolls, Reads, Transcripts!NoScroll
  <2>. QED BY <2>1, <2>2, <2>3 DEF Transcripts!Get
<1>. QED BY <1>1, <1>2, <1>3, <1>4 DEF SessionsInv

LEMMA SessionsStep ==
  ASSUME SessionsInv, Transcripts!Next
  PROVE  SessionsInv'
  BY WriteStep, EnterStep, ResetStep, DeleteStep, ListStep, GetStep DEF Transcripts!Next

-----------------------------------------------------------------------------
(* Transcripts: what callers have got *)

LEMMA FilesTyped == SessionsInv => Transcripts!TypeOK
<1> SUFFICES ASSUME SessionsInv PROVE Transcripts!TypeOK
  OBVIOUS
<1>1. /\ x1 \in [Sessions -> TheFiles] /\ x2 \in [Sessions -> 0..MaxTime] /\ x3 \in 1..MaxTime + 1
      /\ x4 \in Walks /\ x5 \in Scrolls
  BY DEF SessionsInv, DirInv, Walked
<1>2. ASSUME NEW s \in Sessions, NEW f \in {x1[s].live} \cup Transcripts!ToSet(x1[s].archived)
      PROVE  f.gen <= f.at /\ f.at <= MaxTime /\ f.lines <= MaxLines
  <2>1. x1[s].live \in TheFile /\ x1[s].archived \in Seq(TheFile)
    BY <1>1, FileTypes
  <2>2. f \in TheFile
    <3> HIDE DEF TheFile
    <3>. QED BY <2>1 DEF Transcripts!ToSet
  <2>. QED BY <2>2, PluginAssumption DEF TheFile
<1>3. x4.at \in {"none", "open", "done"} /\ x4.still \subseteq Sessions
      /\ x5.at \in {"none", "open", "done"} /\ x5.of \in Sessions
  BY <1>1 DEF Walks, Scrolls
<1>. QED BY <1>1, <1>2, <1>3 DEF Transcripts!TypeOK

LEMMA ListComplete == SessionsInv => Transcripts!ListWhole
<1> SUFFICES ASSUME SessionsInv, x4.at = "done", NEW s \in x4.still
             PROVE  /\ x4.gone \/ Transcripts!Pages(s) # {}
                    /\ x4.moved \/ \A i, j \in Transcripts!Pages(s) : i = j
  BY DEF Transcripts!ListWhole
<1>1. x4 \in Walks /\ Went(x4)
  BY DEF SessionsInv, Walked
<1>2. DOMAIN x4.seen = 1..Len(x4.seen)
  BY <1>1 DEF Walks
<1>. QED BY <1>1, <1>2 DEF Went, Seen, NotTwice, Transcripts!Pages

LEMMA TranscriptComplete == SessionsInv => Transcripts!TranscriptWhole
<1> SUFFICES ASSUME SessionsInv, x5.at = "done", ~x5.replaced
             PROVE  /\ \A i \in DOMAIN x5.read : x5.read[i] = <<x5.read[1][1], i>>
                    /\ x5.read = Transcripts!Lines(x5.of) =>
                           Transcripts!IsSuffix(Transcripts!LastOf(Transcripts!Lines(x5.of)), x5.read)
  BY DEF Transcripts!TranscriptWhole
<1>1. DirInv /\ x5 \in Scrolls /\ Reads(x5, x1) /\ x5.of \in Sessions /\ x5.read \in Seq(Nat \X Nat)
  BY DEF SessionsInv, Scrolls
<1>2. PICK gen \in Nat : LinesOf(x5.read, gen)
  BY <1>1 DEF Reads
<1>3. \A i \in DOMAIN x5.read : x5.read[i] = <<x5.read[1][1], i>>
  <2>1. DOMAIN x5.read = 1..Len(x5.read) /\ Len(x5.read) \in Nat
    BY <1>1
  <2> SUFFICES ASSUME NEW i \in 1..Len(x5.read) PROVE x5.read[i] = <<x5.read[1][1], i>>
    BY <2>1
  <2>2. 1 \in 1..Len(x5.read)
    BY <2>1
  <2>3. x5.read[1] = <<gen, 1>> /\ x5.read[i] = <<gen, i>>
    BY <1>2, <2>2 DEF LinesOf
  <2>. QED BY <2>3
<1>4. Transcripts!IsSuffix(Transcripts!LastOf(Transcripts!Lines(x5.of)), Transcripts!Lines(x5.of))
  <2> DEFINE T == Nat \X Nat
  <2>1. Transcripts!Lines(x5.of) \in Seq(T)
    BY <1>1, LinesAre
  <2> HIDE DEF T
  <2>. QED BY <2>1, EndOfAll
<1>. QED BY <1>3, <1>4

LEMMA PagesStay == SessionsInv => Transcripts!PagesComplete
  BY FilesTyped, ListComplete, TranscriptComplete DEF Transcripts!PagesComplete

-----------------------------------------------------------------------------
(* What the plugin keeps on disk, as it is checked: one part at a time *)

DiskInv ==
    /\ part = "topics" => TopicsInv
    /\ part = "history" => HistoryInv
    /\ part = "sessions" => SessionsInv
    /\ part = "upgrade" => UpgradeInv

LEMMA DiskInit == PluginInit => DiskInv
<1> SUFFICES ASSUME PluginInit PROVE DiskInv
  OBVIOUS
<1>1. part = "topics" => TopicFile!Init
  BY DEF PluginInit
<1>2. part = "history" => ChatFile!Init
  BY DEF PluginInit
<1>3. part = "upgrade" => Upgrade!Init
  BY DEF PluginInit
<1>4. part = "sessions" => Transcripts!Init
  BY DEF PluginInit
<1>. QED BY <1>1, <1>2, <1>3, <1>4, TopicsInit, HistoryInit, UpgradeInit, SessionsInit DEF DiskInv

LEMMA DiskStep ==
  DiskInv /\ [PluginNext]_allVars => DiskInv' /\ (part = "upgrade" => Upgrade!KeepsPlugin \/ UNCHANGED allVars)
<1> SUFFICES ASSUME DiskInv, [PluginNext]_allVars
             PROVE  DiskInv' /\ (part = "upgrade" => Upgrade!KeepsPlugin \/ UNCHANGED allVars)
  OBVIOUS
<1>1. CASE PluginNext
  <2>1. /\ part' = part
        /\ part = "topics" => TopicFile!Next
        /\ part = "history" => ChatFile!Next
        /\ part = "upgrade" => Upgrade!Next
        /\ part = "sessions" => Transcripts!Next
    BY <1>1 DEF PluginNext
  <2>2. part = "topics" => TopicsInv'
    BY <2>1, TopicsStep DEF DiskInv
  <2>3. part = "history" => HistoryInv'
    BY <2>1, HistoryStep DEF DiskInv
  <2>4. part = "upgrade" => UpgradeInv' /\ Upgrade!KeepsPlugin
    BY <2>1, UpgradeStep DEF DiskInv
  <2>5. part = "sessions" => SessionsInv'
    BY <2>1, SessionsStep DEF DiskInv
  <2>. QED BY <2>1, <2>2, <2>3, <2>4, <2>5 DEF DiskInv
<1>2. CASE UNCHANGED allVars
  <2>1. UNCHANGED <<part, x1, x2, x3, x4, x5, x6, x7, x8, x9, x10, x11>>
    BY <1>2 DEF allVars
  <2>2. TopicsInv <=> TopicsInv'
    BY <2>1 DEF TopicsInv, TopicFile!TypeOK, CallIs, KindOf, Copied, Confirmed, TopicFile!Deleted, TopicFile!At,
                IsThere, NoneWrites
  <2>3. HistoryInv <=> HistoryInv'
    BY <2>1 DEF HistoryInv, ChatFile!TypeOK
  <2>4. UpgradeInv <=> UpgradeInv'
    BY <2>1 DEF UpgradeInv, Upgrade!TypeOK, Alone, OnDisk, Upgrade!Alive, Upgrade!Kept, Upgrade!Works
  <2>5. SessionsInv <=> SessionsInv'
    BY <2>1 DEF SessionsInv, DirInv, InOrder, Walked, U
  <2>. QED BY <1>2, <2>1, <2>2, <2>3, <2>4, <2>5 DEF DiskInv
<1>. QED BY <1>1, <1>2

\* A version of the plugin that works is installed or in the backup, at every step
\* of an upgrade, as long as no check has overlapped with a worker.
THEOREM PluginStays == PluginSpec => PluginKept
<1>1. DiskInv /\ [PluginNext]_allVars => [part = "upgrade" => Upgrade!KeepsPlugin]_allVars
  BY DiskStep
<1>. QED BY <1>1, DiskInit, DiskStep, PTL DEF PluginSpec, PluginKept

\* A topic whose creation was confirmed, and a session of a chat that was recorded,
\* are in their files, unless a file was taken for empty because it could not be
\* read; and a caller who has gone through the list of sessions, or through a
\* transcript, page by page, has got every row and every line, once, unless what it
\* goes through moved meanwhile in the way that loses them.
THEOREM RecordsStay == PluginSpec => []ConfirmedKept
<1>1. DiskInv => ConfirmedKept
  BY TopicsStay, HistoryStays, PagesStay DEF DiskInv, ConfirmedKept
<1>. QED BY <1>1, DiskInit, DiskStep, PTL DEF PluginSpec

=============================================================================
