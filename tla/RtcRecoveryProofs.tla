------------------------- MODULE RtcRecoveryProofs -------------------------
(***************************************************************************)
(* Proofs about RtcRecovery, for any number of connections, builds and     *)
(* retries.                                                                *)
(*                                                                         *)
(* A step of the tab is a composition of functions, so the proof is one of *)
(* the functions: Same says of those that leave the connections and the    *)
(* run of __ensureRtc alone that they do, Good is what a handler finds and *)
(* leaves, and Between is what holds in the middle of one, when the run    *)
(* has no promise to await.                                                *)
(*                                                                         *)
(* The second half is about the bot that the connections are for.  Well    *)
(* is what a handler finds and leaves of it, Mid what holds in the middle  *)
(* of a run; a lemma of each function tells what becomes of the bot, its   *)
(* conn and the backoff, one of each handler what its step shows, and a    *)
(* step that is an exception says which.                                   *)
(***************************************************************************)
EXTENDS RtcRecovery, WellFoundedInduction, TLAPS

(***************************************************************************)
(* What is true in every reachable state                                   *)
(***************************************************************************)

Tabs == [bot : Bot, conn : Conns \cup {None}, rtcOf : [Conns -> Rtcs \cup {None}],
         init : [Conns -> {"none", "rtc", "version"}], map : Rtcs \cup {None},
         rtc : [Rtcs -> Rtc], run : Run \cup {None},
         retry : [count : 0..MaxRetries, armed : BOOLEAN], probing : SUBSET Rtcs]

\* A connection that has its peer connection, or is going to make one, is the one
\* in rtcInstances, or was closed before it had one.
Owned(t) ==
    \A r \in Rtcs : t.rtc[r].pc # "none" \/ t.rtc[r].step \in {"creds", "signal"}
                        => t.map = r \/ t.rtc[r].late

\* initRtc's promise is awaited by the run of __ensureRtc, and no run has any
\* other connection in rtcInstances than the one it awaits.
AllSettled(t) == \A r \in Rtcs : t.rtc[r].settled
Awaited(t) ==
    /\ \A r \in Rtcs : ~t.rtc[r].settled => t.run # None /\ t.run.rtc = r
    /\ t.run # None => t.map \in {None, t.run.rtc}

\* A bot in the list has its conn.
HasConn(t) == t.bot.known => t.conn # None

Good(t) == t \in Tabs /\ Owned(t) /\ Awaited(t) /\ HasConn(t)
IInv == Good(tab) /\ (tab.run # None => tab.run.rtc # None)

-----------------------------------------------------------------------------
(* Functions that leave the connections and the run alone *)

Same(u, t) ==
    /\ u \in Tabs /\ u.rtc = t.rtc /\ u.map = t.map /\ u.run = t.run
    /\ u.conn = t.conn /\ u.bot.known = t.bot.known

\* They keep whatever is said of the connections.
LEMMA SameIsGood == ASSUME NEW t, Good(t), NEW u, Same(u, t) PROVE Good(u)
  BY DEF Good, Same, Owned, Awaited, HasConn

\* The backoff.
LEMMA ClearRetrySame == ASSUME NEW t \in Tabs PROVE Same(ClearRetry(t), t)
<1>1. NoRetry \in [count : 0..MaxRetries, armed : BOOLEAN]
  BY RtcAssumption DEF NoRetry
<1> HIDE DEF NoRetry
<1>. QED BY <1>1 DEF ClearRetry, Same, Tabs

\* The backoff.
LEMMA ScheduleRetrySame == ASSUME NEW t \in Tabs PROVE Same(ScheduleRetry(t), t)
<1> DEFINE n == t.retry.count
           none == [t.retry EXCEPT !.count = 0]
           next == [count |-> n + 1, armed |-> TRUE]
           Retries == [count : 0..MaxRetries, armed : BOOLEAN]
<1>1. t.retry \in Retries /\ n \in 0..MaxRetries /\ MaxRetries \in Nat
  BY RtcAssumption DEF Tabs
<1>2. none \in Retries
  BY <1>1
<1>3. n # MaxRetries => next \in Retries
  <2>1. n # MaxRetries => n + 1 \in 0..MaxRetries
    BY <1>1
  <2>. QED BY <2>1
<1>4. ScheduleRetry(t) = t \/ ScheduleRetry(t) = [t EXCEPT !.retry = none]
      \/ (n # MaxRetries /\ ScheduleRetry(t) = [t EXCEPT !.retry = next])
  BY DEF ScheduleRetry, NoMore
<1> HIDE DEF none, next, Retries
<1>5. \A new \in Retries : Same([t EXCEPT !.retry = new], t)
  BY DEF Same, Tabs, Retries
<1>6. Same(t, t)
  BY DEF Same
<1>. QED BY <1>2, <1>3, <1>4, <1>5, <1>6

\* What a connection tells the store.
LEMMA ConnectedSame == ASSUME NEW t \in Tabs PROVE Same(Connected(t), t)
  BY DEF Connected, Same, Tabs, Bot, Phases

\* What a connection tells the store.
LEMMA LostSame == ASSUME NEW t \in Tabs PROVE Same(Lost(t), t)
<1> DEFINE u == [t EXCEPT !.bot.ready = FALSE, !.bot.phase = "failed"]
<1>1. Same(u, t)
  BY DEF Same, Tabs, Bot, Phases
<1>2. Same(t, t)
  BY DEF Same
<1>3. Lost(t) \in {t, u, ScheduleRetry(u)}
  BY DEF Lost
<1> HIDE DEF u
<1>. QED BY <1>1, <1>2, <1>3, ScheduleRetrySame DEF Same

\* __fullInit gives up.
LEMMA InitFailsSame == ASSUME NEW t \in Tabs, NEW c \in Conns PROVE Same(InitFails(t, c), t)
  BY DEF InitFails, Same, Tabs, Bot

\* Pending requests are rejected.
LEMMA RejectPendingSame == ASSUME NEW t \in Tabs, NEW c \in Conns PROVE Same(RejectPending(t, c), t)
  BY InitFailsSame DEF RejectPending, Same

\* The conn loses its connection.
LEMMA ClearRtcSame == ASSUME NEW t \in Tabs, NEW c \in Conns PROVE Same(ClearRtc(t, c), t)
<1> DEFINE u == [t EXCEPT !.rtcOf[c] = None]
<1>1. Same(u, t)
  BY DEF Same, Tabs
<1>2. ClearRtc(t, c) = RejectPending(u, c)
  BY DEF ClearRtc
<1> HIDE DEF u
<1>. QED BY <1>1, <1>2, RejectPendingSame DEF Same

\* __fullInit goes on.
LEMMA AfterEnsureSame == ASSUME NEW t \in Tabs, NEW c \in Conns PROVE Same(AfterEnsure(t, c), t)
<1> DEFINE u == [t EXCEPT !.init[c] = "version", !.bot.ready = @ \/ c = t.conn]
<1>1. Same(u, t)
  BY DEF Same, Tabs, Bot
<1>2. Same(t, t)
  BY DEF Same
<1>3. AfterEnsure(t, c) \in {t, u, InitFails(t, c)}
  BY DEF AfterEnsure
<1> HIDE DEF u
<1>. QED BY <1>1, <1>2, <1>3, InitFailsSame

\* The callbacks of a connection.
LEMMA OnStateChangeSame == ASSUME NEW t \in Tabs, NEW r \in Rtcs PROVE Same(OnStateChange(t, r), t)
<1>1. t.rtc[r].conn \in Conns
  BY DEF Tabs, Rtc
<1>2. Same(t, t) /\ Same(Connected(t), t) /\ Same(Lost(t), t)
  BY ConnectedSame, LostSame DEF Same
<1>3. Same(ClearRtc(Lost(t), t.rtc[r].conn), t)
  <2>1. Lost(t) \in Tabs /\ Same(ClearRtc(Lost(t), t.rtc[r].conn), Lost(t))
    BY <1>1, <1>2, ClearRtcSame DEF Same
  <2>. QED BY <1>2, <2>1 DEF Same
<1>4. OnStateChange(t, r) \in {t, Connected(t), Lost(t), ClearRtc(Lost(t), t.rtc[r].conn)}
  BY DEF OnStateChange
<1>. QED BY <1>2, <1>3, <1>4

-----------------------------------------------------------------------------
(* Closing and building connections *)

\* One connection changes.
LEMMA RtcChanges ==
  ASSUME NEW t \in Tabs, NEW r \in Rtcs, NEW new \in Rtc
  PROVE  LET u == [t EXCEPT !.rtc[r] = new] IN
         /\ u \in Tabs /\ u.map = t.map /\ u.run = t.run /\ u.conn = t.conn /\ u.bot = t.bot
         /\ u.rtc[r] = new /\ \A q \in Rtcs \ {r} : u.rtc[q] = t.rtc[q]
  BY DEF Tabs

\* Only the state of the connection changes.
LEMMA SetStateChanges ==
  ASSUME NEW t \in Tabs, NEW r \in Rtcs, NEW s \in {"idle", "connecting", "connected", "failed", "closed"}
  PROVE  \E new \in Rtc :
            /\ Same(SetState(t, r, s), [t EXCEPT !.rtc[r] = new])
            /\ new.step = t.rtc[r].step /\ new.pc = t.rtc[r].pc /\ new.dc = t.rtc[r].dc
            /\ new.conn = t.rtc[r].conn
            /\ new.settled = t.rtc[r].settled /\ new.late = t.rtc[r].late
<1> DEFINE old == t.rtc[r]
           new == [old EXCEPT !.state = s]
           u == [t EXCEPT !.rtc[r] = new]
<1>1. old \in Rtc
  BY DEF Tabs
<1> HIDE DEF old
<1>2. /\ new \in Rtc /\ new.step = old.step /\ new.pc = old.pc /\ new.dc = old.dc /\ new.conn = old.conn
      /\ new.settled = old.settled /\ new.late = old.late
  BY <1>1 DEF Rtc
<1>3. u \in Tabs
  <2> HIDE DEF new
  <2>. QED BY <1>2, RtcChanges
<1>4. SetState(t, r, s) = t \/ SetState(t, r, s) = OnStateChange(u, r)
  BY DEF SetState, old
<1>5. old.state = s => u = t
  <2>1. old.state = s => new = old
    BY <1>1 DEF Rtc
  <2>. QED BY <2>1 DEF Tabs, old
<1>6. Same(SetState(t, r, s), u)
  <2> HIDE DEF u, new
  <2>1. CASE old.state = s
    BY <1>3, <1>5, <2>1 DEF SetState, Same, old
  <2>2. CASE old.state # s
    <3>1. SetState(t, r, s) = OnStateChange(u, r)
      BY <2>2 DEF SetState, old, u, new
    <3>. QED BY <1>3, <3>1, OnStateChangeSame
  <2>. QED BY <2>1, <2>2
<1> HIDE DEF new
<1>. QED BY <1>2, <1>6 DEF old

\* What closing a connection leaves of it.
LEMMA Closes ==
  ASSUME NEW t \in Tabs, NEW r \in Rtcs
  PROVE  /\ Close(t, r) \in Tabs /\ Close(t, r).map = t.map /\ Close(t, r).run = t.run
         /\ Close(t, r).conn = t.conn /\ Close(t, r).bot.known = t.bot.known
         /\ \A q \in Rtcs \ {r} : Close(t, r).rtc[q] = t.rtc[q]
         /\ Close(t, r).rtc[r].pc = "none" /\ Close(t, r).rtc[r].settled = t.rtc[r].settled
         /\ Close(t, r).rtc[r].step = t.rtc[r].step
         /\ t.rtc[r].late \/ t.rtc[r].step \in {"creds", "signal"} => Close(t, r).rtc[r].late
<1> DEFINE old == t.rtc[r]
           new == [old EXCEPT !.pc = "none", !.dc = "none",
                              !.late = @ \/ old.step \in {"creds", "signal"}]
           w == [t EXCEPT !.probing = @ \ {r}]
           u == [w EXCEPT !.rtc[r] = new]
<1>1. old \in Rtc
  BY DEF Tabs
<1>2. /\ w \in Tabs /\ w.map = t.map /\ w.run = t.run /\ w.conn = t.conn /\ w.bot = t.bot /\ w.rtc = t.rtc
  BY DEF Tabs
<1>3. u = [t EXCEPT !.probing = @ \ {r}, !.rtc[r].pc = "none", !.rtc[r].dc = "none",
                    !.rtc[r].late = @ \/ t.rtc[r].step \in {"creds", "signal"}]
  <2> DEFINE l == old.late \/ old.step \in {"creds", "signal"}
             f == [t.rtc EXCEPT ![r].pc = "none", ![r].dc = "none", ![r].late = l]
  <2>1. new = [[[old EXCEPT !.pc = "none"] EXCEPT !.dc = "none"] EXCEPT !.late = l]
    BY <1>1 DEF Rtc
  <2>2. f = [t.rtc EXCEPT ![r] = [[[old EXCEPT !.pc = "none"] EXCEPT !.dc = "none"] EXCEPT !.late = l]]
    BY <1>1 DEF Tabs
  <2>3. [t EXCEPT !.probing = @ \ {r}, !.rtc[r].pc = "none", !.rtc[r].dc = "none", !.rtc[r].late = l]
            = [w EXCEPT !.rtc = f]
    BY DEF Tabs
  <2>4. [t EXCEPT !.probing = @ \ {r}, !.rtc[r].pc = "none", !.rtc[r].dc = "none",
                    !.rtc[r].late = @ \/ t.rtc[r].step \in {"creds", "signal"}]
         = [t EXCEPT !.probing = @ \ {r}, !.rtc[r].pc = "none", !.rtc[r].dc = "none", !.rtc[r].late = l]
    BY DEF Tabs
  <2>. QED BY <1>2, <2>1, <2>2, <2>3, <2>4
<1>4. Close(t, r) = SetState(u, r, "closed")
  BY <1>3 DEF Close
<1> HIDE DEF old
<1>5. /\ new \in Rtc /\ new.pc = "none" /\ new.settled = old.settled /\ new.step = old.step
      /\ old.late \/ old.step \in {"creds", "signal"} => new.late
  BY <1>1 DEF Rtc
<1> HIDE DEF new, w
<1>6. /\ u \in Tabs /\ u.map = w.map /\ u.run = w.run /\ u.conn = w.conn /\ u.bot = w.bot
      /\ u.rtc[r] = new /\ \A q \in Rtcs \ {r} : u.rtc[q] = w.rtc[q]
  BY <1>2, <1>5, RtcChanges
<1> HIDE DEF u
<1>7. PICK last \in Rtc :
         /\ Same(SetState(u, r, "closed"), [u EXCEPT !.rtc[r] = last])
         /\ last.pc = u.rtc[r].pc /\ last.settled = u.rtc[r].settled /\ last.step = u.rtc[r].step
         /\ last.late = u.rtc[r].late
  BY <1>6, SetStateChanges
<1> DEFINE v == [u EXCEPT !.rtc[r] = last]
<1>8. /\ v \in Tabs /\ v.map = u.map /\ v.run = u.run /\ v.conn = u.conn /\ v.bot = u.bot
      /\ v.rtc[r] = last /\ \A q \in Rtcs \ {r} : v.rtc[q] = u.rtc[q]
  BY <1>6, RtcChanges
<1>9. Same(Close(t, r), v)
  BY <1>4, <1>7
<1> HIDE DEF v
<1>. QED BY <1>2, <1>5, <1>6, <1>7, <1>8, <1>9 DEF Same, old

\* closeRtcForBot leaves nothing in rtcInstances.
LEMMA CloseCurrentLeaves ==
  ASSUME NEW t \in Tabs, Owned(t)
  PROVE  /\ CloseCurrent(t) \in Tabs /\ CloseCurrent(t).map = None /\ CloseCurrent(t).run = t.run
         /\ CloseCurrent(t).conn = t.conn /\ CloseCurrent(t).bot.known = t.bot.known
         /\ \A r \in Rtcs : CloseCurrent(t).rtc[r].settled = t.rtc[r].settled
         /\ Owned(CloseCurrent(t))
<1>1. CASE t.map = None
  BY <1>1 DEF CloseCurrent
<1>2. CASE t.map # None
  <2> DEFINE m == t.map
             u == Close(t, m)
             v == [u EXCEPT !.map = None]
  <2>1. m \in Rtcs
    BY <1>2 DEF Tabs
  <2>2. CloseCurrent(t) = v
    BY <1>2 DEF CloseCurrent
  <2> HIDE DEF m
  <2>3. /\ u \in Tabs /\ u.run = t.run /\ u.conn = t.conn /\ u.bot.known = t.bot.known
        /\ \A q \in Rtcs \ {m} : u.rtc[q] = t.rtc[q]
        /\ u.rtc[m].pc = "none" /\ u.rtc[m].settled = t.rtc[m].settled
        /\ t.rtc[m].late \/ t.rtc[m].step \in {"creds", "signal"} => u.rtc[m].late
        /\ u.rtc[m].step = t.rtc[m].step
    BY <2>1, Closes
  <2> HIDE DEF u
  <2>4. v \in Tabs /\ v.map = None /\ v.run = u.run /\ v.conn = u.conn /\ v.bot = u.bot /\ v.rtc = u.rtc
    BY <2>3 DEF Tabs
  <2>5. Owned(v)
    <3> SUFFICES ASSUME NEW r \in Rtcs, v.rtc[r].pc # "none" \/ v.rtc[r].step \in {"creds", "signal"}
                 PROVE  v.rtc[r].late
      BY DEF Owned
    <3>. QED BY <2>3, <2>4 DEF Owned, m
  <2>. QED BY <2>2, <2>3, <2>4, <2>5
<1>. QED BY <1>1, <1>2

\* A set of numbers that is not empty has a least one.
LEMMA Least == ASSUME NEW S \in SUBSET Nat, S # {} PROVE \E x \in S : \A y \in S : x <= y
<1> DEFINE R == OpToRel(<, Nat)
<1>1. IsWellFoundedOn(R, Nat)
  BY NatLessThanWellFounded
<1>2. \A x, y \in Nat : y < x => <<y, x>> \in R
  BY DEF OpToRel
<1> HIDE DEF R
<1>3. PICK x \in S : \A y \in S : <<y, x>> \notin R
  BY <1>1, WFMin
<1>4. x \in Nat /\ \A y \in S : y \in Nat /\ ~(y < x)
  BY <1>2, <1>3, Zenon
<1>. QED BY <1>3, <1>4, SMT

\* A new connection takes the place of one of which nothing is to come.
LEMMA NextRtcIsOver == ASSUME NEW t PROVE NextRtc(t) = None \/ (NextRtc(t) \in Rtcs /\ Over(t, NextRtc(t)))
<1>1. SUFFICES ASSUME NEW r \in Rtcs, Over(t, r) PROVE NextRtc(t) \in Rtcs /\ Over(t, NextRtc(t))
  BY DEF NextRtc
<1> DEFINE S == {q \in Rtcs : Over(t, q)}
<1>2. S \in SUBSET Nat /\ S # {}
  BY <1>1 DEF Rtcs
<1>3. PICK q \in S : \A p \in S : q <= p
  BY <1>2, Least
<1>4. q \in Rtcs /\ Over(t, q) /\ \A p \in 1..q - 1 : ~Over(t, p)
  BY <1>3, RtcAssumption DEF Rtcs
<1> HIDE DEF S
<1>. QED BY <1>1, <1>4, Zenon DEF NextRtc

-----------------------------------------------------------------------------
(* The run of __ensureRtc *)

\* Where a run is when it has no promise to await.
Between(t) == t \in Tabs /\ Owned(t) /\ AllSettled(t) /\ t.run # None /\ HasConn(t)

\* They keep that as well.
LEMMA SameIsBetween == ASSUME NEW t, Between(t), NEW u, Same(u, t) PROVE Between(u)
  BY DEF Between, Same, Owned, AllSettled, HasConn

\* Another phase of the bot.
LEMMA PhaseChanges ==
  ASSUME NEW t \in Tabs, NEW p \in Phases
  PROVE  Same([t EXCEPT !.bot.phase = p], t)
  BY DEF Tabs, Bot, Same

\* The bot has its channel.
LEMMA ReadyChanges ==
  ASSUME NEW t \in Tabs
  PROVE  Same([t EXCEPT !.bot.ready = TRUE, !.bot.phase = "ready"], t)
  BY DEF Tabs, Bot, Phases, Same

\* A run ends.
LEMMA EndRunIsGood == ASSUME NEW t, Between(t) PROVE Good(EndRun(t))
<1> DEFINE u == [t EXCEPT !.run = None]
<1>1. u \in Tabs /\ u.rtc = t.rtc /\ u.map = t.map /\ u.run = None /\ u.conn = t.conn /\ u.bot = t.bot
  BY DEF Between, Tabs
<1>2. t.run.conn \in Conns
  BY DEF Between, Tabs, Run
<1>3. EndRun(t) = AfterEnsure(u, t.run.conn)
  BY DEF EndRun
<1> HIDE DEF u
<1>4. Good(u)
  BY <1>1 DEF Between, Good, Owned, AllSettled, Awaited, HasConn
<1>. QED BY <1>1, <1>2, <1>3, <1>4, AfterEnsureSame, SameIsGood

\* A run closes what is there and makes another connection.
LEMMA InitRtcIsGood == ASSUME NEW t, Between(t) PROVE Good(InitRtc(t))
<1> DEFINE u == CloseCurrent(t)
           r == NextRtc(u)
           new == [Spent EXCEPT !.state = "idle", !.step = "creds", !.conn = t.run.conn, !.settled = FALSE]
           v == [u EXCEPT !.map = r, !.run.rtc = r, !.rtc[r] = new]
<1>1. /\ u \in Tabs /\ u.map = None /\ u.run = t.run /\ u.conn = t.conn /\ u.bot.known = t.bot.known
      /\ Owned(u) /\ AllSettled(u) /\ HasConn(u) /\ u.run # None /\ u.run \in Run
  BY CloseCurrentLeaves DEF Between, AllSettled, HasConn, Tabs
<1>2. InitRtc(t) = IF r = None THEN u ELSE v
  BY DEF InitRtc
<1>3. new \in Rtc /\ new.step = "creds" /\ ~new.settled
  BY <1>1 DEF Spent, Rtc, Run
<1> HIDE DEF u
<1>4. r = None \/ r \in Rtcs
  BY NextRtcIsOver
<1> HIDE DEF r, new
<1>5. CASE r = None
  BY <1>1, <1>2, <1>5 DEF Good, Awaited, AllSettled
<1>6. CASE r # None
  <2> DEFINE run == [u.run EXCEPT !.rtc = r]
  <2>1. run \in Run /\ run.rtc = r /\ run # None
    BY <1>1, <1>4, <1>6, NoneAssumption DEF Run
  <2>2. v = [u EXCEPT !.map = r, !.run = run, !.rtc = [u.rtc EXCEPT ![r] = new]]
    BY <1>1 DEF Tabs
  <2> HIDE DEF run
  <2>3. /\ v \in Tabs /\ v.map = r /\ v.run = run /\ v.rtc = [u.rtc EXCEPT ![r] = new]
        /\ v.conn = u.conn /\ v.bot = u.bot
    BY <1>1, <1>3, <1>4, <1>6, <2>1, <2>2 DEF Tabs
  <2> HIDE DEF v
  <2>4. v.rtc[r] = new /\ \A q \in Rtcs \ {r} : v.rtc[q] = u.rtc[q]
    BY <1>1, <1>4, <1>6, <2>3 DEF Tabs
  <2>5. Owned(v)
    BY <1>1, <2>3, <2>4, RtcAssumption DEF Owned
  <2>6. Awaited(v)
    BY <1>1, <2>1, <2>3, <2>4 DEF Awaited, AllSettled
  <2>. QED BY <1>1, <1>2, <1>6, <2>3, <2>5, <2>6 DEF Good, HasConn, v
<1>. QED BY <1>5, <1>6

\* The head of the loop of __ensureRtc.
LEMMA BuildIsGood == ASSUME NEW t, Between(t) PROVE Good(Build(t))
<1> DEFINE u == IF t.bot.known THEN [t EXCEPT !.bot.phase = "idle"] ELSE t
<1>1. Between(u)
  <2>1. t \in Tabs /\ "idle" \in Phases
    BY DEF Between, Phases
  <2>. QED BY <2>1, PhaseChanges, SameIsBetween
<1>2. Build(t) \in {InitRtc(t), EndRun(u)}
  BY DEF Build
<1> HIDE DEF u
<1>. QED BY <1>1, <1>2, InitRtcIsGood, EndRunIsGood

\* A run has what it wants.
LEMMA BuiltIsGood == ASSUME NEW t, Between(t) PROVE Good(Built(t))
<1> DEFINE u == IF t.bot.known THEN [t EXCEPT !.bot.ready = TRUE, !.bot.phase = "ready"] ELSE t
<1>1. Between(u) /\ u \in Tabs
  <2>1. t \in Tabs
    BY DEF Between
  <2>2. Between(u)
    BY <2>1, ReadyChanges, SameIsBetween
  <2>. QED BY <2>2 DEF Between
<1>2. Built(t) = EndRun(ClearRetry(u))
  BY DEF Built
<1> HIDE DEF u
<1>. QED BY <1>1, <1>2, ClearRetrySame, SameIsBetween, EndRunIsGood

\* A run tries again, or ends.
LEMMA NotBuiltIsGood == ASSUME NEW t, Between(t) PROVE Good(NotBuilt(t))
<1> DEFINE u == IF t.bot.known THEN [t EXCEPT !.bot.phase = "failed"] ELSE t
           v == [t EXCEPT !.run.tries = @ + 1, !.run.rtc = None]
<1>1. Good(EndRun(ScheduleRetry(u)))
  <2>1. t \in Tabs /\ "failed" \in Phases
    BY DEF Between, Phases
  <2>2. Between(u)
    BY <2>1, PhaseChanges, SameIsBetween
  <2> HIDE DEF u
  <2>. QED BY <2>2, ScheduleRetrySame, SameIsBetween, EndRunIsGood DEF Between
<1>2. ASSUME t.run.tries + 1 < MaxBuilds PROVE Between(v)
  <2> DEFINE run == [t.run EXCEPT !.tries = @ + 1, !.rtc = None]
  <2>1. t.run \in Run /\ t.run.tries \in 0..MaxBuilds /\ MaxBuilds \in Nat
    BY RtcAssumption DEF Between, Tabs, Run
  <2>2. t.run.tries + 1 \in 0..MaxBuilds
    BY <1>2, <2>1
  <2>3. run \in Run
    BY <2>1, <2>2 DEF Run
  <2>4. v = [t EXCEPT !.run = run]
    BY DEF Between, Tabs
  <2> HIDE DEF run
  <2>5. v \in Tabs /\ v.rtc = t.rtc /\ v.map = t.map /\ v.run # None /\ v.conn = t.conn /\ v.bot = t.bot
    BY <2>3, <2>4, NoneAssumption DEF Between, Tabs
  <2>. QED BY <2>5 DEF Between, Owned, AllSettled, HasConn
<1>3. NotBuilt(t) = IF t.run.tries + 1 < MaxBuilds THEN Build(v) ELSE EndRun(ScheduleRetry(u))
  BY DEF NotBuilt
<1> HIDE DEF u, v
<1>. QED BY <1>1, <1>2, <1>3, BuildIsGood

-----------------------------------------------------------------------------
(* What waits for the promise of initRtc, and what starts a run *)

\* The promise is settled: the run that awaited it is between two.
LEMMA Settles ==
  ASSUME NEW t, Good(t), NEW r \in Rtcs, ~t.rtc[r].settled
  PROVE  /\ Between(Settle(t, r)) /\ Settle(t, r).map = t.map
         /\ \A q \in Rtcs \ {r} : Settle(t, r).rtc[q] = t.rtc[q]
         /\ Settle(t, r).rtc[r].step = t.rtc[r].step /\ Settle(t, r).rtc[r].conn = t.rtc[r].conn
         /\ t.map \in {None, r}
<1> DEFINE old == t.rtc[r]
           new == [old EXCEPT !.settled = TRUE]
           u == [t EXCEPT !.rtc[r] = new]
<1>1. t \in Tabs /\ old \in Rtc
  BY DEF Good, Tabs
<1>2. Settle(t, r) = u
  BY DEF Settle
<1> HIDE DEF old
<1>3. /\ new \in Rtc /\ new.settled /\ new.pc = old.pc /\ new.step = old.step /\ new.late = old.late
      /\ new.conn = old.conn
  BY <1>1 DEF Rtc
<1> HIDE DEF new
<1>4. /\ u \in Tabs /\ u.map = t.map /\ u.run = t.run /\ u.conn = t.conn /\ u.bot = t.bot
      /\ u.rtc[r] = new /\ \A q \in Rtcs \ {r} : u.rtc[q] = t.rtc[q]
  BY <1>1, <1>3, RtcChanges
<1> HIDE DEF u
<1>5. t.run # None /\ t.run.rtc = r /\ t.map \in {None, r} /\ \A q \in Rtcs \ {r} : t.rtc[q].settled
  BY DEF Good, Awaited
<1>6. Owned(u)
  BY <1>3, <1>4 DEF Good, Owned, old
<1>7. Between(u)
  BY <1>3, <1>4, <1>5, <1>6 DEF Between, AllSettled, Good, HasConn
<1>. QED BY <1>2, <1>3, <1>4, <1>5, <1>7 DEF old

\* The promise is refused.
LEMMA RefusedIsGood == ASSUME NEW t, Good(t), NEW r \in Rtcs PROVE Good(Refused(t, r))
<1>1. CASE t.rtc[r].settled
  BY <1>1 DEF Refused
<1>2. CASE ~t.rtc[r].settled
  BY <1>2, Settles, NotBuiltIsGood DEF Refused
<1>. QED BY <1>1, <1>2

\* initRtc closes its connection when it gives up.
LEMMA CaughtBetween ==
  ASSUME NEW t, Good(t), NEW r \in Rtcs, ~t.rtc[r].settled
  PROVE  Between(ClearRtc([Close(Settle(t, r), r) EXCEPT !.map = None], t.rtc[r].conn))
<1> DEFINE u == Settle(t, r)
           v == Close(u, r)
           w == [v EXCEPT !.map = None]
           c == t.rtc[r].conn
<1>1. c \in Conns
  BY DEF Good, Tabs, Rtc
<1>2. Between(u) /\ u.map \in {None, r} /\ u \in Tabs
  BY Settles DEF Between
<1> HIDE DEF u, c
<1>3. /\ v \in Tabs /\ v.run = u.run /\ v.conn = u.conn /\ v.bot.known = u.bot.known
      /\ \A q \in Rtcs \ {r} : v.rtc[q] = u.rtc[q]
      /\ v.rtc[r].pc = "none" /\ v.rtc[r].settled = u.rtc[r].settled /\ v.rtc[r].step = u.rtc[r].step
      /\ u.rtc[r].late \/ u.rtc[r].step \in {"creds", "signal"} => v.rtc[r].late
  BY <1>2, Closes
<1> HIDE DEF v
<1>4. w \in Tabs /\ w.map = None /\ w.run = v.run /\ w.conn = v.conn /\ w.bot = v.bot /\ w.rtc = v.rtc
  BY <1>3 DEF Tabs
<1> HIDE DEF w
<1>5. Owned(w)
  <2> SUFFICES ASSUME NEW q \in Rtcs, w.rtc[q].pc # "none" \/ w.rtc[q].step \in {"creds", "signal"}
               PROVE  w.rtc[q].late
    BY DEF Owned
  <2>1. CASE q = r
    BY <1>3, <1>4, <2>1
  <2>2. CASE q # r
    <3>1. w.rtc[q] = u.rtc[q] /\ u.map # q
      BY <1>2, <1>3, <1>4, <2>2, RtcAssumption
    <3>. QED BY <1>2, <3>1 DEF Between, Owned
  <2>. QED BY <2>1, <2>2
<1>6. Between(w)
  BY <1>2, <1>3, <1>4, <1>5 DEF Between, AllSettled, HasConn
<1>7. Between(ClearRtc(w, c))
  BY <1>1, <1>4, <1>6, ClearRtcSame, SameIsBetween
<1>. QED BY <1>7 DEF w, v, u, c

\* Whoever awaited it tries again, or gives up.
LEMMA CaughtIsGood == ASSUME NEW t, Good(t), NEW r \in Rtcs PROVE Good(Caught(t, r))
<1>1. CASE t.rtc[r].settled
  BY <1>1 DEF Caught
<1>2. CASE ~t.rtc[r].settled
  <2> DEFINE v == ClearRtc([Close(Settle(t, r), r) EXCEPT !.map = None], t.rtc[r].conn)
  <2>1. Caught(t, r) = NotBuilt(v)
    BY <1>2 DEF Caught
  <2>2. Between(v)
    BY <1>2, CaughtBetween
  <2> HIDE DEF v
  <2>. QED BY <2>1, <2>2, NotBuiltIsGood
<1>. QED BY <1>1, <1>2

\* What a run begins from.
Begun(t) ==
    ClearRtc(CloseCurrent([t EXCEPT !.bot.phase = IF t.bot.known THEN "busy" ELSE @,
                                    !.run = [conn |-> t.conn, tries |-> 0, rtc |-> None]]), t.conn)

\* A run begins: what was there is closed.
LEMMA RunBegins ==
  ASSUME NEW t, Good(t), t.run = None, t.conn # None PROVE Between(Begun(t))
<1> DEFINE c == t.conn
           run == [conn |-> c, tries |-> 0, rtc |-> None]
           p == IF t.bot.known THEN "busy" ELSE t.bot.phase
           w == [t EXCEPT !.bot.phase = p]
           u == [t EXCEPT !.bot.phase = IF t.bot.known THEN "busy" ELSE @, !.run = run]
<1>1. t \in Tabs
  BY DEF Good
<1>2. c \in Conns /\ run \in Run /\ run # None
  <2>1. c \in Conns /\ 0 \in 0..MaxBuilds
    BY <1>1, RtcAssumption DEF Tabs
  <2>2. run \in Run
    BY <2>1 DEF Run
  <2>. QED BY <2>1, <2>2, NoneAssumption
<1>3. p \in Phases
  BY <1>1 DEF Tabs, Bot, Phases
<1>4. u = [w EXCEPT !.run = run] /\ Begun(t) = ClearRtc(CloseCurrent(u), c)
  BY <1>1 DEF Tabs, Begun
<1> HIDE DEF run, p
<1>5. Same(w, t)
  BY <1>1, <1>3, PhaseChanges
<1> HIDE DEF w, c
<1>6. u \in Tabs /\ u.rtc = t.rtc /\ u.map = t.map /\ u.run = run /\ u.conn = t.conn
      /\ u.bot.known = t.bot.known
  BY <1>2, <1>4, <1>5 DEF Tabs, Same
<1> HIDE DEF u
<1>7. Owned(u) /\ AllSettled(u) /\ HasConn(u)
  BY <1>6 DEF Good, Owned, AllSettled, Awaited, HasConn
<1>8. Between(CloseCurrent(u))
  BY <1>2, <1>6, <1>7, CloseCurrentLeaves DEF Between, AllSettled, HasConn
<1>9. CloseCurrent(u) \in Tabs
  BY <1>8 DEF Between
<1>. QED BY <1>2, <1>4, <1>8, <1>9, ClearRtcSame, SameIsBetween

\* __ensureRtc up to its first await.
LEMMA EnsureRtcIsGood ==
  ASSUME NEW t, Good(t), NEW force \in BOOLEAN PROVE Good(EnsureRtc(t, force))
<1> DEFINE v == [t EXCEPT !.bot.ready = TRUE, !.bot.phase = "ready"]
<1>1. EnsureRtc(t, force) \in {t, v} \/
        (t.run = None /\ t.conn # None /\ EnsureRtc(t, force) = Build(Begun(t)))
  BY DEF EnsureRtc, InProgress, Begun
<1>2. Good(v)
  BY ReadyChanges, SameIsGood DEF Good
<1> HIDE DEF v
<1>. QED BY <1>1, <1>2, RunBegins, BuildIsGood

\* __fullInit up to its first await.
LEMMA FullInitIsGood == ASSUME NEW t, Good(t), t.conn # None PROVE Good(FullInit(t))
<1> DEFINE c == t.conn
           u == [t EXCEPT !.bot.init = TRUE]
           w == [u EXCEPT !.init[c] = "rtc"]
           v == EnsureRtc(w, FALSE)
<1>1. t \in Tabs /\ c \in Conns
  BY DEF Good, Tabs
<1>2. Same(u, t)
  BY <1>1 DEF Tabs, Bot, Same
<1>3. FullInit(t) \in {v, AfterEnsure(v, c)}
  BY DEF FullInit
<1> HIDE DEF u, c
<1>4. Same(w, u)
  BY <1>1, <1>2 DEF Tabs, Same
<1> HIDE DEF w
<1>5. Good(v)
  BY <1>2, <1>4, SameIsGood, EnsureRtcIsGood
<1> HIDE DEF v
<1>6. v \in Tabs
  BY <1>5 DEF Good
<1>. QED BY <1>1, <1>3, <1>5, <1>6, AfterEnsureSame, SameIsGood

-----------------------------------------------------------------------------
(* The handlers *)

\* What is over is forgotten.
LEMMA BecomesGood == ASSUME NEW t, Good(t), Becomes(t) PROVE IInv'
<1> DEFINE rtc == [r \in Rtcs |-> IF Over(t, r) THEN Spent ELSE t.rtc[r]]
<1>1. t \in Tabs /\ tab' = [t EXCEPT !.rtc = rtc] /\ (t.run # None => t.run.rtc # None)
  BY DEF Good, Becomes
<1>2. Spent \in Rtc /\ Spent.pc = "none" /\ Spent.step = "done" /\ Spent.settled
  BY RtcAssumption DEF Spent, Rtc, Conns
<1>3. rtc \in [Rtcs -> Rtc] /\ \A r \in Rtcs : rtc[r] = t.rtc[r] \/ rtc[r] = Spent
  BY <1>1, <1>2 DEF Tabs
<1> HIDE DEF rtc
<1>4. /\ tab' \in Tabs /\ tab'.rtc = rtc /\ tab'.map = t.map /\ tab'.run = t.run
      /\ tab'.conn = t.conn /\ tab'.bot = t.bot
  BY <1>1, <1>3 DEF Tabs
<1>5. Owned(tab') /\ Awaited(tab') /\ HasConn(tab')
  BY <1>2, <1>3, <1>4 DEF Good, Owned, Awaited, HasConn
<1>. QED BY <1>1, <1>4, <1>5 DEF IInv, Good

\* A connection gets no further than it could have.
LEMMA RtcChangesWell ==
  ASSUME NEW t, Good(t), NEW r \in Rtcs, NEW new \in Rtc, new.settled = t.rtc[r].settled,
         t.rtc[r].late => new.late,
         new.pc # "none" \/ new.step \in {"creds", "signal"}
            => t.rtc[r].pc # "none" \/ t.rtc[r].step \in {"creds", "signal"}
  PROVE  Good([t EXCEPT !.rtc[r] = new])
<1> DEFINE u == [t EXCEPT !.rtc[r] = new]
<1>1. /\ u \in Tabs /\ u.map = t.map /\ u.run = t.run /\ u.conn = t.conn /\ u.bot = t.bot
      /\ u.rtc[r] = new /\ \A q \in Rtcs \ {r} : u.rtc[q] = t.rtc[q]
  BY RtcChanges DEF Good
<1> HIDE DEF u
<1>2. Owned(u)
  BY <1>1 DEF Good, Owned
<1>3. Awaited(u) /\ HasConn(u)
  BY <1>1 DEF Good, Awaited, HasConn
<1>. QED BY <1>1, <1>2, <1>3 DEF Good, u

\* The state of a connection changes.
LEMMA SetStateIsGood ==
  ASSUME NEW t, Good(t), NEW r \in Rtcs, NEW s \in {"idle", "connecting", "connected", "failed", "closed"}
  PROVE  Good(SetState(t, r, s))
<1>1. t \in Tabs
  BY DEF Good
<1>2. PICK new \in Rtc :
         /\ Same(SetState(t, r, s), [t EXCEPT !.rtc[r] = new])
         /\ new.step = t.rtc[r].step /\ new.pc = t.rtc[r].pc
         /\ new.settled = t.rtc[r].settled /\ new.late = t.rtc[r].late
  BY <1>1, SetStateChanges
<1>3. Good([t EXCEPT !.rtc[r] = new])
  BY <1>2, RtcChangesWell
<1>. QED BY <1>2, <1>3, SameIsGood

\* A connection is closed.
LEMMA CloseIsGood == ASSUME NEW t, Good(t), NEW r \in Rtcs PROVE Good(Close(t, r))
<1> DEFINE u == Close(t, r)
<1>1. /\ u \in Tabs /\ u.map = t.map /\ u.run = t.run /\ u.conn = t.conn /\ u.bot.known = t.bot.known
      /\ \A q \in Rtcs \ {r} : u.rtc[q] = t.rtc[q]
      /\ u.rtc[r].pc = "none" /\ u.rtc[r].settled = t.rtc[r].settled /\ u.rtc[r].step = t.rtc[r].step
      /\ t.rtc[r].late \/ t.rtc[r].step \in {"creds", "signal"} => u.rtc[r].late
  BY Closes DEF Good
<1> HIDE DEF u
<1>2. Owned(u)
  BY <1>1 DEF Good, Owned
<1>3. Awaited(u) /\ HasConn(u)
  BY <1>1 DEF Good, Awaited, HasConn
<1>. QED BY <1>1, <1>2, <1>3 DEF Good, u

\* The bot goes with its conn.
LEMMA DisconnectIsGood ==
  ASSUME NEW t, Good(t), t.conn # None
  PROVE  /\ Disconnect(t) \in Tabs
         /\ Good([Disconnect(t) EXCEPT !.bot = NoBot])
         /\ Good([ClearRetry(Disconnect(t)) EXCEPT !.bot = NoBot])
<1> DEFINE c == t.conn
           r == t.rtcOf[c]
           u == IF r = None THEN t ELSE Close(t, r)
           v == [u EXCEPT !.rtcOf[c] = None, !.conn = None]
<1>1. c \in Conns /\ r \in Rtcs \cup {None}
  BY DEF Good, Tabs
<1>2. Disconnect(t) = RejectPending(v, c)
  BY DEF Disconnect
<1>3. Good(u)
  BY <1>1, CloseIsGood
<1> HIDE DEF u, c
<1>4. v \in Tabs /\ v.rtc = u.rtc /\ v.map = u.map /\ v.run = u.run
  BY <1>1, <1>3 DEF Good, Tabs
<1> HIDE DEF v
<1>5. Same(Disconnect(t), v) /\ Disconnect(t) \in Tabs
  BY <1>1, <1>2, <1>4, RejectPendingSame DEF Same
<1>6. Same(ClearRetry(Disconnect(t)), Disconnect(t))
  BY <1>5, ClearRetrySame
<1>7. ASSUME NEW x \in Tabs, x.rtc = u.rtc, x.map = u.map, x.run = u.run
      PROVE  Good([x EXCEPT !.bot = NoBot])
  <2> DEFINE y == [x EXCEPT !.bot = NoBot]
  <2>1. NoBot \in Bot /\ NoBot.known = FALSE
    BY DEF NoBot, Bot, Phases
  <2>2. y \in Tabs /\ y.rtc = x.rtc /\ y.map = x.map /\ y.run = x.run /\ y.bot = NoBot
    BY <2>1 DEF Tabs
  <2> HIDE DEF y
  <2>3. Owned(y) /\ Awaited(y) /\ HasConn(y)
    BY <1>3, <1>7, <2>1, <2>2 DEF Good, Owned, Awaited, HasConn
  <2>. QED BY <2>2, <2>3 DEF Good, y
<1>. QED BY <1>4, <1>5, <1>6, <1>7 DEF Same

\* A bot comes into the list.
LEMMA AddBotKeeps == ASSUME IInv, NEW on \in BOOLEAN, AddBot(on) PROVE IInv'
<1> DEFINE t == [tab EXCEPT !.bot = NewBot(on)]
           c == NextConn(t)
           u == [t EXCEPT !.conn = c]
<1>1. NewBot(on) \in Bot
  BY DEF NewBot, NoBot, Bot, Phases
<1>2. /\ t \in Tabs /\ t.rtc = tab.rtc /\ t.map = tab.map /\ t.run = tab.run /\ t.conn = tab.conn
      /\ t.init = tab.init /\ t.rtcOf = tab.rtcOf /\ t.probing = tab.probing
  BY <1>1 DEF IInv, Good, Tabs
<1>3. Becomes(BridgeNew(t)) /\ RoomForConn(tab)
  BY DEF AddBot
<1> HIDE DEF t
<1>4. c \in Conns
  <2> DEFINE S == {d \in Conns : Unused(t, d)}
  <2>1. S # {} /\ S \in SUBSET Nat
    BY <1>2, <1>3 DEF RoomForConn, Unused, Over, Conns
  <2>2. PICK d \in S : \A e \in S : d <= e
    BY <2>1, Least
  <2>3. d \in Conns /\ Unused(t, d) /\ \A e \in 1..d - 1 : ~Unused(t, e)
    BY <2>2, RtcAssumption DEF Conns
  <2>. QED BY <2>3, Zenon DEF NextConn
<1> HIDE DEF c
<1>5. Good(u) /\ u.conn # None
  <2>1. u \in Tabs /\ u.rtc = t.rtc /\ u.map = t.map /\ u.run = t.run /\ u.conn = c /\ c # None
    BY <1>2, <1>4, RtcAssumption DEF Tabs
  <2> HIDE DEF u
  <2>. QED BY <1>2, <2>1 DEF IInv, Good, Owned, Awaited, HasConn
<1>6. BridgeNew(t) \in {u, FullInit(u)}
  BY DEF BridgeNew, c
<1> HIDE DEF u
<1>. QED BY <1>3, <1>5, <1>6, FullInitIsGood, BecomesGood

\* A bot goes.
LEMMA RemoveBotKeeps == ASSUME IInv, RemoveBot PROVE IInv'
<1> DEFINE t == CloseCurrent(tab)
<1>1. Good(t) /\ t.conn # None
  <2>1. tab \in Tabs /\ Owned(tab) /\ Awaited(tab) /\ tab.conn # None
    BY DEF IInv, Good, HasConn, RemoveBot
  <2>. QED BY <2>1, CloseCurrentLeaves DEF Good, Awaited, HasConn
<1>2. Becomes([ClearRetry(Disconnect(t)) EXCEPT !.bot = NoBot])
  BY DEF RemoveBot
<1> HIDE DEF t
<1>. QED BY <1>1, <1>2, DisconnectIsGood, BecomesGood

\* The user logs out.
LEMMA LogoutKeeps == ASSUME IInv, Logout PROVE IInv'
  BY DisconnectIsGood, BecomesGood DEF Logout, IInv

\* A snapshot comes.
LEMMA SnapshotKeeps == ASSUME IInv, NEW on \in BOOLEAN, SnapshotWith(on) PROVE IInv'
<1> DEFINE t == [tab EXCEPT !.bot.online = on \/ tab.bot.ready]
<1>1. Same(t, tab) /\ Good(tab)
  BY DEF IInv, Good, Tabs, Bot, Same
<1>2. Good(t) /\ t \in Tabs
  BY <1>1, SameIsGood DEF Same
<1>3. PICK u \in {t, EnsureRtc(ClearRetry(t), FALSE)} : Becomes(u)
  BY DEF SnapshotWith
<1> HIDE DEF t
<1>4. Good(EnsureRtc(ClearRetry(t), FALSE))
  BY <1>2, ClearRetrySame, SameIsGood, EnsureRtcIsGood
<1>. QED BY <1>2, <1>3, <1>4, BecomesGood

\* The bot goes offline.
LEMMA BotOfflineKeeps == ASSUME IInv, BotOffline PROVE IInv'
<1> DEFINE t == [tab EXCEPT !.bot.online = FALSE, !.bot.ready = FALSE, !.bot.phase = "idle"]
<1>1. Same(t, tab) /\ Good(tab)
  BY DEF IInv, Good, Tabs, Bot, Phases, Same
<1>2. Becomes(ClearRetry(t))
  BY DEF BotOffline
<1> HIDE DEF t
<1>3. Good(t) /\ t \in Tabs
  BY <1>1, SameIsGood DEF Same
<1>. QED BY <1>2, <1>3, ClearRetrySame, SameIsGood, BecomesGood

\* The bot comes online.
LEMMA BotOnlineKeeps == ASSUME IInv, BotOnline PROVE IInv'
<1> DEFINE t == [tab EXCEPT !.bot.online = TRUE]
<1>1. Same(t, tab) /\ Good(tab) /\ tab.conn # None
  BY DEF IInv, Good, Tabs, Bot, Same, HasConn, BotOnline
<1>2. PICK u \in {t, FullInit(t), EnsureRtc(ClearRetry(t), FALSE)} : Becomes(u)
  BY DEF BotOnline
<1> HIDE DEF t
<1>3. Good(t) /\ t \in Tabs /\ t.conn # None
  BY <1>1, SameIsGood DEF Same
<1>4. Good(EnsureRtc(ClearRetry(t), FALSE))
  BY <1>3, ClearRetrySame, SameIsGood, EnsureRtcIsGood
<1>5. Good(FullInit(t))
  BY <1>3, FullInitIsGood
<1>. QED BY <1>2, <1>3, <1>4, <1>5, BecomesGood

\* The retry timer fires.
LEMMA RetryFiresKeeps == ASSUME IInv, RetryFires PROVE IInv'
<1> DEFINE t == [tab EXCEPT !.retry.armed = FALSE]
<1>1. Same(t, tab) /\ Good(tab)
  BY DEF IInv, Good, Tabs, Same
<1>2. PICK u \in {ClearRetry(t), EnsureRtc(t, FALSE)} : Becomes(u)
  BY DEF RetryFires
<1> HIDE DEF t
<1>3. Good(t) /\ t \in Tabs
  BY <1>1, SameIsGood DEF Same
<1>. QED BY <1>2, <1>3, ClearRetrySame, SameIsGood, EnsureRtcIsGood, BecomesGood

\* The version is known, or not.
LEMMA VersionAnsweredKeeps ==
  ASSUME IInv, NEW c \in Conns, NEW ok \in BOOLEAN, VersionAnswered(c, ok) PROVE IInv'
<1> DEFINE t == [tab EXCEPT !.init[c] = "none"]
<1>1. Same(t, tab) /\ Good(tab) /\ tab \in Tabs
  BY DEF IInv, Good, Tabs, Same
<1>2. PICK u \in {t, InitFails(tab, c)} : Becomes(u)
  BY DEF VersionAnswered
<1> HIDE DEF t
<1>. QED BY <1>1, <1>2, InitFailsSame, SameIsGood, BecomesGood

\* __checkAndRecover decides to connect anew.
LEMMA RecoverIsGood == ASSUME NEW t, Good(t), NEW force \in BOOLEAN PROVE Good(Recover(t, force))
<1> DEFINE u == [t EXCEPT !.bot.phase = "busy"]
<1>1. t \in Tabs /\ Same(u, t)
  BY PhaseChanges DEF Good, Phases
<1>2. Recover(t, force) = EnsureRtc(ClearRetry(u), force)
  BY DEF Recover
<1> HIDE DEF u
<1>3. Good(u) /\ u \in Tabs
  BY <1>1, SameIsGood DEF Same
<1>. QED BY <1>2, <1>3, ClearRetrySame, SameIsGood, EnsureRtcIsGood

\* Which connections are probed is of no account here.
LEMMA ProbingChanges ==
  ASSUME NEW t, Good(t), NEW s \in SUBSET Rtcs PROVE Good([t EXCEPT !.probing = s])
<1>1. Same([t EXCEPT !.probing = s], t)
  BY DEF Good, Tabs, Same
<1>. QED BY <1>1, SameIsGood

\* The tab is in the foreground again.
LEMMA ForegroundResumeKeeps ==
  ASSUME IInv, NEW longAgo \in BOOLEAN, ForegroundResume(longAgo) PROVE IInv'
<1> DEFINE r == CurrentRtc(tab)
           t == [tab EXCEPT !.probing = @ \cup {r}]
           s == tab.probing \cup {r}
<1>1. r \in Rtcs
  <2>1. r # None
    BY DEF ForegroundResume
  <2>. QED BY <2>1 DEF IInv, Good, Tabs, CurrentRtc
<1>2. PICK u \in {Recover(tab, FALSE), Recover(tab, TRUE), t} : Becomes(u)
  BY DEF ForegroundResume
<1>3. Good(tab) /\ s \in SUBSET Rtcs
  BY <1>1 DEF IInv, Good, Tabs
<1>4. t = [tab EXCEPT !.probing = s]
  OBVIOUS
<1> HIDE DEF r, t, s
<1>. QED BY <1>2, <1>3, <1>4, RecoverIsGood, ProbingChanges, BecomesGood

\* A probe is over.
LEMMA ProbeKeeps == ASSUME IInv, NEW r \in Rtcs, ProbeAnswered(r) \/ ProbeFailed(r) PROVE IInv'
<1> DEFINE s == tab.probing \ {r}
           t == [tab EXCEPT !.probing = s]
<1>1. PICK u \in {t, Recover(t, TRUE)} : Becomes(u)
  BY DEF ProbeAnswered, ProbeFailed
<1>2. Good(tab) /\ s \in SUBSET Rtcs
  BY DEF IInv, Good, Tabs
<1> HIDE DEF s
<1>3. Good(t)
  BY <1>2, ProbingChanges
<1> HIDE DEF t
<1>. QED BY <1>1, <1>3, RecoverIsGood, BecomesGood

\* A connection that goes on to another step, or ends it.
LEMMA StepChanges ==
  ASSUME NEW t, Good(t), NEW r \in Rtcs, NEW s \in {"signal", "done"}, t.rtc[r].step = "creds" \/ s = "done"
  PROVE  Good([t EXCEPT !.rtc[r].step = s])
<1> DEFINE old == t.rtc[r]
           new == [old EXCEPT !.step = s]
<1>1. old \in Rtc
  BY DEF Good, Tabs
<1>2. [t EXCEPT !.rtc[r].step = s] = [t EXCEPT !.rtc[r] = new]
  OBVIOUS
<1> HIDE DEF old
<1>3. new \in Rtc /\ new.settled = old.settled /\ new.late = old.late /\ new.pc = old.pc /\ new.step = s
  BY <1>1 DEF Rtc
<1> HIDE DEF new
<1>. QED BY <1>2, <1>3, RtcChangesWell DEF old

\* The TURN credentials are there, or not.
LEMMA CredsKeeps == ASSUME IInv, NEW r \in Rtcs, NEW ok \in BOOLEAN, Creds(r, ok) PROVE IInv'
<1>1. PICK u \in {[tab EXCEPT !.rtc[r].step = "signal"], Caught([tab EXCEPT !.rtc[r].step = "done"], r)} :
         Becomes(u)
  BY DEF Creds
<1>2. Good(tab) /\ tab.rtc[r].step = "creds"
  BY DEF IInv, Creds
<1>. QED BY <1>1, <1>2, StepChanges, CaughtIsGood, BecomesGood

\* A peer connection and its channel are there, of a connection that was not
\* closed, or was closed while it awaited the signalling channel.
LEMMA SignalKeeps == ASSUME IInv, NEW r \in Rtcs, NEW ok \in BOOLEAN, Signal(r, ok) PROVE IInv'
<1> DEFINE old == tab.rtc[r]
           new == [old EXCEPT !.step = "offer", !.pc = "new", !.dc = "new"]
           t == [tab EXCEPT !.rtc[r].step = "offer", !.rtc[r].pc = "new", !.rtc[r].dc = "new"]
<1>1. PICK u \in {SetState(t, r, "connecting"), Caught([tab EXCEPT !.rtc[r].step = "done"], r)} : Becomes(u)
  BY DEF Signal
<1>2. Good(tab) /\ old.step = "signal" /\ old \in Rtc /\ tab \in Tabs
  BY DEF IInv, Signal, Good, Tabs
<1>3. Good(t)
  <2>1. t = [tab EXCEPT !.rtc = [[[tab.rtc EXCEPT ![r].step = "offer"] EXCEPT ![r].pc = "new"]
                                    EXCEPT ![r].dc = "new"]]
    BY <1>2 DEF Tabs
  <2>2. [[[tab.rtc EXCEPT ![r].step = "offer"] EXCEPT ![r].pc = "new"] EXCEPT ![r].dc = "new"]
            = [tab.rtc EXCEPT ![r] = new]
    <3>1. new = [[[old EXCEPT !.step = "offer"] EXCEPT !.pc = "new"] EXCEPT !.dc = "new"]
      BY <1>2 DEF Rtc
    <3>. QED BY <1>2, <3>1 DEF Tabs
  <2>3. t = [tab EXCEPT !.rtc[r] = new]
    BY <2>1, <2>2
  <2> HIDE DEF old
  <2>4. new \in Rtc /\ new.settled = old.settled /\ new.late = old.late
    BY <1>2 DEF Rtc
  <2> HIDE DEF new, t
  <2>. QED BY <1>2, <2>3, <2>4, RtcChangesWell DEF old
<1> HIDE DEF t, old
<1>. QED BY <1>1, <1>2, <1>3, SetStateIsGood, StepChanges, CaughtIsGood, BecomesGood

\* createOffer is done.
LEMMA OfferKeeps == ASSUME IInv, NEW r \in Rtcs, Offer(r) PROVE IInv'
<1> DEFINE t == [tab EXCEPT !.rtc[r].step = "done"]
<1>1. PICK u \in {t, Caught(t, r)} : Becomes(u)
  BY DEF Offer
<1>2. Good(t)
  BY StepChanges DEF IInv
<1> HIDE DEF t
<1>. QED BY <1>1, <1>2, CaughtIsGood, BecomesGood

\* The fallback timer fires.
LEMMA FallbackKeeps == ASSUME IInv, NEW r \in Rtcs, Fallback(r) PROVE IInv'
  BY CaughtIsGood, BecomesGood DEF Fallback, IInv

\* A peer connection changes that is there.
LEMMA PcChanges ==
  ASSUME NEW t, Good(t), NEW r \in Rtcs, t.rtc[r].pc # "none",
         NEW p \in {"connected", "disconnected", "failed"}
  PROVE  Good([t EXCEPT !.rtc[r].pc = p])
<1> DEFINE old == t.rtc[r]
           new == [old EXCEPT !.pc = p]
<1>1. old \in Rtc
  BY DEF Good, Tabs
<1>2. [t EXCEPT !.rtc[r].pc = p] = [t EXCEPT !.rtc[r] = new]
  OBVIOUS
<1> HIDE DEF old
<1>3. new \in Rtc /\ new.settled = old.settled /\ new.late = old.late
  BY <1>1 DEF Rtc
<1> HIDE DEF new
<1>. QED BY <1>2, <1>3, RtcChangesWell DEF old

\* What is known of its candidates is of no account here.
LEMMA StatsChange ==
  ASSUME NEW t, Good(t), NEW r \in Rtcs, NEW s \in BOOLEAN PROVE Good([t EXCEPT !.rtc[r].stats = s])
<1> DEFINE old == t.rtc[r]
           new == [old EXCEPT !.stats = s]
<1>1. old \in Rtc
  BY DEF Good, Tabs
<1>2. [t EXCEPT !.rtc[r].stats = s] = [t EXCEPT !.rtc[r] = new]
  OBVIOUS
<1> HIDE DEF old
<1>3. /\ new \in Rtc /\ new.settled = old.settled /\ new.late = old.late /\ new.pc = old.pc
      /\ new.step = old.step
  BY <1>1 DEF Rtc
<1> HIDE DEF new
<1>. QED BY <1>2, <1>3, RtcChangesWell DEF old

\* What is known of its channel.
LEMMA DcChanges ==
  ASSUME NEW t, Good(t), NEW r \in Rtcs, NEW d \in {"none", "open"} PROVE Good([t EXCEPT !.rtc[r].dc = d])
<1> DEFINE old == t.rtc[r]
           new == [old EXCEPT !.dc = d]
<1>1. old \in Rtc
  BY DEF Good, Tabs
<1>2. [t EXCEPT !.rtc[r].dc = d] = [t EXCEPT !.rtc[r] = new]
  OBVIOUS
<1> HIDE DEF old
<1>3. /\ new \in Rtc /\ new.settled = old.settled /\ new.late = old.late /\ new.pc = old.pc
      /\ new.step = old.step
  BY <1>1 DEF Rtc
<1> HIDE DEF new
<1>. QED BY <1>2, <1>3, RtcChangesWell DEF old

\* The peer connection is connected.
LEMMA PcConnectedKeeps == ASSUME IInv, NEW r \in Rtcs, PcConnected(r) PROVE IInv'
<1> DEFINE t == [tab EXCEPT !.rtc[r].pc = "connected"]
           u == [t EXCEPT !.rtc[r].stats = TRUE]
<1>1. Becomes(SetState(u, r, "connected"))
  <2>1. tab \in Tabs
    BY DEF IInv, Good
  <2>2. u = [tab EXCEPT !.rtc[r].pc = "connected", !.rtc[r].stats = TRUE]
    BY <2>1 DEF Tabs
  <2>. QED BY <2>2 DEF PcConnected
<1>2. Good(t)
  BY PcChanges DEF IInv, PcConnected
<1> HIDE DEF t
<1>3. Good(u)
  BY <1>2, StatsChange
<1> HIDE DEF u
<1>. QED BY <1>1, <1>3, SetStateIsGood, BecomesGood

\* The candidate type is known.
LEMMA StatsKeeps == ASSUME IInv, NEW r \in Rtcs, Stats(r) PROVE IInv'
<1> DEFINE t == [tab EXCEPT !.rtc[r].stats = FALSE]
<1>1. PICK u \in {t, OnStateChange(t, r)} : Becomes(u)
  BY DEF Stats
<1>2. Good(t)
  BY StatsChange DEF IInv
<1> HIDE DEF t
<1>3. Good(OnStateChange(t, r))
  BY <1>2, OnStateChangeSame, SameIsGood DEF Good
<1>. QED BY <1>1, <1>2, <1>3, BecomesGood

\* The peer connection is disconnected.
LEMMA PcDisconnectedKeeps == ASSUME IInv, NEW r \in Rtcs, PcDisconnected(r) PROVE IInv'
  BY PcChanges, BecomesGood DEF IInv, PcDisconnected

\* The peer connection has failed.
LEMMA PcFailedKeeps == ASSUME IInv, NEW r \in Rtcs, PcFailed(r) PROVE IInv'
<1> DEFINE t == [tab EXCEPT !.rtc[r].pc = "failed"]
<1>1. PICK u \in {t, tab} : Becomes(Refused(SetState(u, r, "failed"), r))
  BY DEF PcFailed
<1>2. Good(t) /\ Good(tab)
  BY PcChanges DEF IInv, PcFailed
<1> HIDE DEF t
<1>. QED BY <1>1, <1>2, SetStateIsGood, RefusedIsGood, BecomesGood

\* The data channel opens.
LEMMA DcOpenKeeps == ASSUME IInv, NEW r \in Rtcs, DcOpen(r) PROVE IInv'
<1> DEFINE t == [tab EXCEPT !.rtc[r].dc = "open"]
           u == Settle(t, r)
<1>1. Becomes(IF t.rtc[r].settled THEN t ELSE Built(SetRtc(u, r)))
  BY DEF DcOpen
<1>2. Good(t)
  BY DcChanges DEF IInv
<1> HIDE DEF t
<1>3. CASE t.rtc[r].settled
  BY <1>1, <1>2, <1>3, BecomesGood
<1>4. CASE ~t.rtc[r].settled
  <2>1. Between(u) /\ u \in Tabs
    BY <1>2, <1>4, Settles DEF Between
  <2> HIDE DEF u
  <2>2. Same(SetRtc(u, r), u)
    <3>1. u.rtc[r].conn \in Conns
      BY <2>1 DEF Tabs, Rtc
    <3>. QED BY <2>1, <3>1 DEF SetRtc, Tabs, Same
  <2>. QED BY <1>1, <1>4, <2>1, <2>2, SameIsBetween, BuiltIsGood, BecomesGood
<1>. QED BY <1>3, <1>4

\* The data channel closes.
LEMMA DcClosedKeeps == ASSUME IInv, NEW r \in Rtcs, DcClosed(r) PROVE IInv'
<1> DEFINE t == [tab EXCEPT !.rtc[r].dc = "none"]
           c == tab.rtc[r].conn
<1>1. Becomes(RejectPending(t, c)) /\ c \in Conns
  BY DEF DcClosed, IInv, Good, Tabs, Rtc
<1>2. Good(t)
  BY DcChanges DEF IInv
<1> HIDE DEF t, c
<1>. QED BY <1>1, <1>2, RejectPendingSame, SameIsGood, BecomesGood DEF Good

-----------------------------------------------------------------------------
(* Every step *)

\* A tab without a bot.
LEMMA InitHolds == Init => IInv
<1> SUFFICES ASSUME Init PROVE IInv
  OBVIOUS
<1>1. Spent \in Rtc /\ Spent.pc = "none" /\ Spent.step = "done" /\ Spent.settled
  BY RtcAssumption DEF Spent, Rtc, Conns
<1>2. NoBot \in Bot /\ NoBot.known = FALSE /\ NoRetry \in [count : 0..MaxRetries, armed : BOOLEAN]
  BY RtcAssumption DEF NoBot, Bot, Phases, NoRetry
<1>3. /\ tab \in Tabs /\ tab.rtc = [r \in Rtcs |-> Spent] /\ tab.run = None /\ tab.bot = NoBot
  <2> HIDE DEF Spent, NoBot, NoRetry
  <2>. QED BY <1>1, <1>2 DEF Init, Tabs
<1>. QED BY <1>1, <1>2, <1>3 DEF IInv, Good, Owned, Awaited, HasConn

\* Every step keeps the invariant.
LEMMA StepKeeps == IInv /\ [Next]_vars => IInv'
<1> SUFFICES ASSUME IInv, [Next]_vars PROVE IInv'
  OBVIOUS
<1>1. CASE UNCHANGED vars
  BY <1>1 DEF vars, IInv, Good, Owned, Awaited, HasConn
<1>2. ASSUME NEW on \in BOOLEAN, AddBot(on) \/ SnapshotWith(on) PROVE IInv'
  BY <1>2, AddBotKeeps, SnapshotKeeps
<1>3. CASE RemoveBot \/ Logout \/ BotOffline \/ BotOnline \/ RetryFires
  BY <1>3, RemoveBotKeeps, LogoutKeeps, BotOfflineKeeps, BotOnlineKeeps, RetryFiresKeeps
<1>4. ASSUME NEW c \in Conns, NEW ok \in BOOLEAN, VersionAnswered(c, ok) PROVE IInv'
  BY <1>4, VersionAnsweredKeeps
<1>5. ASSUME NEW longAgo \in BOOLEAN, ForegroundResume(longAgo) PROVE IInv'
  BY <1>5, ForegroundResumeKeeps
<1>6. ASSUME NEW r \in Rtcs, NEW ok \in BOOLEAN, Creds(r, ok) \/ Signal(r, ok) PROVE IInv'
  BY <1>6, CredsKeeps, SignalKeeps
<1>7. ASSUME NEW r \in Rtcs,
             \/ Offer(r) \/ Fallback(r) \/ Stats(r)
             \/ PcConnected(r) \/ PcDisconnected(r) \/ PcFailed(r) \/ DcOpen(r) \/ DcClosed(r)
             \/ ProbeAnswered(r) \/ ProbeFailed(r)
      PROVE  IInv'
  BY <1>7, OfferKeeps, FallbackKeeps, StatsKeeps, PcConnectedKeeps, PcDisconnectedKeeps, PcFailedKeeps,
     DcOpenKeeps, DcClosedKeeps, ProbeKeeps
<1>. QED BY <1>1, <1>2, <1>3, <1>4, <1>5, <1>6, <1>7 DEF Next, StoreNext, RtcNext

\* What is true in every reachable state of a tab.
THEOREM Invariance == Spec => []IInv
  BY InitHolds, StepKeeps, PTL DEF Spec

\* A tab has one peer connection to the plugin at a time, the one that is in
\* rtcInstances, but for those that were closed before they had theirs.
THEOREM OnePeerConnection == Spec => []PcOwned
<1>1. IInv => PcOwned
  BY DEF IInv, Good, Tabs, Owned, PcOwned, TypeOK
<1>. QED BY <1>1, Invariance, PTL

(***************************************************************************)
(* What is true of the bot and of the connection it uses                   *)
(***************************************************************************)

\* The phases of a bot: without it there is none, and it is ready and busy as its
\* phase says, but that it may have a channel in another phase.
Bots(t) ==
    /\ t.conn # None <=> t.bot.known
    /\ ~t.bot.known => ~t.bot.ready /\ t.bot.phase = "idle"
    /\ t.bot.phase = "ready" => t.bot.ready
Rests(t) == t.run = None => t.bot.phase # "busy"

\* A peer connection that is up belongs to a connection that is connected, and
\* what is probed is in rtcInstances.
Pcs(t) == \A r \in Rtcs : t.rtc[r].pc = "connected" => t.rtc[r].state = "connected" /\ t.rtc[r].step = "done"
Probed(t) == \A q \in t.probing : t.map = q

\* The connection that the bot's conn uses is its own, connected and in
\* rtcInstances, and then there is no run.
Linked(t) ==
    LET r == CurrentRtc(t) IN
    r # None => /\ t.map = r /\ t.rtc[r].state = "connected" /\ t.rtc[r].step = "done"
                /\ t.rtc[r].conn = t.conn /\ t.run = None

\* What a run awaits is made for its conn, and in rtcInstances if that is the bot's.
Runs(t) ==
    t.run # None /\ t.run.rtc # None =>
        /\ t.rtc[t.run.rtc].conn = t.run.conn /\ ~t.rtc[t.run.rtc].settled
        /\ t.run.conn = t.conn => t.map = t.run.rtc

Sound(t) == Good(t) /\ Bots(t) /\ Pcs(t) /\ Probed(t) /\ Linked(t) /\ Runs(t)
Well(t) == Sound(t) /\ Rests(t)

-----------------------------------------------------------------------------
(* What the functions tell the bot, its conn and the backoff *)

\* Functions that leave even more alone.
Kin(u, t) == Same(u, t) /\ u.probing = t.probing /\ u.bot.online = t.bot.online

\* The bot is as ready as it was, ...
AsReady(u, t) == u.bot.ready = t.bot.ready /\ u.bot.phase = t.bot.phase
\* ... or it has lost its channel.
Down(u) == u.bot.known => ~u.bot.ready /\ u.bot.phase = "failed"
SameRetry(u, t) == u.retry = t.retry

\* Of a bot that wants a connection some retry is armed, or they are used up.
Cared(u, t) ==
    u.bot.known /\ u.bot.online /\ ~u.bot.ready /\ u.run = None /\ ~u.retry.armed
        => t.retry.count = MaxRetries /\ u.retry.count = 0

\* The backoff.
LEMMA ClearRetryTells ==
  ASSUME NEW t \in Tabs
  PROVE  LET u == ClearRetry(t) IN
         Kin(u, t) /\ u.bot = t.bot /\ u.rtcOf = t.rtcOf
<1>1. Same(ClearRetry(t), t)
  BY ClearRetrySame
<1>. QED BY <1>1 DEF ClearRetry, Kin, Tabs

\* The backoff.
LEMMA ScheduleRetryTells ==
  ASSUME NEW t \in Tabs
  PROVE  LET u == ScheduleRetry(t) IN
         /\ Kin(u, t) /\ u.bot = t.bot /\ u.rtcOf = t.rtcOf
         /\ t.bot.known /\ t.bot.online => u.retry.armed \/ (t.retry.count = MaxRetries /\ u.retry.count = 0)
<1> DEFINE u == ScheduleRetry(t)
           none == [t.retry EXCEPT !.count = 0]
           next == [count |-> t.retry.count + 1, armed |-> TRUE]
<1>1. Same(u, t)
  BY ScheduleRetrySame
<1>2. t.retry.count \in 0..MaxRetries /\ none.count = 0 /\ next.armed = TRUE
  BY DEF Tabs
<1>3. \/ u = t /\ (~t.bot.known \/ ~t.bot.online)
      \/ u = [t EXCEPT !.retry = none] /\ t.retry.count = MaxRetries
      \/ u = [t EXCEPT !.retry = next]
  BY DEF ScheduleRetry, NoMore
<1> HIDE DEF u, none, next
<1>4. /\ u.bot = t.bot /\ u.rtcOf = t.rtcOf /\ u.probing = t.probing
      /\ \/ ~t.bot.known \/ ~t.bot.online
         \/ u.retry = none /\ t.retry.count = MaxRetries
         \/ u.retry = next
  BY <1>3 DEF Tabs
<1>. QED BY <1>1, <1>2, <1>4 DEF Kin, u

\* What a connection tells the store.
LEMMA ConnectedTells ==
  ASSUME NEW t \in Tabs
  PROVE  LET u == Connected(t) IN
         /\ Kin(u, t) /\ u.rtcOf = t.rtcOf /\ SameRetry(u, t)
         /\ AsReady(u, t) \/ (u.bot.known /\ CurrentRtc(t) # None /\ u.bot.ready /\ u.bot.phase = "ready")
<1>1. Same(Connected(t), t)
  BY ConnectedSame
<1>. QED BY <1>1 DEF Connected, Kin, Tabs, Bot, AsReady, SameRetry, IsReady

\* What a connection tells the store.
LEMMA LostTells ==
  ASSUME NEW t \in Tabs
  PROVE  LET u == Lost(t) IN
         /\ Kin(u, t) /\ u.rtcOf = t.rtcOf /\ Down(u) /\ (~t.bot.known => u = t)
         /\ t.run # None => SameRetry(u, t)
         /\ Cared(u, t)
<1> DEFINE v == [t EXCEPT !.bot.ready = FALSE, !.bot.phase = "failed"]
<1>1. Kin(v, t) /\ v.rtcOf = t.rtcOf /\ Down(v) /\ v.retry = t.retry /\ v.run = t.run
  BY DEF Same, Tabs, Bot, Phases, Kin, Down
<1>2. v \in Tabs
  BY <1>1 DEF Kin, Same
<1>3. Lost(t) = IF ~t.bot.known THEN t ELSE IF t.run = None THEN ScheduleRetry(v) ELSE v
  BY DEF Lost
<1>4. Kin(t, t)
  BY DEF Kin, Same
<1> HIDE DEF v
<1>5. CASE ~t.bot.known
  BY <1>3, <1>4, <1>5 DEF Down, SameRetry, Cared
<1>6. CASE t.bot.known /\ t.run = None
  <2> DEFINE u == ScheduleRetry(v)
  <2>1. /\ Kin(u, v) /\ u.bot = v.bot /\ u.rtcOf = v.rtcOf
        /\ v.bot.known /\ v.bot.online => u.retry.armed \/ (v.retry.count = MaxRetries /\ u.retry.count = 0)
    BY <1>2, ScheduleRetryTells
  <2>2. Lost(t) = u
    BY <1>3, <1>6
  <2> HIDE DEF u
  <2>3. Kin(u, t) /\ u.rtcOf = t.rtcOf /\ Down(u) /\ Cared(u, t)
    BY <1>1, <2>1 DEF Kin, Same, Down, Cared
  <2>. QED BY <1>6, <2>2, <2>3
<1>7. CASE t.bot.known /\ t.run # None
  <2>1. Lost(t) = v
    BY <1>3, <1>7
  <2>. QED BY <1>1, <1>7, <2>1 DEF SameRetry, Cared
<1>. QED BY <1>5, <1>6, <1>7

\* Requests are rejected, and __fullInit gives up.
LEMMA InitFailsTells ==
  ASSUME NEW t \in Tabs, NEW c \in Conns
  PROVE  LET u == InitFails(t, c) IN
         Kin(u, t) /\ u.rtcOf = t.rtcOf /\ SameRetry(u, t) /\ AsReady(u, t)
<1>1. Same(InitFails(t, c), t)
  BY InitFailsSame
<1>. QED BY <1>1 DEF InitFails, Kin, Tabs, Bot, AsReady, SameRetry

\* Requests are rejected, and __fullInit gives up.
LEMMA RejectPendingTells ==
  ASSUME NEW t \in Tabs, NEW c \in Conns
  PROVE  LET u == RejectPending(t, c) IN
         Kin(u, t) /\ u.rtcOf = t.rtcOf /\ SameRetry(u, t) /\ AsReady(u, t)
<1>1. Kin(t, t) /\ t.rtcOf = t.rtcOf /\ SameRetry(t, t) /\ AsReady(t, t)
  BY DEF Kin, Same, SameRetry, AsReady
<1>. QED BY <1>1, InitFailsTells DEF RejectPending

\* The conn loses its connection.
LEMMA ClearRtcTells ==
  ASSUME NEW t \in Tabs, NEW c \in Conns
  PROVE  LET u == ClearRtc(t, c) IN
         Kin(u, t) /\ u.rtcOf = [t.rtcOf EXCEPT ![c] = None] /\ SameRetry(u, t) /\ AsReady(u, t)
<1> DEFINE v == [t EXCEPT !.rtcOf[c] = None]
<1>1. Kin(v, t) /\ v.rtcOf = [t.rtcOf EXCEPT ![c] = None] /\ SameRetry(v, t) /\ AsReady(v, t)
  BY DEF Kin, Same, SameRetry, AsReady, Tabs
<1>2. v \in Tabs
  BY <1>1 DEF Kin, Same
<1>3. ClearRtc(t, c) = RejectPending(v, c)
  BY DEF ClearRtc
<1> HIDE DEF v
<1>. QED BY <1>1, <1>2, <1>3, RejectPendingTells DEF Kin, Same, SameRetry, AsReady

\* __fullInit goes on: the bot is ready if its conn has a connection that is.
LEMMA AfterEnsureTells ==
  ASSUME NEW t \in Tabs, NEW c \in Conns
  PROVE  LET u == AfterEnsure(t, c) IN
         /\ Kin(u, t) /\ u.rtcOf = t.rtcOf /\ SameRetry(u, t) /\ u.bot.phase = t.bot.phase
         /\ u.bot.ready = t.bot.ready \/ (u.bot.ready /\ c = t.conn /\ CurrentRtc(t) # None)
<1> DEFINE v == [t EXCEPT !.init[c] = "version", !.bot.ready = @ \/ c = t.conn]
<1>1. /\ Kin(v, t) /\ v.rtcOf = t.rtcOf /\ SameRetry(v, t) /\ v.bot.phase = t.bot.phase
      /\ v.bot.ready = t.bot.ready \/ (v.bot.ready /\ c = t.conn)
  BY DEF Kin, Same, SameRetry, Tabs, Bot
<1>2. Kin(t, t) /\ SameRetry(t, t) /\ AsReady(t, t)
  BY DEF Kin, Same, SameRetry, AsReady
<1>3. \/ AfterEnsure(t, c) = t \/ AfterEnsure(t, c) = InitFails(t, c)
      \/ AfterEnsure(t, c) = v /\ t.rtcOf[c] # None
  BY DEF AfterEnsure, IsReady
<1>4. c = t.conn /\ t.rtcOf[c] # None => CurrentRtc(t) # None
  BY RtcAssumption DEF CurrentRtc
<1> HIDE DEF v
<1>. QED BY <1>1, <1>2, <1>3, <1>4, InitFailsTells DEF AsReady

\* The callbacks of a connection.
LEMMA OnStateChangeTells ==
  ASSUME NEW t \in Tabs, NEW r \in Rtcs
  PROVE  LET u == OnStateChange(t, r)
             s == t.rtc[r].state
             c == t.rtc[r].conn
         IN
         /\ Kin(u, t)
         /\ u.rtcOf = IF s = "failed" THEN [t.rtcOf EXCEPT ![c] = None] ELSE t.rtcOf
         /\ s \in {"failed", "closed"} => Down(u) /\ (~t.bot.known => AsReady(u, t)) /\ Cared(u, t)
         /\ s \notin {"failed", "closed"} \/ t.run # None => SameRetry(u, t)
         /\ s \notin {"failed", "closed"} =>
              AsReady(u, t) \/ (u.bot.known /\ CurrentRtc(t) # None /\ u.bot.ready /\ u.bot.phase = "ready")
         /\ s \notin {"failed", "closed", "connected"} => AsReady(u, t)
<1> DEFINE s == t.rtc[r].state
           c == t.rtc[r].conn
           u == OnStateChange(t, r)
           l == Lost(t)
<1>1. c \in Conns
  BY DEF Tabs, Rtc
<1>2. u = CASE s = "connected" -> Connected(t) [] s = "failed" -> ClearRtc(l, c) [] s = "closed" -> l
            [] OTHER -> t
  BY DEF OnStateChange
<1>3. /\ Kin(l, t) /\ l.rtcOf = t.rtcOf /\ Down(l) /\ (~t.bot.known => l = t)
      /\ t.run # None => SameRetry(l, t)
      /\ Cared(l, t)
  BY LostTells
<1>4. l \in Tabs
  BY <1>3 DEF Kin, Same
<1> HIDE DEF c, u, s, l
<1>5. CASE s = "connected"
  BY <1>2, <1>5, ConnectedTells DEF s, u
<1>6. CASE s = "failed"
  <2> DEFINE k == ClearRtc(l, c)
  <2>1. Kin(k, l) /\ k.rtcOf = [l.rtcOf EXCEPT ![c] = None] /\ SameRetry(k, l) /\ AsReady(k, l)
    BY <1>1, <1>4, ClearRtcTells
  <2>2. u = k
    BY <1>2, <1>6
  <2> HIDE DEF k
  <2>3. /\ Kin(k, t) /\ k.rtcOf = [t.rtcOf EXCEPT ![c] = None]
        /\ t.run # None => SameRetry(k, t)
        /\ Down(k) /\ (~t.bot.known => AsReady(k, t)) /\ Cared(k, t)
    BY <1>3, <2>1 DEF Kin, Same, SameRetry, AsReady, Down, Cared
  <2>. QED BY <1>6, <2>2, <2>3 DEF u, s, c
<1>7. CASE s = "closed"
  <2>1. u = l
    BY <1>2, <1>7
  <2>2. ~t.bot.known => AsReady(l, t)
    BY <1>3 DEF AsReady
  <2>. QED BY <1>3, <1>7, <2>1, <2>2 DEF u, s
<1>8. CASE s \notin {"failed", "closed", "connected"}
  <2>1. u = t
    BY <1>2, <1>8
  <2>2. Kin(t, t) /\ SameRetry(t, t) /\ AsReady(t, t)
    BY DEF Kin, Same, SameRetry, AsReady
  <2>. QED BY <1>8, <2>1, <2>2 DEF u, s
<1>. QED BY <1>5, <1>6, <1>7, <1>8

\* Only one connection changes, and nothing else.
RtcOnly(u, t, r) ==
    /\ u \in Tabs /\ u.map = t.map /\ u.run = t.run /\ u.conn = t.conn /\ u.bot = t.bot
    /\ u.rtcOf = t.rtcOf /\ u.retry = t.retry /\ u.probing = t.probing
    /\ \A q \in Rtcs \ {r} : u.rtc[q] = t.rtc[q]
LEMMA RtcOnlyChanges ==
  ASSUME NEW t \in Tabs, NEW r \in Rtcs, NEW new \in Rtc
  PROVE  RtcOnly([t EXCEPT !.rtc[r] = new], t, r) /\ [t EXCEPT !.rtc[r] = new].rtc[r] = new
  BY DEF Tabs, RtcOnly

\* The state of a connection changes, and nothing else, ...
SetTo(v, t, s, r) ==
    /\ RtcOnly(v, t, r)
    /\ v.rtc[r].state = s /\ v.rtc[r].step = t.rtc[r].step /\ v.rtc[r].pc = t.rtc[r].pc
    /\ v.rtc[r].dc = t.rtc[r].dc /\ v.rtc[r].conn = t.rtc[r].conn
    /\ v.rtc[r].settled = t.rtc[r].settled /\ v.rtc[r].late = t.rtc[r].late
\* ... and then it is told.
LEMMA SetStateIs ==
  ASSUME NEW t \in Tabs, NEW r \in Rtcs, NEW s \in {"idle", "connecting", "connected", "failed", "closed"}
  PROVE  \E v \in Tabs :
         /\ SetTo(v, t, s, r)
         /\ t.rtc[r].state = s => SetState(t, r, s) = t
         /\ t.rtc[r].state # s => SetState(t, r, s) = OnStateChange(v, r)
<1> DEFINE old == t.rtc[r]
           new == [old EXCEPT !.state = s]
           v == [t EXCEPT !.rtc[r].state = s]
<1>1. old \in Rtc
  BY DEF Tabs
<1>2. v = [t EXCEPT !.rtc[r] = new]
  OBVIOUS
<1>3. /\ t.rtc[r].state = s => SetState(t, r, s) = t
      /\ t.rtc[r].state # s => SetState(t, r, s) = OnStateChange(v, r)
  BY DEF SetState
<1> HIDE DEF old, v
<1>4. /\ new \in Rtc /\ new.state = s /\ new.step = old.step /\ new.pc = old.pc /\ new.dc = old.dc
      /\ new.conn = old.conn /\ new.settled = old.settled /\ new.late = old.late
  BY <1>1 DEF Rtc
<1> HIDE DEF new
<1>5. RtcOnly(v, t, r) /\ v.rtc[r] = new
  BY <1>2, <1>4, RtcOnlyChanges
<1>6. v \in Tabs
  BY <1>5 DEF RtcOnly
<1>7. SetTo(v, t, s, r)
  BY <1>4, <1>5 DEF old, SetTo
<1>. QED BY <1>3, <1>6, <1>7

\* Closing a connection.
LEMMA CloseTells ==
  ASSUME NEW t \in Tabs, NEW r \in Rtcs
  PROVE  LET u == Close(t, r) IN
         /\ u \in Tabs /\ u.map = t.map /\ u.run = t.run /\ u.conn = t.conn /\ u.bot.known = t.bot.known
         /\ u.bot.online = t.bot.online /\ u.rtcOf = t.rtcOf /\ u.probing = t.probing \ {r}
         /\ \A q \in Rtcs \ {r} : u.rtc[q] = t.rtc[q]
         /\ u.rtc[r].pc = "none" /\ u.rtc[r].conn = t.rtc[r].conn /\ u.rtc[r].settled = t.rtc[r].settled
         /\ t.rtc[r].state # "closed" => Down(u)
         /\ AsReady(u, t) \/ (u.bot.known /\ Down(u))
         /\ t.run # None => SameRetry(u, t)
<1> DEFINE old == t.rtc[r]
           l == old.late \/ old.step \in {"creds", "signal"}
           new == [old EXCEPT !.pc = "none", !.dc = "none", !.late = l]
           w == [t EXCEPT !.probing = @ \ {r}]
           y == [w EXCEPT !.rtc[r] = new]
           u == Close(t, r)
<1>1. old \in Rtc
  BY DEF Tabs
<1>2. /\ w \in Tabs /\ w.map = t.map /\ w.run = t.run /\ w.conn = t.conn /\ w.bot = t.bot /\ w.rtc = t.rtc
      /\ w.rtcOf = t.rtcOf /\ w.retry = t.retry /\ w.probing = t.probing \ {r}
  BY DEF Tabs
<1>3. y = [t EXCEPT !.probing = @ \ {r}, !.rtc[r].pc = "none", !.rtc[r].dc = "none",
                    !.rtc[r].late = @ \/ t.rtc[r].step \in {"creds", "signal"}]
  <2> DEFINE f == [t.rtc EXCEPT ![r].pc = "none", ![r].dc = "none", ![r].late = l]
  <2>1. new = [[[old EXCEPT !.pc = "none"] EXCEPT !.dc = "none"] EXCEPT !.late = l]
    BY <1>1 DEF Rtc
  <2>2. f = [t.rtc EXCEPT ![r] = [[[old EXCEPT !.pc = "none"] EXCEPT !.dc = "none"] EXCEPT !.late = l]]
    BY <1>1 DEF Tabs
  <2>3. [t EXCEPT !.probing = @ \ {r}, !.rtc[r].pc = "none", !.rtc[r].dc = "none", !.rtc[r].late = l]
            = [w EXCEPT !.rtc = f]
    BY DEF Tabs
  <2>4. [t EXCEPT !.probing = @ \ {r}, !.rtc[r].pc = "none", !.rtc[r].dc = "none",
                    !.rtc[r].late = @ \/ t.rtc[r].step \in {"creds", "signal"}]
         = [t EXCEPT !.probing = @ \ {r}, !.rtc[r].pc = "none", !.rtc[r].dc = "none", !.rtc[r].late = l]
    BY DEF Tabs
  <2>. QED BY <1>2, <2>1, <2>2, <2>3, <2>4
<1>4. u = SetState(y, r, "closed")
  BY <1>3 DEF Close
<1> HIDE DEF old, l
<1>5. new \in Rtc /\ new.pc = "none" /\ new.settled = old.settled /\ new.conn = old.conn /\ new.state = old.state
  <2>1. l \in BOOLEAN
    BY <1>1 DEF Rtc, l
  <2>. QED BY <1>1, <2>1 DEF Rtc
<1> HIDE DEF new, w
<1>6. RtcOnly(y, w, r) /\ y.rtc[r] = new
  BY <1>2, <1>5, RtcOnlyChanges
<1> HIDE DEF y, u
<1>7. y \in Tabs
  BY <1>6 DEF RtcOnly
<1>8. PICK v \in Tabs :
      /\ RtcOnly(v, y, r)
      /\ v.rtc[r].state = "closed" /\ v.rtc[r].pc = y.rtc[r].pc
      /\ v.rtc[r].conn = y.rtc[r].conn /\ v.rtc[r].settled = y.rtc[r].settled
      /\ y.rtc[r].state = "closed" => u = y
      /\ y.rtc[r].state # "closed" => u = OnStateChange(v, r)
  <2> DEFINE s == "closed"
  <2>1. s \in {"idle", "connecting", "connected", "failed", "closed"} /\ u = SetState(y, r, s)
    BY <1>4
  <2>2. s = "closed"
    OBVIOUS
  <2> HIDE DEF s
  <2>. QED BY <1>7, <2>1, <2>2, SetStateIs DEF SetTo
<1> DEFINE x == OnStateChange(v, r)
<1>9. v \in Tabs
  OBVIOUS
<1>10. /\ Kin(x, v) /\ x.rtcOf = v.rtcOf
       /\ Down(x) /\ (~v.bot.known => AsReady(x, v)) /\ (v.run # None => SameRetry(x, v))
  BY <1>8, <1>9, OnStateChangeTells
<1> HIDE DEF x
<1>11. CASE y.rtc[r].state = "closed"
  <2>1. u = y
    BY <1>8, <1>11
  <2>2. /\ y.bot = t.bot /\ y.rtc[r] = new
        /\ y \in Tabs /\ y.map = t.map /\ y.run = t.run /\ y.conn = t.conn /\ y.rtcOf = t.rtcOf
        /\ y.probing = t.probing \ {r} /\ y.retry = t.retry /\ \A q \in Rtcs \ {r} : y.rtc[q] = t.rtc[q]
    BY <1>2, <1>6 DEF RtcOnly
  <2>3. AsReady(y, t) /\ SameRetry(y, t)
    BY <2>2 DEF AsReady, SameRetry
  <2>4. t.rtc[r].state = "closed"
    BY <1>5, <1>11, <2>2 DEF old
  <2>. QED BY <1>5, <2>1, <2>2, <2>3, <2>4 DEF old, u
<1>12. CASE y.rtc[r].state # "closed"
  <2>1. u = x
    BY <1>8, <1>12 DEF x
  <2>2. /\ v.bot = t.bot /\ v.rtc[r].pc = "none" /\ v.rtc[r].conn = old.conn /\ v.rtc[r].settled = old.settled
        /\ v.map = t.map /\ v.run = t.run /\ v.conn = t.conn /\ v.rtcOf = t.rtcOf
        /\ v.probing = t.probing \ {r} /\ v.retry = t.retry /\ \A q \in Rtcs \ {r} : v.rtc[q] = t.rtc[q]
    BY <1>2, <1>5, <1>6, <1>8 DEF RtcOnly
  <2>3. /\ AsReady(x, t) \/ (x.bot.known /\ Down(x))
        /\ t.run # None => SameRetry(x, t)
        /\ x \in Tabs /\ x.rtc = v.rtc /\ x.map = v.map /\ x.run = v.run /\ x.conn = v.conn
        /\ x.bot.known = v.bot.known /\ x.bot.online = v.bot.online /\ x.probing = v.probing
    BY <1>10, <2>2 DEF Kin, Same, AsReady, SameRetry
  <2>. QED BY <1>10, <2>1, <2>2, <2>3 DEF old, u
<1>. QED BY <1>11, <1>12

\* closeRtcForBot: a connection that was not closed yet takes the channel along.
LEMMA CloseCurrentTells ==
  ASSUME NEW t \in Tabs
  PROVE  LET u == CloseCurrent(t) IN
         /\ u \in Tabs /\ u.map = None /\ u.run = t.run /\ u.conn = t.conn /\ u.bot.known = t.bot.known
         /\ u.bot.online = t.bot.online /\ u.rtcOf = t.rtcOf
         /\ Probed(t) => u.probing = {}
         /\ \A r \in Rtcs : u.rtc[r].conn = t.rtc[r].conn /\ u.rtc[r].settled = t.rtc[r].settled
         /\ Pcs(t) => Pcs(u)
         /\ t.map # None /\ t.rtc[t.map].state # "closed" => Down(u)
         /\ AsReady(u, t) \/ (u.bot.known /\ Down(u))
         /\ t.run # None => SameRetry(u, t)
<1>1. CASE t.map = None
  <2>1. CloseCurrent(t) = t
    BY <1>1 DEF CloseCurrent
  <2>2. Probed(t) => t.probing = {}
    BY <1>1, RtcAssumption DEF Probed, Tabs
  <2>3. AsReady(t, t) /\ SameRetry(t, t)
    BY DEF AsReady, SameRetry
  <2>. QED BY <1>1, <2>1, <2>2, <2>3
<1>2. CASE t.map # None
  <2> DEFINE m == t.map
             u == Close(t, m)
             v == [u EXCEPT !.map = None]
  <2>1. m \in Rtcs /\ CloseCurrent(t) = v
    BY <1>2 DEF Tabs, CloseCurrent
  <2> HIDE DEF m
  <2>2. /\ u \in Tabs /\ u.map = t.map /\ u.run = t.run /\ u.conn = t.conn /\ u.bot.known = t.bot.known
        /\ u.bot.online = t.bot.online /\ u.rtcOf = t.rtcOf /\ u.probing = t.probing \ {m}
        /\ \A q \in Rtcs \ {m} : u.rtc[q] = t.rtc[q]
        /\ u.rtc[m].pc = "none" /\ u.rtc[m].conn = t.rtc[m].conn /\ u.rtc[m].settled = t.rtc[m].settled
        /\ t.rtc[m].state # "closed" => Down(u)
        /\ AsReady(u, t) \/ (u.bot.known /\ Down(u))
        /\ t.run # None => SameRetry(u, t)
    BY <2>1, CloseTells
  <2> HIDE DEF u
  <2>3. /\ v \in Tabs /\ v.map = None /\ v.run = u.run /\ v.conn = u.conn /\ v.bot = u.bot
        /\ v.rtcOf = u.rtcOf /\ v.probing = u.probing /\ v.rtc = u.rtc /\ v.retry = u.retry
    BY <2>2 DEF Tabs
  <2> HIDE DEF v
  <2>4. Probed(t) => v.probing = {}
    BY <2>2, <2>3 DEF Probed, m
  <2>5. \A r \in Rtcs : v.rtc[r].conn = t.rtc[r].conn /\ v.rtc[r].settled = t.rtc[r].settled
    BY <2>2, <2>3
  <2>6. Pcs(t) => Pcs(v)
    BY <2>2, <2>3 DEF Pcs
  <2>7. /\ t.rtc[m].state # "closed" => Down(v)
        /\ AsReady(v, t) \/ (v.bot.known /\ Down(v))
        /\ t.run # None => SameRetry(v, t)
    BY <2>2, <2>3 DEF Down, AsReady, SameRetry
  <2>. QED BY <2>1, <2>2, <2>3, <2>4, <2>5, <2>6, <2>7 DEF m
<1>. QED BY <1>1, <1>2

-----------------------------------------------------------------------------
(* What the run of __ensureRtc leaves of the bot *)

\* Where a run is when it has no promise to await, and its end when it has one.
Mid(t) == Between(t) /\ Bots(t) /\ Pcs(t) /\ Probed(t) /\ CurrentRtc(t) = None
LinkedBy(t) ==
    LET r == CurrentRtc(t) IN
    r # None => /\ t.map = r /\ t.rtc[r].state = "connected" /\ t.rtc[r].step = "done"
                /\ t.rtc[r].conn = t.conn

\* A bot with a channel has a connection.
Solid(t) == t.bot.ready => CurrentRtc(t) # None

\* A run ends.
LEMMA EndRunTells ==
  ASSUME NEW t, Between(t), Bots(t), Pcs(t), Probed(t), LinkedBy(t), t.bot.phase # "busy"
  PROVE  LET u == EndRun(t) IN
         /\ Well(u) /\ u.rtcOf = t.rtcOf /\ u.conn = t.conn /\ SameRetry(u, t)
         /\ u.bot.known = t.bot.known /\ u.bot.online = t.bot.online
         /\ u.bot.ready = t.bot.ready \/ (u.bot.ready /\ CurrentRtc(t) # None)
<1> DEFINE v == [t EXCEPT !.run = None]
           u == EndRun(t)
<1>1. /\ v \in Tabs /\ v.rtc = t.rtc /\ v.map = t.map /\ v.run = None /\ v.conn = t.conn /\ v.bot = t.bot
      /\ v.rtcOf = t.rtcOf /\ v.retry = t.retry /\ v.probing = t.probing
  BY DEF Between, Tabs
<1>2. t.run.conn \in Conns
  BY DEF Between, Tabs, Run
<1>3. u = AfterEnsure(v, t.run.conn)
  BY DEF EndRun
<1>4. Good(u)
  BY EndRunIsGood
<1> HIDE DEF v, u
<1>5. /\ Kin(u, v) /\ u.rtcOf = v.rtcOf /\ SameRetry(u, v) /\ u.bot.phase = v.bot.phase
      /\ u.bot.ready = v.bot.ready \/ (u.bot.ready /\ t.run.conn = v.conn /\ CurrentRtc(v) # None)
  BY <1>1, <1>2, <1>3, AfterEnsureTells
<1>6. /\ u.rtc = t.rtc /\ u.map = t.map /\ u.run = None /\ u.conn = t.conn /\ u.bot.known = t.bot.known
      /\ u.probing = t.probing /\ u.bot.online = t.bot.online /\ u.rtcOf = t.rtcOf /\ u.bot.phase = t.bot.phase
      /\ SameRetry(u, t)
  BY <1>1, <1>5 DEF Kin, Same, SameRetry
<1>7. CurrentRtc(u) = CurrentRtc(t) /\ CurrentRtc(v) = CurrentRtc(t)
  BY <1>1, <1>6 DEF CurrentRtc
<1>8. u.bot.ready = t.bot.ready \/ (u.bot.ready /\ CurrentRtc(t) # None)
  BY <1>1, <1>5, <1>7
<1>9. CurrentRtc(t) # None => t.conn # None
  BY DEF CurrentRtc
<1>10. Bots(u) /\ Rests(u)
  BY <1>6, <1>8, <1>9 DEF Bots, Rests
<1>11. Pcs(u) /\ Probed(u) /\ Linked(u) /\ Runs(u)
  BY <1>6, <1>7 DEF Pcs, Probed, Linked, LinkedBy, Runs
<1>. QED BY <1>4, <1>6, <1>8, <1>10, <1>11 DEF Well, Sound, u

\* A run makes another connection.
LEMMA InitRtcTells ==
  ASSUME NEW t, Mid(t), t.run.rtc = None
  PROVE  LET u == InitRtc(t) IN
         /\ Well(u) /\ u.run # None /\ (~t.bot.ready => ~u.bot.ready) /\ CurrentRtc(u) = None /\ u.conn = t.conn
<1> DEFINE u == CloseCurrent(t)
           r == NextRtc(u)
           new == [Spent EXCEPT !.state = "idle", !.step = "creds", !.conn = t.run.conn, !.settled = FALSE]
           v == [u EXCEPT !.map = r, !.run.rtc = r, !.rtc[r] = new]
           i == InitRtc(t)
<1>1. t \in Tabs /\ Between(t) /\ t.run \in Run /\ t.run # None
  BY DEF Mid, Between, Tabs
<1>2. /\ u \in Tabs /\ u.map = None /\ u.run = t.run /\ u.conn = t.conn /\ u.bot.known = t.bot.known
      /\ u.rtcOf = t.rtcOf /\ u.probing = {} /\ Pcs(u)
      /\ AsReady(u, t) \/ (u.bot.known /\ Down(u))
  BY <1>1, CloseCurrentTells DEF Mid
<1>3. i = IF r = None THEN u ELSE v
  BY DEF InitRtc
<1>4. new \in Rtc /\ new.pc = "none" /\ new.conn = t.run.conn /\ ~new.settled
  BY <1>1 DEF Spent, Rtc, Run
<1>5. Good(i)
  BY <1>1, InitRtcIsGood
<1> HIDE DEF u
<1>6. r = None \/ r \in Rtcs
  BY NextRtcIsOver
<1> HIDE DEF r, new, i
<1>7. /\ i.conn = t.conn /\ i.bot = u.bot /\ i.rtcOf = t.rtcOf /\ i.run # None /\ i.probing = {} /\ Pcs(i)
      /\ i.run.rtc # None => /\ i.map = i.run.rtc /\ i.rtc[i.run.rtc].conn = i.run.conn
                             /\ ~i.rtc[i.run.rtc].settled
  <2>1. CASE r = None
    BY <1>1, <1>2, <1>3, <2>1
  <2>2. CASE r # None
    <3> DEFINE run == [u.run EXCEPT !.rtc = r]
    <3>1. run \in Run /\ run.rtc = r /\ run # None /\ run.conn = t.run.conn
      BY <1>1, <1>2, <1>6, <2>2, NoneAssumption DEF Run
    <3>2. v = [u EXCEPT !.map = r, !.run = run, !.rtc = [u.rtc EXCEPT ![r] = new]]
      BY <1>2 DEF Tabs
    <3> HIDE DEF run
    <3>3. /\ v.map = r /\ v.run = run /\ v.rtc = [u.rtc EXCEPT ![r] = new]
          /\ v.conn = u.conn /\ v.bot = u.bot /\ v.rtcOf = u.rtcOf /\ v.probing = u.probing
      BY <1>2, <1>4, <1>6, <2>2, <3>1, <3>2 DEF Tabs
    <3> HIDE DEF v
    <3>4. v.rtc[r] = new /\ \A q \in Rtcs \ {r} : v.rtc[q] = u.rtc[q]
      BY <1>2, <1>4, <1>6, <2>2, <3>3 DEF Tabs
    <3>5. Pcs(v)
      BY <1>2, <1>4, <3>4 DEF Pcs
    <3>. QED BY <1>2, <1>3, <1>4, <2>2, <3>1, <3>3, <3>4, <3>5
  <2>. QED BY <2>1, <2>2
<1>8. CurrentRtc(i) = None
  BY <1>7 DEF Mid, CurrentRtc
<1>9. Bots(i) /\ (~t.bot.ready => ~i.bot.ready)
  BY <1>2, <1>7 DEF Mid, Bots, AsReady, Down
<1>10. Rests(i) /\ Probed(i) /\ Linked(i) /\ Runs(i)
  BY <1>7, <1>8 DEF Rests, Probed, Linked, Runs
<1>. QED BY <1>5, <1>7, <1>8, <1>9, <1>10 DEF Well, Sound, i

\* The head of the loop.
LEMMA BuildTells ==
  ASSUME NEW t, Mid(t), t.run.rtc = None
  PROVE  LET u == Build(t) IN
         /\ Well(u) /\ (~t.bot.ready => ~u.bot.ready) /\ CurrentRtc(u) = None /\ u.conn = t.conn
         /\ u.run # None \/ ~u.bot.known \/ ~u.bot.online
<1> DEFINE v == IF t.bot.known THEN [t EXCEPT !.bot.phase = "idle"] ELSE t
<1>1. CASE t.bot.known /\ t.bot.online
  BY <1>1, InitRtcTells DEF Build
<1>2. CASE ~(t.bot.known /\ t.bot.online)
  <2>1. t \in Tabs
    BY DEF Mid, Between
  <2>2. /\ Same(v, t) /\ v.bot.ready = t.bot.ready /\ v.bot.phase = "idle" /\ v.bot.online = t.bot.online
        /\ v.probing = t.probing /\ v.rtcOf = t.rtcOf
    BY <2>1 DEF Tabs, Bot, Phases, Same, Mid, Bots
  <2>3. Build(t) = EndRun(v)
    BY <1>2 DEF Build
  <2> HIDE DEF v
  <2>4. Between(v)
    BY <2>2, SameIsBetween DEF Mid
  <2>5. Bots(v) /\ Pcs(v) /\ Probed(v) /\ CurrentRtc(v) = None
    BY <2>2 DEF Mid, Same, Bots, Pcs, Probed, CurrentRtc
  <2>6. LinkedBy(v)
    BY <2>5 DEF LinkedBy
  <2> DEFINE u == EndRun(v)
  <2>7. /\ Well(u) /\ u.rtcOf = v.rtcOf /\ u.conn = v.conn /\ u.bot.known = v.bot.known
        /\ u.bot.online = v.bot.online /\ u.bot.ready = v.bot.ready
    BY <2>2, <2>4, <2>5, <2>6, EndRunTells
  <2> HIDE DEF u
  <2>8. CurrentRtc(u) = None
    BY <2>5, <2>7 DEF CurrentRtc
  <2>. QED BY <1>2, <2>2, <2>3, <2>7, <2>8 DEF Same, u
<1>. QED BY <1>1, <1>2

\* A run has what it wants.
LEMMA BuiltTells ==
  ASSUME NEW t, Between(t), Bots(t), Pcs(t), Probed(t), LinkedBy(t)
  PROVE  LET u == Built(t) IN
         /\ Well(u) /\ u.conn = t.conn /\ CurrentRtc(u) = CurrentRtc(t) /\ (u.bot.known => u.bot.ready)
<1> DEFINE v == IF t.bot.known THEN [t EXCEPT !.bot.ready = TRUE, !.bot.phase = "ready"] ELSE t
           w == ClearRetry(v)
           u == EndRun(w)
<1>1. t \in Tabs
  BY DEF Between
<1>2. /\ Same(v, t) /\ v.probing = t.probing /\ v.rtcOf = t.rtcOf
      /\ v.bot.known => v.bot.ready /\ v.bot.phase = "ready"
      /\ ~v.bot.known => ~v.bot.ready /\ v.bot.phase = "idle"
  BY <1>1 DEF Tabs, Bot, Phases, Same, Bots
<1>3. Built(t) = u
  BY DEF Built
<1> HIDE DEF v
<1>4. Kin(w, v) /\ w.bot = v.bot /\ w.rtcOf = v.rtcOf
  BY <1>2, ClearRetryTells DEF Same
<1> HIDE DEF w
<1>5. Same(w, t) /\ w.probing = t.probing /\ w.rtcOf = t.rtcOf
  BY <1>2, <1>4 DEF Kin, Same
<1>6. Between(w)
  BY <1>5, SameIsBetween
<1>7. Bots(w) /\ Pcs(w) /\ Probed(w) /\ w.bot.phase # "busy" /\ CurrentRtc(w) = CurrentRtc(t)
  BY <1>2, <1>4, <1>5 DEF Same, Bots, Pcs, Probed, CurrentRtc
<1>8. LinkedBy(w)
  BY <1>5, <1>7 DEF Same, LinkedBy
<1>9. /\ Well(u) /\ u.rtcOf = w.rtcOf /\ u.conn = w.conn /\ u.bot.known = w.bot.known
      /\ w.bot.ready => u.bot.ready
  BY <1>6, <1>7, <1>8, EndRunTells
<1> HIDE DEF u
<1>10. CurrentRtc(u) = CurrentRtc(t) /\ u.conn = t.conn /\ (u.bot.known => u.bot.ready)
  BY <1>2, <1>4, <1>5, <1>7, <1>9 DEF CurrentRtc, Same
<1>. QED BY <1>3, <1>9, <1>10

\* What all ways of a run that has got nothing come to.
Settled(u, t) ==
    /\ Well(u) /\ u.conn = t.conn /\ CurrentRtc(u) = None
    /\ ~t.bot.ready => ~u.bot.ready
    /\ Cared(u, t)

\* A run tries again, or ends.
LEMMA NotBuiltTells == ASSUME NEW t, Mid(t) PROVE Settled(NotBuilt(t), t)
<1> DEFINE v == IF t.bot.known THEN [t EXCEPT !.bot.phase = "failed"] ELSE t
           w == ScheduleRetry(v)
           u == EndRun(w)
           x == [t EXCEPT !.run.tries = @ + 1, !.run.rtc = None]
<1>1. t \in Tabs /\ Between(t)
  BY DEF Mid, Between
<1>2. NotBuilt(t) = IF t.run.tries + 1 < MaxBuilds THEN Build(x) ELSE u
  BY DEF NotBuilt
<1>3. Settled(u, t)
  <2>1. /\ Same(v, t) /\ v.probing = t.probing /\ v.rtcOf = t.rtcOf /\ v.bot.ready = t.bot.ready
        /\ v.bot.online = t.bot.online /\ v.retry = t.retry
        /\ v.bot.known => v.bot.phase = "failed"
        /\ ~v.bot.known => ~v.bot.ready /\ v.bot.phase = "idle"
    BY <1>1 DEF Tabs, Bot, Phases, Same, Mid, Bots
  <2> HIDE DEF v
  <2>2. /\ Kin(w, v) /\ w.bot = v.bot /\ w.rtcOf = v.rtcOf
        /\ v.bot.known /\ v.bot.online => w.retry.armed \/ (v.retry.count = MaxRetries /\ w.retry.count = 0)
    BY <2>1, ScheduleRetryTells DEF Same
  <2> HIDE DEF w
  <2>4. Same(w, t) /\ w.probing = t.probing /\ w.rtcOf = t.rtcOf
    BY <2>1, <2>2 DEF Kin, Same
  <2>5. Between(w)
    BY <1>1, <2>4, SameIsBetween
  <2>6. Bots(w) /\ Pcs(w) /\ Probed(w) /\ w.bot.phase # "busy" /\ CurrentRtc(w) = None
    BY <2>1, <2>2, <2>4 DEF Mid, Same, Bots, Pcs, Probed, CurrentRtc
  <2>7. LinkedBy(w)
    BY <2>6 DEF LinkedBy
  <2>8. /\ Well(u) /\ u.rtcOf = w.rtcOf /\ u.conn = w.conn /\ SameRetry(u, w)
        /\ u.bot.known = w.bot.known /\ u.bot.online = w.bot.online
        /\ u.bot.ready = w.bot.ready
    BY <2>5, <2>6, <2>7, EndRunTells
  <2> HIDE DEF u
  <2>9. CurrentRtc(u) = None /\ u.conn = t.conn /\ u.bot.ready = t.bot.ready
    BY <2>1, <2>2, <2>4, <2>6, <2>8 DEF CurrentRtc, Same
  <2>10. Cared(u, t)
    BY <2>1, <2>2, <2>8 DEF Cared, SameRetry
  <2>. QED BY <2>8, <2>9, <2>10 DEF Settled
<1>4. ASSUME t.run.tries + 1 < MaxBuilds PROVE Settled(Build(x), t)
  <2> DEFINE run == [t.run EXCEPT !.tries = @ + 1, !.rtc = None]
  <2>1. t.run \in Run /\ t.run.tries \in 0..MaxBuilds /\ MaxBuilds \in Nat
    BY <1>1, RtcAssumption DEF Between, Tabs, Run
  <2>2. t.run.tries + 1 \in 0..MaxBuilds
    BY <1>4, <2>1
  <2>3. run \in Run /\ run.rtc = None
    BY <2>1, <2>2 DEF Run
  <2>4. x = [t EXCEPT !.run = run]
    BY <1>1 DEF Tabs
  <2> HIDE DEF run
  <2>5. /\ x \in Tabs /\ x.rtc = t.rtc /\ x.map = t.map /\ x.run # None /\ x.conn = t.conn /\ x.bot = t.bot
        /\ x.run.rtc = None /\ x.rtcOf = t.rtcOf /\ x.probing = t.probing
    BY <1>1, <2>3, <2>4, NoneAssumption DEF Tabs
  <2> HIDE DEF x
  <2>6. Mid(x)
    BY <1>1, <2>5 DEF Mid, Between, Owned, AllSettled, HasConn, Bots, Pcs, Probed, CurrentRtc
  <2> DEFINE b == Build(x)
  <2>7. /\ Well(b) /\ (~x.bot.ready => ~b.bot.ready) /\ CurrentRtc(b) = None /\ b.conn = x.conn
        /\ b.run # None \/ ~b.bot.known \/ ~b.bot.online
    BY <2>5, <2>6, BuildTells
  <2> HIDE DEF b
  <2>8. Settled(b, t)
    BY <2>5, <2>7 DEF Settled, Cared
  <2>. QED BY <2>8 DEF b
<1> HIDE DEF u, x
<1>. QED BY <1>2, <1>3, <1>4

-----------------------------------------------------------------------------
(* What the end and the start of a run leave of it *)

\* The promise is settled.
LEMMA SettleTells ==
  ASSUME NEW t, Well(t), NEW r \in Rtcs, ~t.rtc[r].settled
  PROVE  LET u == Settle(t, r) IN
         /\ Mid(u) /\ u.conn = t.conn /\ u.bot = t.bot /\ u.retry = t.retry /\ u.rtcOf = t.rtcOf
         /\ u.map = t.map /\ u.run = t.run /\ t.run # None /\ t.run.rtc = r
         /\ u.rtc[r].state = t.rtc[r].state /\ u.rtc[r].conn = t.rtc[r].conn
<1> DEFINE old == t.rtc[r]
           new == [old EXCEPT !.settled = TRUE]
           u == [t EXCEPT !.rtc[r] = new]
<1>1. t \in Tabs /\ old \in Rtc /\ Good(t)
  BY DEF Well, Sound, Good, Tabs
<1>2. Settle(t, r) = u /\ Between(Settle(t, r))
  BY <1>1, Settles DEF Settle
<1> HIDE DEF old
<1>3. /\ new \in Rtc /\ new.pc = old.pc /\ new.step = old.step /\ new.state = old.state /\ new.conn = old.conn
  BY <1>1 DEF Rtc
<1> HIDE DEF new
<1>4. RtcOnly(u, t, r) /\ u.rtc[r] = new
  BY <1>1, <1>3, RtcOnlyChanges
<1> HIDE DEF u
<1>5. t.run # None /\ t.run.rtc = r
  BY <1>1 DEF Good, Awaited
<1>6. CurrentRtc(t) = None
  BY <1>5 DEF Well, Sound, Linked
<1>7. CurrentRtc(u) = None
  BY <1>4, <1>6 DEF RtcOnly, CurrentRtc
<1>8. Pcs(u)
  BY <1>3, <1>4 DEF RtcOnly, Pcs, Well, Sound, old
<1>9. Bots(u) /\ Probed(u)
  BY <1>4 DEF RtcOnly, Bots, Probed, Well, Sound
<1>. QED BY <1>2, <1>3, <1>4, <1>5, <1>7, <1>8, <1>9 DEF Mid, RtcOnly, old

\* The promise is refused.
LEMMA RefusedTells ==
  ASSUME NEW t, Well(t), NEW r \in Rtcs
  PROVE  Refused(t, r) = t \/ (t.run # None /\ Settled(Refused(t, r), t))
<1>1. CASE t.rtc[r].settled
  BY <1>1 DEF Refused
<1>2. CASE ~t.rtc[r].settled
  <2> DEFINE v == Settle(t, r)
  <2>1. Mid(v) /\ v.conn = t.conn /\ v.bot = t.bot /\ v.retry = t.retry /\ t.run # None
    BY <1>2, SettleTells
  <2>2. Refused(t, r) = NotBuilt(v)
    BY <1>2 DEF Refused
  <2> HIDE DEF v
  <2>3. Settled(NotBuilt(v), v)
    BY <2>1, NotBuiltTells
  <2>4. Settled(NotBuilt(v), t)
    BY <2>1, <2>3 DEF Settled, Cared
  <2>. QED BY <2>1, <2>2, <2>4
<1>. QED BY <1>1, <1>2

\* initRtc gives up.
LEMMA CaughtTells ==
  ASSUME NEW t, Well(t), NEW r \in Rtcs
  PROVE  Caught(t, r) = t \/ (t.run # None /\ Settled(Caught(t, r), t))
<1>1. CASE t.rtc[r].settled
  BY <1>1 DEF Caught
<1>2. CASE ~t.rtc[r].settled
  <2> DEFINE u == Settle(t, r)
             v == Close(u, r)
             w == [v EXCEPT !.map = None]
             c == t.rtc[r].conn
             x == ClearRtc(w, c)
  <2>1. Caught(t, r) = NotBuilt(x)
    BY <1>2 DEF Caught
  <2>2. Between(x) /\ c \in Conns
    BY <1>2, CaughtBetween DEF Well, Sound, Good, Tabs, Rtc
  <2>3. /\ Mid(u) /\ u.conn = t.conn /\ u.bot = t.bot /\ u.retry = t.retry /\ u.rtcOf = t.rtcOf
        /\ u.map = t.map /\ u.run = t.run /\ t.run # None /\ t.run.rtc = r
    BY <1>2, SettleTells
  <2>4. u \in Tabs
    BY <2>3 DEF Mid, Between
  <2> HIDE DEF u, c
  <2>5. /\ v \in Tabs /\ v.map = u.map /\ v.run = u.run /\ v.conn = u.conn /\ v.bot.known = u.bot.known
        /\ v.bot.online = u.bot.online /\ v.rtcOf = u.rtcOf /\ v.probing = u.probing \ {r}
        /\ \A q \in Rtcs \ {r} : v.rtc[q] = u.rtc[q]
        /\ v.rtc[r].pc = "none"
        /\ AsReady(v, u) \/ (v.bot.known /\ Down(v))
        /\ u.run # None => SameRetry(v, u)
    BY <2>4, CloseTells
  <2> HIDE DEF v
  <2>6. /\ w \in Tabs /\ w.run = v.run /\ w.conn = v.conn /\ w.bot = v.bot /\ w.map = None
        /\ w.rtcOf = v.rtcOf /\ w.probing = v.probing /\ w.rtc = v.rtc /\ w.retry = v.retry
    BY <2>5 DEF Tabs
  <2> HIDE DEF w
  <2>7. Kin(x, w) /\ x.rtcOf = [w.rtcOf EXCEPT ![c] = None] /\ SameRetry(x, w) /\ AsReady(x, w)
    BY <2>2, <2>6, ClearRtcTells
  <2> HIDE DEF x
  <2>8. /\ x.conn = t.conn /\ x.bot.known = t.bot.known /\ x.bot.online = t.bot.online /\ x.retry = t.retry
        /\ x.map = None /\ x.rtc = v.rtc /\ x.probing = u.probing \ {r}
        /\ AsReady(x, t) \/ (x.bot.known /\ Down(x))
    BY <2>3, <2>5, <2>6, <2>7 DEF Kin, Same, SameRetry, AsReady, Down
  <2>9. CurrentRtc(x) = None
    <3>1. t.conn # None => t.conn \in Conns /\ t.rtcOf[t.conn] = None
      BY <2>3 DEF Mid, CurrentRtc, Well, Sound, Good, Tabs
    <3>. QED BY <2>3, <2>5, <2>6, <2>7, <2>8, <3>1 DEF CurrentRtc, Tabs
  <2>10. Pcs(x)
    BY <2>3, <2>5, <2>8 DEF Mid, Pcs
  <2>11. Probed(x)
    <3>1. \A q \in u.probing : q = u.map
      BY <2>3 DEF Mid, Probed
    <3>2. u.map \in {None, r}
      BY <2>3 DEF Well, Sound, Good, Awaited
    <3>3. None \notin u.probing
      BY <2>4, RtcAssumption DEF Tabs
    <3>. QED BY <2>8, <3>1, <3>2, <3>3 DEF Probed
  <2>12. Bots(x)
    BY <2>3, <2>8 DEF Mid, Bots, AsReady, Down
  <2>13. Mid(x)
    BY <2>2, <2>9, <2>10, <2>11, <2>12 DEF Mid
  <2>14. Settled(NotBuilt(x), x)
    BY <2>13, NotBuiltTells
  <2>15. ~t.bot.ready => ~x.bot.ready
    BY <2>8 DEF AsReady, Down
  <2>16. Settled(NotBuilt(x), t)
    BY <2>8, <2>14, <2>15 DEF Settled, Cared
  <2>. QED BY <2>1, <2>3, <2>16
<1>. QED BY <1>1, <1>2

\* A run begins: what was there has told that it is lost.
LEMMA BegunTells ==
  ASSUME NEW t, Sound(t), t.run = None, t.conn # None
  PROVE  LET u == Begun(t) IN
         Mid(u) /\ u.run.rtc = None /\ u.conn = t.conn /\ (Solid(t) => ~u.bot.ready)
<1> DEFINE c == t.conn
           run == [conn |-> c, tries |-> 0, rtc |-> None]
           v == [t EXCEPT !.bot.phase = IF t.bot.known THEN "busy" ELSE @, !.run = run]
           w == CloseCurrent(v)
           u == ClearRtc(w, c)
<1>1. Begun(t) = u /\ Between(Begun(t))
  BY RunBegins DEF Begun, Sound
<1>2. c \in Conns /\ t \in Tabs /\ t.bot.known /\ run.rtc = None
  BY DEF Sound, Good, Tabs, Bots
<1>3. v \in Tabs
  <2>1. run \in Run
    <3>1. 0 \in 0..MaxBuilds
      BY RtcAssumption
    <3>. QED BY <1>2, <3>1 DEF Run
  <2>2. v = [t EXCEPT !.bot.phase = "busy", !.run = run]
    BY <1>2 DEF Tabs
  <2> HIDE DEF run, v
  <2>. QED BY <1>2, <2>1, <2>2 DEF Tabs, Bot, Phases
<1>4. /\ v.bot.known /\ v.bot.ready = t.bot.ready /\ v.bot.phase = "busy" /\ v.rtc = t.rtc /\ v.map = t.map
      /\ v.run = run /\ v.conn = c /\ v.rtcOf = t.rtcOf /\ v.probing = t.probing
  BY <1>2 DEF Tabs, Bot
<1>5. CurrentRtc(t) # None => v.map # None /\ v.rtc[v.map].state # "closed"
  BY <1>4 DEF Sound, Linked
<1>6. Pcs(v) /\ Probed(v)
  BY <1>4 DEF Sound, Pcs, Probed
<1> HIDE DEF run, v, c
<1>7. /\ w \in Tabs /\ w.map = None /\ w.run = v.run /\ w.conn = v.conn /\ w.bot.known = v.bot.known
      /\ w.rtcOf = v.rtcOf /\ w.probing = {} /\ Pcs(w)
      /\ v.map # None /\ v.rtc[v.map].state # "closed" => Down(w)
      /\ AsReady(w, v) \/ (w.bot.known /\ Down(w))
  BY <1>3, <1>6, CloseCurrentTells
<1> HIDE DEF w
<1>8. Kin(u, w) /\ u.rtcOf = [w.rtcOf EXCEPT ![c] = None] /\ AsReady(u, w)
  BY <1>2, <1>7, ClearRtcTells
<1> HIDE DEF u
<1>9. /\ u.conn = c /\ u.bot.known /\ u.rtc = w.rtc /\ u.probing = {} /\ u.run = run
  BY <1>4, <1>7, <1>8 DEF Kin, Same
<1>10. CurrentRtc(u) = None
  BY <1>2, <1>7, <1>8, <1>9 DEF CurrentRtc, Tabs
<1>11. Pcs(u) /\ Probed(u)
  BY <1>7, <1>9 DEF Pcs, Probed
<1>12. c # None
  BY DEF c
<1>13. Bots(u)
  BY <1>4, <1>7, <1>8, <1>9, <1>12 DEF Bots, AsReady, Down
<1>14. ASSUME Solid(t) PROVE ~u.bot.ready
  <2>1. CASE CurrentRtc(t) # None
    BY <1>4, <1>5, <1>7, <1>8, <1>9, <2>1 DEF Down, AsReady
  <2>2. CASE CurrentRtc(t) = None
    BY <1>4, <1>7, <1>8, <1>14, <2>2 DEF Down, AsReady, Solid
  <2>. QED BY <2>1, <2>2
<1>. QED BY <1>1, <1>2, <1>9, <1>10, <1>11, <1>13, <1>14 DEF Mid, c

\* A live connection is left alone.
Spared(u, t) == Live(t) => u.rtc = t.rtc /\ u.rtcOf = t.rtcOf /\ u.bot.known /\ u.map = t.map

\* __ensureRtc up to its first await.
LEMMA EnsureRtcTells ==
  ASSUME NEW t, Sound(t), t.bot.known, NEW force \in BOOLEAN, force \/ Rests(t)
  PROVE  LET u == EnsureRtc(t, force) IN
         /\ Well(u) /\ u.conn = t.conn /\ (Solid(t) => Solid(u))
         /\ t.run # None => u = t
         /\ Abandoned(u) => ~force /\ Mute(t)
         /\ ~force => Spared(u, t)
<1> DEFINE u == EnsureRtc(t, force)
           r == CurrentRtc(t)
           v == [t EXCEPT !.bot.ready = TRUE, !.bot.phase = "ready"]
<1>1. t \in Tabs /\ t.conn # None
  BY DEF Sound, Good, Bots
<1>2. /\ t.run # None => u = t
      /\ t.run = None /\ ~force /\ Healthy(t, r) => u = IF IsReady(t, r) THEN v ELSE t
      /\ t.run = None /\ ~(~force /\ Healthy(t, r)) => u = Build(Begun(t))
  BY <1>1 DEF EnsureRtc, InProgress, Begun
<1>3. Spared(t, t)
  BY DEF Spared, Live
<1>4. CASE t.run # None
  <2>1. Well(t)
    BY <1>4 DEF Well, Rests
  <2>2. ~Abandoned(t)
    BY <1>4 DEF Abandoned
  <2>. QED BY <1>2, <1>3, <1>4, <2>1, <2>2
<1>5. CASE t.run = None /\ ~force /\ Healthy(t, r) /\ ~IsReady(t, r)
  <2>1. u = t /\ Well(t) /\ Mute(t)
    BY <1>2, <1>5 DEF Well, Mute
  <2>. QED BY <1>3, <1>5, <2>1
<1>6. CASE t.run = None /\ ~force /\ Healthy(t, r) /\ IsReady(t, r)
  <2>1. /\ Same(v, t) /\ v.rtcOf = t.rtcOf /\ v.probing = t.probing /\ v.bot.ready /\ v.bot.phase = "ready"
    BY <1>1 DEF Tabs, Bot, Phases, Same
  <2>2. u = v
    BY <1>2, <1>6
  <2> HIDE DEF v, u
  <2>3. Good(v)
    BY <2>1, SameIsGood DEF Sound
  <2>4. CurrentRtc(v) = r /\ r # None
    BY <1>6, <2>1 DEF CurrentRtc, Same, IsReady
  <2>5. Bots(v) /\ Rests(v) /\ Pcs(v) /\ Probed(v) /\ Runs(v)
    BY <2>1 DEF Sound, Same, Bots, Rests, Pcs, Probed, Runs
  <2>6. Linked(v)
    BY <2>1, <2>4 DEF Sound, Same, Linked
  <2>7. Well(v)
    BY <2>3, <2>5, <2>6 DEF Well, Sound
  <2>8. Solid(v) /\ Spared(v, t) /\ ~Abandoned(v)
    BY <2>1, <2>4 DEF Solid, Spared, Abandoned, Same
  <2>9. v.conn = t.conn
    BY <2>1 DEF Same
  <2>. QED BY <1>6, <2>2, <2>7, <2>8, <2>9 DEF u
<1>7. CASE t.run = None /\ ~(~force /\ Healthy(t, r))
  <2> DEFINE b == Begun(t)
             w == Build(b)
  <2>1. u = w
    BY <1>2, <1>7
  <2>2. Mid(b) /\ b.run.rtc = None /\ b.conn = t.conn /\ (Solid(t) => ~b.bot.ready)
    BY <1>1, <1>7, BegunTells
  <2> HIDE DEF b
  <2>3. /\ Well(w) /\ (~b.bot.ready => ~w.bot.ready) /\ CurrentRtc(w) = None /\ w.conn = b.conn
        /\ w.run # None \/ ~w.bot.known \/ ~w.bot.online
    BY <2>2, BuildTells
  <2> HIDE DEF w, u
  <2>4. (Solid(t) => Solid(w)) /\ ~Abandoned(w)
    BY <2>2, <2>3 DEF Solid, Abandoned
  <2>5. ~force => ~Live(t)
    BY <1>7 DEF Live, Healthy, Sound, Linked, IsReady
  <2>. QED BY <1>7, <2>1, <2>2, <2>3, <2>4, <2>5 DEF Spared, u
<1>. QED BY <1>4, <1>5, <1>6, <1>7

\* Only bot.init, where __fullInit is, or the backoff changes.
Aside(u, t) ==
    /\ Same(u, t) /\ u.rtcOf = t.rtcOf /\ u.probing = t.probing
    /\ u.bot.ready = t.bot.ready /\ u.bot.phase = t.bot.phase
LEMMA AsideTells ==
  ASSUME NEW t, NEW u, Aside(u, t)
  PROVE  /\ Sound(t) => Sound(u)
         /\ Rests(t) => Rests(u)
         /\ CurrentRtc(u) = CurrentRtc(t)
         /\ Solid(u) <=> Solid(t)
         /\ Live(u) <=> Live(t)
         /\ Mute(u) <=> Mute(t)
<1>1. CurrentRtc(u) = CurrentRtc(t)
  BY DEF Aside, Same, CurrentRtc
<1>2. ASSUME Sound(t) PROVE Sound(u)
  <2>1. Good(u)
    BY <1>2, SameIsGood DEF Aside, Sound
  <2>2. Bots(u) /\ Pcs(u) /\ Probed(u) /\ Runs(u)
    BY <1>2 DEF Aside, Same, Sound, Bots, Pcs, Probed, Runs
  <2>3. Linked(u)
    BY <1>1, <1>2 DEF Aside, Same, Sound, Linked
  <2>. QED BY <2>1, <2>2, <2>3 DEF Sound
<1>3. Rests(t) => Rests(u)
  BY DEF Aside, Same, Rests
<1>4. (Solid(u) <=> Solid(t)) /\ (Live(u) <=> Live(t)) /\ (Mute(u) <=> Mute(t))
  BY <1>1 DEF Aside, Same, Solid, Live, Mute, IsReady, Healthy
<1>. QED BY <1>1, <1>2, <1>3, <1>4

\* __fullInit goes on, or is given up.
LEMMA AfterEnsureIsWell ==
  ASSUME NEW t, Well(t), NEW c \in Conns
  PROVE  LET u == AfterEnsure(t, c) IN
         /\ Well(u) /\ u.conn = t.conn /\ (Solid(t) => Solid(u)) /\ (Abandoned(u) => Abandoned(t))
         /\ Spared(u, t) /\ u.run = t.run
         /\ u.rtc = t.rtc /\ u.rtcOf = t.rtcOf /\ u.bot.known = t.bot.known /\ u.map = t.map
<1> DEFINE u == AfterEnsure(t, c)
<1>1. t \in Tabs /\ Good(t)
  BY DEF Well, Sound, Good
<1>2. /\ Kin(u, t) /\ u.rtcOf = t.rtcOf /\ SameRetry(u, t) /\ u.bot.phase = t.bot.phase
      /\ u.bot.ready = t.bot.ready \/ (u.bot.ready /\ c = t.conn /\ CurrentRtc(t) # None)
  BY <1>1, AfterEnsureTells
<1> HIDE DEF u
<1>3. Good(u)
  BY <1>1, <1>2, SameIsGood DEF Kin
<1>4. CurrentRtc(u) = CurrentRtc(t)
  BY <1>2 DEF Kin, Same, CurrentRtc
<1>5. Bots(u) /\ Rests(u)
  BY <1>2 DEF Kin, Same, Well, Sound, Bots, Rests, CurrentRtc
<1>6. Pcs(u) /\ Probed(u) /\ Runs(u)
  BY <1>2 DEF Kin, Same, Well, Sound, Pcs, Probed, Runs
<1>7. Linked(u)
  BY <1>2, <1>4 DEF Kin, Same, Well, Sound, Linked
<1>8. (Solid(t) => Solid(u)) /\ (Abandoned(u) => Abandoned(t)) /\ Spared(u, t)
  BY <1>2, <1>4 DEF Kin, Same, SameRetry, Solid, Abandoned, Spared, Live
<1>. QED BY <1>2, <1>3, <1>5, <1>6, <1>7, <1>8 DEF Well, Sound, Kin, Same, u

\* __fullInit up to its first await.
LEMMA FullInitTells ==
  ASSUME NEW t, Well(t), t.conn # None
  PROVE  LET u == FullInit(t) IN
         /\ Well(u) /\ u.conn = t.conn /\ (Solid(t) => Solid(u))
         /\ Abandoned(u) => Mute(t)
         /\ Spared(u, t)
<1> DEFINE c == t.conn
           x == [t EXCEPT !.bot.init = TRUE]
           w == [x EXCEPT !.init[c] = "rtc"]
           v == EnsureRtc(w, FALSE)
           a == AfterEnsure(v, c)
<1>1. t \in Tabs /\ c \in Conns
  BY DEF Well, Sound, Good, Tabs
<1>2. Aside(x, t)
  BY <1>1 DEF Tabs, Bot, Same, Aside
<1>3. FullInit(t) \in {v, a}
  BY DEF FullInit
<1> HIDE DEF x, c
<1>4. Aside(w, x)
  BY <1>1, <1>2 DEF Tabs, Same, Aside
<1> HIDE DEF w
<1>5. Aside(w, t)
  BY <1>2, <1>4 DEF Aside, Same
<1>6. /\ Sound(w) /\ Rests(w) /\ (Solid(w) <=> Solid(t)) /\ (Live(w) <=> Live(t)) /\ (Mute(w) <=> Mute(t))
  BY <1>5, AsideTells DEF Well
<1>7. w.bot.known /\ w.conn = c /\ w.rtc = t.rtc /\ w.rtcOf = t.rtcOf /\ w.map = t.map
  BY <1>5 DEF Aside, Same, Well, Sound, Bots, c
<1>8. /\ Well(v) /\ v.conn = w.conn /\ (Solid(w) => Solid(v)) /\ (Abandoned(v) => Mute(w)) /\ Spared(v, w)
  BY <1>6, <1>7, EnsureRtcTells
<1> HIDE DEF v
<1>9. Spared(v, t)
  BY <1>6, <1>7, <1>8 DEF Spared
<1>10. /\ Well(a) /\ a.conn = v.conn /\ (Solid(v) => Solid(a)) /\ (Abandoned(a) => Abandoned(v))
       /\ a.rtc = v.rtc /\ a.rtcOf = v.rtcOf /\ a.bot.known = v.bot.known /\ a.map = v.map
  BY <1>1, <1>8, AfterEnsureIsWell
<1> HIDE DEF a
<1>11. Spared(a, t)
  BY <1>9, <1>10 DEF Spared
<1>. QED BY <1>3, <1>6, <1>7, <1>8, <1>9, <1>10, <1>11 DEF c

\* __checkAndRecover decides to connect anew.
LEMMA RecoverTells ==
  ASSUME NEW t, Well(t), t.bot.known
  PROVE  LET u == Recover(t, TRUE) IN
         Well(u) /\ u.conn = t.conn /\ (Solid(t) => Solid(u)) /\ ~Abandoned(u)
<1> DEFINE v == [t EXCEPT !.bot.phase = "busy"]
           w == ClearRetry(v)
           u == EnsureRtc(w, TRUE)
<1>1. t \in Tabs /\ t.conn # None
  BY DEF Well, Sound, Good, Bots
<1>2. /\ Same(v, t) /\ v.rtcOf = t.rtcOf /\ v.probing = t.probing
      /\ v.bot.ready = t.bot.ready /\ v.bot.phase = "busy"
  BY <1>1 DEF Tabs, Bot, Phases, Same
<1>3. Recover(t, TRUE) = u
  BY DEF Recover
<1> HIDE DEF v
<1>4. Kin(w, v) /\ w.bot = v.bot /\ w.rtcOf = v.rtcOf
  BY <1>2, ClearRetryTells DEF Same
<1> HIDE DEF w
<1>5. /\ Same(w, t) /\ w.rtcOf = t.rtcOf /\ w.probing = t.probing /\ w.bot.ready = t.bot.ready
      /\ w.bot.phase = "busy"
  BY <1>2, <1>4 DEF Kin, Same
<1>6. Good(w)
  BY <1>5, SameIsGood DEF Well, Sound
<1>7. Bots(w) /\ Pcs(w) /\ Probed(w) /\ Runs(w)
  BY <1>5 DEF Well, Sound, Same, Bots, Pcs, Probed, Runs
<1>8. CurrentRtc(w) = CurrentRtc(t)
  BY <1>5 DEF Same, CurrentRtc
<1>9. Linked(w) /\ (Solid(t) => Solid(w))
  BY <1>5, <1>8 DEF Well, Sound, Same, Linked, Solid
<1>10. /\ Well(u) /\ u.conn = w.conn /\ (Solid(w) => Solid(u)) /\ ~Abandoned(u)
  BY <1>5, <1>6, <1>7, <1>9, EnsureRtcTells DEF Sound, Same
<1> HIDE DEF u
<1>. QED BY <1>3, <1>5, <1>9, <1>10 DEF Same

-----------------------------------------------------------------------------
(* What a handler leaves of it *)

\* What is over is forgotten, and nothing is told of it.
LEMMA BecomesTells ==
  ASSUME NEW t, Well(t), Becomes(t)
  PROVE  /\ Well(tab') /\ tab'.conn = t.conn /\ tab'.retry = t.retry
         /\ Solid(tab') <=> Solid(t)
         /\ Abandoned(tab') <=> Abandoned(t)
         /\ Live(t) => Live(tab')
<1> DEFINE rtc == [r \in Rtcs |-> IF Over(t, r) THEN Spent ELSE t.rtc[r]]
<1>1. t \in Tabs /\ tab' = [t EXCEPT !.rtc = rtc] /\ Good(tab')
  BY BecomesGood DEF Well, Sound, Good, Becomes, IInv
<1>2. Spent.pc = "none"
  BY DEF Spent
<1>3. \A r \in Rtcs : rtc[r] = t.rtc[r] \/ (rtc[r] = Spent /\ Over(t, r))
  OBVIOUS
<1> HIDE DEF rtc
<1>4. /\ tab'.rtc = rtc /\ tab'.map = t.map /\ tab'.run = t.run /\ tab'.conn = t.conn /\ tab'.bot = t.bot
      /\ tab'.rtcOf = t.rtcOf /\ tab'.retry = t.retry /\ tab'.probing = t.probing
  BY <1>1 DEF Tabs
<1>5. CurrentRtc(tab') = CurrentRtc(t)
  BY <1>4 DEF CurrentRtc
<1>6. CurrentRtc(t) # None => rtc[CurrentRtc(t)] = t.rtc[CurrentRtc(t)]
  <2>1. CurrentRtc(t) # None => CurrentRtc(t) \in Rtcs
    BY <1>1 DEF CurrentRtc, Tabs
  <2>2. CurrentRtc(t) # None => ~Over(t, CurrentRtc(t))
    BY DEF Over, Well, Sound, Linked
  <2>. QED BY <1>3, <2>1, <2>2
<1>7. Pcs(tab')
  BY <1>2, <1>3, <1>4 DEF Well, Sound, Pcs
<1>8. Bots(tab') /\ Rests(tab') /\ Probed(tab')
  BY <1>4 DEF Well, Sound, Bots, Rests, Probed
<1>9. Linked(tab')
  BY <1>4, <1>5, <1>6 DEF Well, Sound, Linked
<1>10. Runs(tab')
  <2> SUFFICES ASSUME t.run # None, t.run.rtc # None
               PROVE  rtc[t.run.rtc] = t.rtc[t.run.rtc]
    BY <1>4 DEF Well, Sound, Runs
  <2>1. t.run.rtc \in Rtcs
    BY <1>1 DEF Tabs, Run
  <2>2. ~Over(t, t.run.rtc)
    BY DEF Over, Well, Sound, Runs
  <2>. QED BY <1>3, <2>1, <2>2
<1>11. (Solid(tab') <=> Solid(t)) /\ (Abandoned(tab') <=> Abandoned(t))
  BY <1>4, <1>5 DEF Solid, Abandoned
<1>12. Live(t) => Live(tab')
  BY <1>4, <1>5, <1>6 DEF Live, IsReady
<1>. QED BY <1>1, <1>4, <1>7, <1>8, <1>9, <1>10, <1>11, <1>12 DEF Well, Sound

\* What every step is to show.
Hollows == ~Hollow(tab) /\ Hollow(tab') => tab.run # None /\ tab.run.conn # tab.conn
Leaves == ~Abandoned(tab) /\ Abandoned(tab') => tab.retry.count = MaxRetries /\ tab'.retry.count = 0
Loses == Live(tab) /\ tab'.conn = tab.conn /\ ~Live(tab')

\* A bot that is hollow has a channel but no connection.
LEMMA HollowIs == ASSUME NEW t PROVE Hollow(t) <=> ~Solid(t)
  BY DEF Hollow, Solid

\* The bot goes with its conn.
LEMMA DisconnectTells ==
  ASSUME NEW t, Good(t), Pcs(t), Probed(t), t.conn # None,
         t.run # None /\ t.run.rtc # None => t.rtc[t.run.rtc].conn = t.run.conn /\ ~t.rtc[t.run.rtc].settled,
         NEW u, u = [Disconnect(t) EXCEPT !.bot = NoBot] \/ u = [ClearRetry(Disconnect(t)) EXCEPT !.bot = NoBot]
  PROVE  Well(u) /\ u.conn = None /\ ~u.bot.known
<1> DEFINE c == t.conn
           r == t.rtcOf[c]
           v == IF r = None THEN t ELSE Close(t, r)
           w == [v EXCEPT !.rtcOf[c] = None, !.conn = None]
           x == RejectPending(w, c)
<1>1. Good(u)
  BY DisconnectIsGood
<1>2. c \in Conns /\ r \in Rtcs \cup {None} /\ t \in Tabs
  BY DEF Good, Tabs
<1>3. Disconnect(t) = x
  BY DEF Disconnect
<1> HIDE DEF r, c
<1>4. /\ v \in Tabs /\ v.map = t.map /\ v.run = t.run /\ Pcs(v) /\ v.probing \subseteq t.probing
      /\ \A q \in Rtcs : v.rtc[q].conn = t.rtc[q].conn /\ v.rtc[q].settled = t.rtc[q].settled
  <2>1. CASE r = None
    BY <1>2, <2>1
  <2>2. CASE r # None
    <3> DEFINE k == Close(t, r)
    <3>1. /\ k \in Tabs /\ k.map = t.map /\ k.run = t.run /\ k.probing = t.probing \ {r}
          /\ \A q \in Rtcs \ {r} : k.rtc[q] = t.rtc[q]
          /\ k.rtc[r].pc = "none" /\ k.rtc[r].conn = t.rtc[r].conn /\ k.rtc[r].settled = t.rtc[r].settled
      BY <1>2, <2>2, CloseTells
    <3>2. v = k
      BY <2>2
    <3> HIDE DEF k, v
    <3>3. Pcs(k)
      BY <3>1 DEF Pcs
    <3>. QED BY <3>1, <3>2, <3>3
  <2>. QED BY <2>1, <2>2
<1> HIDE DEF v
<1>5. w \in Tabs /\ w.rtc = v.rtc /\ w.map = v.map /\ w.run = v.run /\ w.conn = None /\ w.probing = v.probing
  BY <1>2, <1>4 DEF Tabs
<1> HIDE DEF w
<1>6. Kin(x, w)
  BY <1>2, <1>5, RejectPendingTells
<1> HIDE DEF x
<1>7. Kin(ClearRetry(x), x)
  BY <1>6, ClearRetryTells DEF Kin, Same
<1>8. NoBot.known = FALSE /\ NoBot.ready = FALSE /\ NoBot.phase = "idle"
  BY DEF NoBot
<1> HIDE DEF NoBot
<1>9. PICK y \in Tabs : u = [y EXCEPT !.bot = NoBot] /\ Kin(y, w)
  BY <1>3, <1>6, <1>7 DEF Kin, Same
<1>10. /\ u.rtc = w.rtc /\ u.map = w.map /\ u.run = w.run /\ u.conn = None /\ u.probing = w.probing
       /\ u.bot = NoBot
  BY <1>5, <1>9 DEF Kin, Same, Tabs
<1>11. CurrentRtc(u) = None
  BY <1>10 DEF CurrentRtc
<1>12. Bots(u) /\ Rests(u) /\ Linked(u)
  BY <1>8, <1>10, <1>11 DEF Bots, Rests, Linked
<1>13. Pcs(u) /\ Probed(u)
  BY <1>4, <1>5, <1>10 DEF Pcs, Probed
<1>14. Runs(u)
  <2>1. t.run # None => t.run.conn # None /\ t.run.rtc \in Rtcs \cup {None}
    BY <1>2, RtcAssumption DEF Tabs, Run
  <2>. QED BY <1>4, <1>5, <1>10, <2>1 DEF Runs
<1>. QED BY <1>1, <1>8, <1>10, <1>12, <1>13, <1>14 DEF Well, Sound

-----------------------------------------------------------------------------
(* One connection gets on *)

\* Connection r gets on, and nothing else changes.
Advances(v, t, r) ==
    /\ RtcOnly(v, t, r)
    /\ v.rtc[r].conn = t.rtc[r].conn /\ v.rtc[r].settled = t.rtc[r].settled
    /\ t.rtc[r].late => v.rtc[r].late
    /\ v.rtc[r].pc # "none" \/ v.rtc[r].step \in {"creds", "signal"}
         => t.rtc[r].pc # "none" \/ t.rtc[r].step \in {"creds", "signal"}
    /\ v.rtc[r].pc = "connected" => v.rtc[r].state = "connected" /\ v.rtc[r].step = "done"

\* The connection in use stays connected.
StaysUp(v, t, r) == CurrentRtc(t) = r => v.rtc[r].state = "connected" /\ v.rtc[r].step = "done"

\* What a connection that gets on leaves alone.
LEMMA AdvanceTells ==
  ASSUME NEW t, Well(t), NEW r \in Rtcs, NEW v, Advances(v, t, r)
  PROVE  /\ Good(v) /\ Bots(v) /\ Rests(v) /\ Pcs(v) /\ Probed(v) /\ Runs(v) /\ v.conn = t.conn
         /\ v.retry = t.retry /\ v.run = t.run
         /\ CurrentRtc(v) = CurrentRtc(t)
         /\ CurrentRtc(t) # r => Linked(v)
         /\ Solid(v) <=> Solid(t)
         /\ Abandoned(v) <=> Abandoned(t)
         /\ CurrentRtc(t) # r => (Live(v) <=> Live(t))
         /\ StaysUp(v, t, r) => Well(v)
<1>1. RtcOnly(v, t, r) /\ Good(t) /\ v \in Tabs
  BY DEF Advances, Well, Sound, RtcOnly
<1>2. Good(v)
  <2>1. Owned(v)
    BY <1>1 DEF Good, Owned, Advances, RtcOnly
  <2>2. Awaited(v)
    BY <1>1 DEF Good, Awaited, Advances, RtcOnly
  <2>3. HasConn(v)
    BY <1>1 DEF Good, HasConn, RtcOnly
  <2>. QED BY <1>1, <2>1, <2>2, <2>3 DEF Good
<1>3. CurrentRtc(v) = CurrentRtc(t)
  BY <1>1 DEF RtcOnly, CurrentRtc
<1>4. Bots(v) /\ Rests(v) /\ Probed(v)
  BY <1>1 DEF RtcOnly, Well, Sound, Bots, Rests, Probed
<1>5. Pcs(v)
  BY <1>1 DEF RtcOnly, Well, Sound, Pcs, Advances
<1>6. Runs(v)
  <2>1. t.run # None => t.run.rtc \in Rtcs \cup {None}
    BY <1>1 DEF Good, Tabs, Run
  <2>. QED BY <1>1, <2>1 DEF RtcOnly, Well, Sound, Runs, Advances
<1>7. CurrentRtc(t) # None => CurrentRtc(t) \in Rtcs
  BY <1>1 DEF CurrentRtc, Good, Tabs
<1>8. CurrentRtc(t) # r => Linked(v)
  BY <1>1, <1>3, <1>7 DEF RtcOnly, Well, Sound, Linked
<1>9. (Solid(v) <=> Solid(t)) /\ (Abandoned(v) <=> Abandoned(t))
  BY <1>1, <1>3 DEF RtcOnly, Solid, Abandoned
<1>10. CurrentRtc(t) # r => (Live(v) <=> Live(t))
  BY <1>1, <1>3, <1>7 DEF RtcOnly, Live, IsReady
<1>11. StaysUp(v, t, r) => Linked(v)
  BY <1>1, <1>3, <1>7 DEF RtcOnly, Well, Sound, Linked, Advances, StaysUp
<1>. QED BY <1>1, <1>2, <1>3, <1>4, <1>5, <1>6, <1>8, <1>9, <1>10, <1>11 DEF Well, Sound, RtcOnly

\* The connection is connecting or connected, and tells so.
LEMMA ToldTells ==
  ASSUME NEW t, Well(t), NEW r \in Rtcs, NEW v, Advances(v, t, r), StaysUp(v, t, r),
         v.rtc[r].state \notin {"failed", "closed"}
  PROVE  LET u == OnStateChange(v, r) IN
         /\ Well(u) /\ u.conn = t.conn /\ (Solid(t) => Solid(u)) /\ (Abandoned(u) => Abandoned(t))
         /\ Live(v) => Live(u)
<1> DEFINE u == OnStateChange(v, r)
<1>1. /\ Well(v) /\ v.conn = t.conn /\ CurrentRtc(v) = CurrentRtc(t) /\ (Solid(v) <=> Solid(t))
      /\ Abandoned(v) <=> Abandoned(t)
  BY AdvanceTells
<1>2. v \in Tabs
  BY <1>1 DEF Well, Sound, Good
<1>3. /\ Kin(u, v) /\ u.rtcOf = v.rtcOf /\ SameRetry(u, v)
      /\ AsReady(u, v) \/ (u.bot.known /\ CurrentRtc(v) # None /\ u.bot.ready /\ u.bot.phase = "ready")
  BY <1>2, OnStateChangeTells
<1> HIDE DEF u
<1>4. CurrentRtc(u) = CurrentRtc(v)
  BY <1>3 DEF Kin, Same, CurrentRtc
<1>5. Good(u)
  BY <1>1, <1>3, SameIsGood DEF Kin, Well, Sound
<1>6. Bots(u) /\ Rests(u)
  BY <1>1, <1>3 DEF Kin, Same, AsReady, Well, Sound, Bots, Rests
<1>7. Pcs(u) /\ Probed(u) /\ Runs(u)
  BY <1>1, <1>3 DEF Kin, Same, Well, Sound, Pcs, Probed, Runs
<1>8. Linked(u)
  BY <1>1, <1>3, <1>4 DEF Kin, Same, Well, Sound, Linked
<1>9. (Solid(v) => Solid(u)) /\ (Abandoned(u) => Abandoned(v)) /\ (Live(v) => Live(u))
  BY <1>3, <1>4 DEF Kin, Same, AsReady, SameRetry, Solid, Abandoned, Live, IsReady
<1>. QED BY <1>1, <1>3, <1>5, <1>6, <1>7, <1>8, <1>9 DEF Kin, Same, Well, Sound, u

\* The connection is lost, and tells so: a bot that used it loses it.
LEMMA GoneTells ==
  ASSUME NEW t, Well(t), NEW r \in Rtcs, NEW v, Advances(v, t, r),
         v.rtc[r].state = "failed" \/ (v.rtc[r].state = "closed" /\ CurrentRtc(t) # r)
  PROVE  LET u == OnStateChange(v, r) IN
         /\ Well(u) /\ u.conn = t.conn /\ u.run = t.run /\ Solid(u) /\ Cared(u, t)
         /\ t.run # None => SameRetry(u, t)
         /\ v.rtc[r].state = "closed" /\ Live(t) => Live(u)
<1> DEFINE u == OnStateChange(v, r)
           s == v.rtc[r].state
           c == v.rtc[r].conn
<1>1. /\ Good(v) /\ Bots(v) /\ Rests(v) /\ Pcs(v) /\ Probed(v) /\ Runs(v) /\ v.conn = t.conn
      /\ v.retry = t.retry /\ v.run = t.run
      /\ CurrentRtc(v) = CurrentRtc(t)
      /\ CurrentRtc(t) # r => Linked(v)
      /\ CurrentRtc(t) # r => (Live(v) <=> Live(t))
  BY AdvanceTells
<1>2. v \in Tabs /\ c \in Conns
  BY <1>1 DEF Good, Tabs, Rtc
<1>3. /\ Kin(u, v)
      /\ u.rtcOf = IF s = "failed" THEN [v.rtcOf EXCEPT ![c] = None] ELSE v.rtcOf
      /\ Down(u) /\ (~v.bot.known => AsReady(u, v)) /\ Cared(u, v)
      /\ v.run # None => SameRetry(u, v)
  BY <1>2, OnStateChangeTells
<1>4. c = t.rtc[r].conn
  BY DEF Advances
<1> HIDE DEF u, s, c
<1>5. Good(u)
  BY <1>1, <1>3, SameIsGood DEF Kin
<1>6. Bots(u) /\ Rests(u) /\ ~u.bot.ready
  BY <1>1, <1>3 DEF Kin, Same, AsReady, Down, Bots, Rests
<1>7. Pcs(u) /\ Probed(u) /\ Runs(u)
  BY <1>1, <1>3 DEF Kin, Same, Pcs, Probed, Runs
<1>8. CurrentRtc(u) \in {None, CurrentRtc(v)} /\ (s = "failed" /\ c = t.conn => CurrentRtc(u) = None)
      /\ (s # "failed" => CurrentRtc(u) = CurrentRtc(v))
  <2>1. v.conn # None => v.conn \in Conns
    BY <1>2 DEF Tabs
  <2>. QED BY <1>1, <1>2, <1>3, <2>1 DEF Kin, Same, CurrentRtc, Tabs
<1>9. CurrentRtc(t) = r => CurrentRtc(u) = None
  <2>1. CurrentRtc(t) = r => t.rtc[r].conn = t.conn
    BY RtcAssumption DEF Well, Sound, Linked
  <2>. QED BY <1>4, <1>8, <2>1 DEF s
<1>10. Linked(u)
  BY <1>1, <1>3, <1>8, <1>9 DEF Kin, Same, Linked
<1>11. Solid(u) /\ Cared(u, t) /\ (t.run # None => SameRetry(u, t))
  BY <1>1, <1>3, <1>6 DEF Solid, Cared, SameRetry
<1>12. s = "closed" /\ Live(t) => Live(u)
  <2>1. s = "closed" => CurrentRtc(t) # r
    BY DEF s
  <2>. QED BY <1>1, <1>3, <1>8, <2>1 DEF Kin, Same, Live, IsReady
<1>. QED BY <1>1, <1>3, <1>5, <1>6, <1>7, <1>10, <1>11, <1>12 DEF Well, Sound, Kin, Same, u, s

\* A promise that is refused, or given up, leaves a live connection alone.
LEMMA SettledTells ==
  ASSUME NEW t, Well(t), NEW u, u = t \/ (t.run # None /\ Settled(u, t))
  PROVE  /\ Well(u) /\ u.conn = t.conn /\ (Solid(t) => Solid(u))
         /\ Abandoned(u) => Abandoned(t) \/ (t.run # None /\ t.retry.count = MaxRetries /\ u.retry.count = 0)
         /\ Live(t) => u = t
<1>1. CASE u = t
  BY <1>1
<1>2. CASE t.run # None /\ Settled(u, t)
  <2>1. ~Live(t) /\ (Solid(t) => ~t.bot.ready)
    BY <1>2 DEF Live, IsReady, Well, Sound, Linked, Solid
  <2>2. Abandoned(u) => t.retry.count = MaxRetries /\ u.retry.count = 0
    BY <1>2 DEF Settled, Cared, Abandoned
  <2>3. Solid(t) => Solid(u)
    BY <1>2, <2>1 DEF Settled, Solid
  <2>. QED BY <1>2, <2>1, <2>2, <2>3 DEF Settled
<1>. QED BY <1>1, <1>2

\* Nothing happens to the bot but that it may be said to be online or not.
LEMMA AsideIsWell ==
  ASSUME NEW t, Well(t), NEW u, Aside(u, t)
  PROVE  /\ Well(u) /\ u.conn = t.conn /\ CurrentRtc(u) = CurrentRtc(t) /\ u.run = t.run
         /\ (Solid(u) <=> Solid(t)) /\ (Live(u) <=> Live(t)) /\ (Mute(u) <=> Mute(t))
  BY AsideTells DEF Well, Aside, Same

\* Other connections are probed.
LEMMA ProbingTells ==
  ASSUME NEW t, Well(t), NEW s \in SUBSET Rtcs, \A q \in s : t.map = q
  PROVE  LET u == [t EXCEPT !.probing = s] IN
         /\ Well(u) /\ u.conn = t.conn /\ u.bot = t.bot /\ CurrentRtc(u) = CurrentRtc(t)
         /\ (Solid(u) <=> Solid(t)) /\ (Live(u) <=> Live(t)) /\ (Abandoned(u) <=> Abandoned(t))
<1> DEFINE u == [t EXCEPT !.probing = s]
<1>1. t \in Tabs
  BY DEF Well, Sound, Good
<1>2. /\ Same(u, t) /\ u.rtcOf = t.rtcOf /\ u.probing = s /\ u.bot = t.bot /\ u.retry = t.retry
  BY <1>1 DEF Tabs, Same
<1> HIDE DEF u
<1>3. Good(u)
  BY <1>2, SameIsGood DEF Well, Sound
<1>4. CurrentRtc(u) = CurrentRtc(t)
  BY <1>2 DEF Same, CurrentRtc
<1>5. Bots(u) /\ Rests(u) /\ Pcs(u) /\ Probed(u) /\ Runs(u)
  BY <1>2 DEF Same, Well, Sound, Bots, Rests, Pcs, Probed, Runs
<1>6. Linked(u)
  BY <1>2, <1>4 DEF Same, Well, Sound, Linked
<1>7. (Solid(u) <=> Solid(t)) /\ (Live(u) <=> Live(t)) /\ (Abandoned(u) <=> Abandoned(t))
  BY <1>2, <1>4 DEF Same, Solid, Live, Abandoned, IsReady
<1>. QED BY <1>2, <1>3, <1>4, <1>5, <1>6, <1>7 DEF Well, Sound, Same, u

-----------------------------------------------------------------------------
(* What the tab becomes, of each handler *)

\* Of what the tab becomes: it is well and no more hollow than it was, a bot that
\* is abandoned was, or has used up its retries, and what is live stays so.
Holds(u) == Well(u) /\ (Solid(tab) => Solid(u))
Cares(u) == Abandoned(u) /\ ~Abandoned(tab) => tab.retry.count = MaxRetries /\ u.retry.count = 0
Keeps(u) == Live(tab) /\ u.conn = tab.conn => Live(u)
LEMMA BecomesThat ==
  ASSUME NEW u, Becomes(u), Holds(u)
  PROVE  Well(tab') /\ Hollows /\ (Cares(u) => Leaves) /\ (Keeps(u) => ~Loses)
<1>1. /\ Well(tab') /\ tab'.conn = u.conn /\ tab'.retry = u.retry
      /\ Solid(tab') <=> Solid(u)
      /\ Abandoned(tab') <=> Abandoned(u)
      /\ Live(u) => Live(tab')
  BY BecomesTells DEF Holds
<1>2. Hollows
  <2>1. Hollow(tab) <=> ~Solid(tab)
    BY HollowIs
  <2>2. Hollow(tab') <=> ~Solid(tab')
    BY HollowIs
  <2>. QED BY <1>1, <2>1, <2>2 DEF Hollows, Holds
<1>3. Cares(u) => Leaves
  BY <1>1 DEF Cares, Leaves
<1>4. Keeps(u) => ~Loses
  BY <1>1 DEF Keeps, Loses
<1>. QED BY <1>1, <1>2, <1>3, <1>4

\* A bot comes into the list.
LEMMA AddBotShows ==
  ASSUME Well(tab), NEW on \in BOOLEAN, AddBot(on) PROVE Well(tab') /\ Hollows /\ Leaves /\ ~Loses
<1> DEFINE t == [tab EXCEPT !.bot = NewBot(on)]
           c == NextConn(t)
           u == [t EXCEPT !.conn = c]
           f == FullInit(u)
<1>1. /\ NewBot(on) \in Bot /\ NewBot(on).known = TRUE /\ NewBot(on).ready = FALSE
      /\ NewBot(on).phase = "idle" /\ NewBot(on).online = on
  BY DEF NewBot, NoBot, Bot, Phases
<1> HIDE DEF NewBot
<1>2. /\ t \in Tabs /\ t.rtc = tab.rtc /\ t.map = tab.map /\ t.run = tab.run /\ t.conn = tab.conn
      /\ t.init = tab.init /\ t.rtcOf = tab.rtcOf /\ t.probing = tab.probing /\ t.bot = NewBot(on)
  BY <1>1 DEF Well, Sound, Good, Tabs
<1>3. Becomes(IF u.bot.online THEN f ELSE u) /\ RoomForConn(tab) /\ ~tab.bot.known /\ tab.conn = None
  BY DEF AddBot, BridgeNew
<1> HIDE DEF t
<1>4. c \in Conns /\ Unused(t, c)
  <2> DEFINE S == {d \in Conns : Unused(t, d)}
  <2>1. S # {} /\ S \in SUBSET Nat
    BY <1>2, <1>3 DEF RoomForConn, Unused, Over, Conns
  <2>2. PICK d \in S : \A e \in S : d <= e
    BY <2>1, Least
  <2>3. d \in Conns /\ Unused(t, d) /\ \A e \in 1..d - 1 : ~Unused(t, e)
    BY <2>2, RtcAssumption DEF Conns
  <2>. QED BY <2>3, Zenon DEF NextConn
<1> HIDE DEF c
<1>5. /\ u \in Tabs /\ u.rtc = t.rtc /\ u.map = t.map /\ u.run = t.run /\ u.conn = c /\ c # None
      /\ u.rtcOf = t.rtcOf /\ u.probing = t.probing /\ u.bot = t.bot
  BY <1>2, <1>4, RtcAssumption DEF Tabs
<1> HIDE DEF u
<1>6. Good(u)
  BY <1>2, <1>5 DEF Well, Sound, Good, Owned, Awaited, HasConn
<1>7. CurrentRtc(u) = None
  BY <1>4, <1>5 DEF CurrentRtc, Unused
<1>8. Bots(u) /\ Rests(u) /\ Linked(u) /\ Solid(u)
  BY <1>1, <1>2, <1>5, <1>7 DEF Bots, Rests, Linked, Solid
<1>9. Pcs(u) /\ Probed(u) /\ Runs(u)
  BY <1>2, <1>4, <1>5 DEF Well, Sound, Pcs, Probed, Runs, Unused
<1>10. Well(u)
  BY <1>6, <1>8, <1>9 DEF Well, Sound
<1>11. Well(f) /\ (Solid(u) => Solid(f)) /\ (Abandoned(f) => Mute(u))
  BY <1>5, <1>10, FullInitTells
<1> HIDE DEF f
<1>12. ~Mute(u) /\ ~Live(tab)
  BY <1>3, <1>7 DEF Mute, Healthy, Live
<1>13. CASE u.bot.online
  <2>1. Holds(f) /\ Cares(f) /\ Keeps(f)
    BY <1>8, <1>11, <1>12 DEF Holds, Cares, Keeps
  <2>. QED BY <1>3, <1>13, <2>1, BecomesThat
<1>14. CASE ~u.bot.online
  <2>1. Holds(u) /\ Cares(u) /\ Keeps(u)
    BY <1>8, <1>10, <1>12, <1>14 DEF Holds, Cares, Keeps, Abandoned
  <2>. QED BY <1>3, <1>14, <2>1, BecomesThat
<1>. QED BY <1>13, <1>14

\* A snapshot comes.
LEMMA SnapshotShows ==
  ASSUME Well(tab), NEW on \in BOOLEAN, SnapshotWith(on) PROVE Well(tab') /\ Hollows /\ ~Loses
<1> DEFINE t == [tab EXCEPT !.bot.online = on \/ tab.bot.ready]
           c == ClearRetry(t)
           e == EnsureRtc(c, FALSE)
<1>1. Aside(t, tab) /\ t.bot.known /\ t \in Tabs
  BY DEF Well, Sound, Good, Tabs, Bot, Same, Aside, SnapshotWith
<1>2. Becomes(t) \/ Becomes(e)
  BY DEF SnapshotWith
<1> HIDE DEF t
<1>3. Well(t) /\ (Solid(t) <=> Solid(tab)) /\ (Live(t) <=> Live(tab))
  BY <1>1, AsideIsWell
<1>4. Aside(c, t) /\ c.bot.known
  BY <1>1, ClearRetryTells DEF Kin, Same, Aside
<1> HIDE DEF c
<1>5. Well(c) /\ (Solid(c) <=> Solid(t)) /\ (Live(c) <=> Live(t))
  BY <1>3, <1>4, AsideIsWell
<1>6. Well(e) /\ (Solid(c) => Solid(e)) /\ Spared(e, c)
  BY <1>4, <1>5, EnsureRtcTells DEF Well
<1> HIDE DEF e
<1>7. Live(c) /\ e.conn = c.conn => Live(e)
  BY <1>6 DEF Spared, Live, IsReady, CurrentRtc
<1>8. t.conn = tab.conn /\ c.conn = t.conn
  BY <1>1, <1>4 DEF Aside, Same
<1>9. Holds(t) /\ Keeps(t) /\ Holds(e) /\ Keeps(e)
  BY <1>3, <1>5, <1>6, <1>7, <1>8 DEF Holds, Keeps
<1>. QED BY <1>2, <1>9, BecomesThat

\* A bot goes.
LEMMA RemoveBotShows == ASSUME Well(tab), RemoveBot PROVE Well(tab') /\ Hollows /\ Leaves /\ ~Loses
<1> DEFINE t == CloseCurrent(tab)
           u == [ClearRetry(Disconnect(t)) EXCEPT !.bot = NoBot]
<1>1. tab \in Tabs /\ Good(tab) /\ tab.conn # None /\ Owned(tab)
  BY DEF Well, Sound, Good, HasConn, RemoveBot
<1>2. /\ t.run = tab.run /\ t.conn = tab.conn
      /\ t.probing = {}
      /\ \A r \in Rtcs : t.rtc[r].conn = tab.rtc[r].conn /\ t.rtc[r].settled = tab.rtc[r].settled
      /\ Pcs(t)
  BY <1>1, CloseCurrentTells DEF Well, Sound
<1>3. Good(t)
  BY <1>1, CloseCurrentLeaves DEF Good, Awaited, HasConn
<1>4. Becomes(u)
  BY DEF RemoveBot
<1> HIDE DEF t
<1>5. t.run # None /\ t.run.rtc # None => t.rtc[t.run.rtc].conn = t.run.conn /\ ~t.rtc[t.run.rtc].settled
  <2>1. tab.run # None => tab.run.rtc \in Rtcs \cup {None}
    BY <1>1 DEF Tabs, Run
  <2>. QED BY <1>2, <2>1 DEF Well, Sound, Runs
<1>6. Probed(t)
  BY <1>2 DEF Probed
<1>7. Well(u) /\ u.conn = None /\ ~u.bot.known
  BY <1>1, <1>2, <1>3, <1>5, <1>6, DisconnectTells
<1> HIDE DEF u
<1>8. Holds(u) /\ Cares(u) /\ Keeps(u)
  BY <1>1, <1>7 DEF Holds, Cares, Keeps, Abandoned, Solid, Well, Sound, Bots
<1>. QED BY <1>4, <1>8, BecomesThat

\* The user logs out.
LEMMA LogoutShows == ASSUME Well(tab), Logout PROVE Well(tab') /\ Hollows /\ Leaves /\ ~Loses
<1> DEFINE u == [Disconnect(tab) EXCEPT !.bot = NoBot]
<1>1. Good(tab) /\ Pcs(tab) /\ Probed(tab) /\ tab.conn # None /\ Becomes(u)
  BY DEF Well, Sound, Logout
<1>2. tab.run # None /\ tab.run.rtc # None
        => tab.rtc[tab.run.rtc].conn = tab.run.conn /\ ~tab.rtc[tab.run.rtc].settled
  BY DEF Well, Sound, Runs
<1>3. Well(u) /\ u.conn = None /\ ~u.bot.known
  BY <1>1, <1>2, DisconnectTells
<1> HIDE DEF u
<1>4. Holds(u) /\ Cares(u) /\ Keeps(u)
  BY <1>1, <1>3 DEF Holds, Cares, Keeps, Abandoned, Solid, Well, Sound, Bots
<1>. QED BY <1>1, <1>4, BecomesThat

\* The bot goes offline.
LEMMA BotOfflineShows == ASSUME Well(tab), BotOffline PROVE Well(tab') /\ Hollows /\ Leaves /\ ~Loses
<1> DEFINE t == [tab EXCEPT !.bot.online = FALSE, !.bot.ready = FALSE, !.bot.phase = "idle"]
           u == ClearRetry(t)
<1>1. /\ Same(t, tab) /\ t.rtcOf = tab.rtcOf /\ t.probing = tab.probing
      /\ t.bot.online = FALSE /\ t.bot.ready = FALSE /\ t.bot.phase = "idle"
  BY DEF Well, Sound, Good, Tabs, Bot, Phases, Same
<1>2. Becomes(u) /\ tab.bot.known
  BY DEF BotOffline
<1> HIDE DEF t
<1>3. Kin(u, t) /\ u.bot = t.bot /\ u.rtcOf = t.rtcOf
  BY <1>1, ClearRetryTells DEF Same
<1> HIDE DEF u
<1>4. Same(u, tab) /\ u.rtcOf = tab.rtcOf /\ u.probing = tab.probing /\ u.bot = t.bot
  BY <1>1, <1>3 DEF Kin, Same
<1>5. Good(u) /\ CurrentRtc(u) = CurrentRtc(tab)
  BY <1>4, SameIsGood DEF Well, Sound, Same, CurrentRtc
<1>6. Bots(u) /\ Rests(u) /\ Pcs(u) /\ Probed(u) /\ Runs(u)
  BY <1>1, <1>4 DEF Same, Well, Sound, Bots, Rests, Pcs, Probed, Runs
<1>7. Linked(u)
  BY <1>4, <1>5 DEF Same, Well, Sound, Linked
<1>8. Holds(u) /\ Cares(u) /\ Keeps(u)
  BY <1>1, <1>4, <1>5, <1>6, <1>7 DEF Same, Holds, Cares, Keeps, Well, Sound, Solid, Abandoned, Live, IsReady
<1>. QED BY <1>2, <1>8, BecomesThat

\* The bot comes online.
LEMMA BotOnlineShows ==
  ASSUME Well(tab), BotOnline PROVE Well(tab') /\ Hollows /\ (Leaves \/ Mute(tab)) /\ ~Loses
<1> DEFINE t == [tab EXCEPT !.bot.online = TRUE]
           f == FullInit(t)
           c == ClearRetry(t)
           e == EnsureRtc(c, FALSE)
<1>1. Aside(t, tab) /\ t.bot.known /\ t \in Tabs /\ t.retry = tab.retry /\ t.conn # None
  BY DEF Well, Sound, Good, HasConn, Tabs, Bot, Same, Aside, BotOnline
<1>2. Becomes(f) \/ Becomes(e) \/ (tab.bot.online /\ Becomes(t))
  <2>1. t.bot.init = tab.bot.init
    BY DEF Well, Sound, Good, Tabs, Bot
  <2>2. tab.bot.online \in BOOLEAN /\ tab.bot.init \in BOOLEAN
    BY DEF Well, Sound, Good, Tabs, Bot
  <2>. QED BY <2>1, <2>2 DEF BotOnline
<1> HIDE DEF t
<1>3. /\ Well(t) /\ (Solid(t) <=> Solid(tab)) /\ (Live(t) <=> Live(tab)) /\ (Mute(t) <=> Mute(tab))
      /\ t.conn = tab.conn /\ t.run = tab.run
  BY <1>1, AsideIsWell
<1>4. Well(f) /\ (Solid(t) => Solid(f)) /\ (Abandoned(f) => Mute(t)) /\ Spared(f, t)
  BY <1>1, <1>3, FullInitTells
<1> HIDE DEF f
<1>5. Aside(c, t) /\ c.bot.known
  BY <1>1, ClearRetryTells DEF Kin, Same, Aside
<1> HIDE DEF c
<1>6. /\ Well(c) /\ (Solid(c) <=> Solid(t)) /\ (Live(c) <=> Live(t)) /\ (Mute(c) <=> Mute(t))
      /\ c.conn = t.conn
  BY <1>3, <1>5, AsideIsWell
<1>7. Well(e) /\ (Solid(c) => Solid(e)) /\ Spared(e, c) /\ (Abandoned(e) => Mute(c))
  BY <1>5, <1>6, EnsureRtcTells DEF Well
<1> HIDE DEF e
<1>8. (Live(t) /\ f.conn = t.conn => Live(f)) /\ (Live(c) /\ e.conn = c.conn => Live(e))
  BY <1>4, <1>7 DEF Spared, Live, IsReady, CurrentRtc
<1>9. tab.bot.online /\ Abandoned(t) => Abandoned(tab)
  BY <1>1, <1>3 DEF Abandoned, Aside, Same
<1>10. /\ Holds(t) /\ Keeps(t) /\ (tab.bot.online => Cares(t))
       /\ Holds(f) /\ Keeps(f) /\ (Cares(f) \/ Mute(tab))
       /\ Holds(e) /\ Keeps(e) /\ (Cares(e) \/ Mute(tab))
  BY <1>3, <1>4, <1>6, <1>7, <1>8, <1>9 DEF Holds, Keeps, Cares
<1>. QED BY <1>2, <1>10, BecomesThat

\* The retry timer fires.
LEMMA RetryFiresShows ==
  ASSUME Well(tab), RetryFires
  PROVE  Well(tab') /\ Hollows /\ (Leaves \/ Mute(tab) \/ tab.bot.phase = "idle") /\ ~Loses
<1> DEFINE t == [tab EXCEPT !.retry.armed = FALSE]
           c == ClearRetry(t)
           e == EnsureRtc(t, FALSE)
<1>1. Aside(t, tab) /\ t \in Tabs /\ t.bot = tab.bot
  BY DEF Well, Sound, Good, Tabs, Same, Aside
<1>2. \/ Becomes(c) /\ (~t.bot.known \/ ~t.bot.online \/ t.bot.phase # "failed")
      \/ t.bot.known /\ Becomes(e)
  BY DEF RetryFires
<1> HIDE DEF t
<1>3. /\ Well(t) /\ (Solid(t) <=> Solid(tab)) /\ (Live(t) <=> Live(tab)) /\ (Mute(t) <=> Mute(tab))
      /\ t.conn = tab.conn /\ t.run = tab.run
  BY <1>1, AsideIsWell
<1>4. Aside(c, t) /\ c.bot = t.bot
  BY <1>1, ClearRetryTells DEF Kin, Same, Aside
<1> HIDE DEF c
<1>5. Well(c) /\ (Solid(c) <=> Solid(t)) /\ (Live(c) <=> Live(t)) /\ c.conn = t.conn /\ c.run = t.run
  BY <1>3, <1>4, AsideIsWell
<1>6. t.bot.known => Well(e) /\ (Solid(t) => Solid(e)) /\ Spared(e, t) /\ (Abandoned(e) => Mute(t))
  BY <1>3, EnsureRtcTells DEF Well
<1> HIDE DEF e
<1>7. t.bot.known => (Live(t) /\ e.conn = t.conn => Live(e))
  BY <1>6 DEF Spared, Live, IsReady, CurrentRtc
<1>8. /\ Holds(c) /\ Keeps(c)
      /\ t.bot.known => Holds(e) /\ Keeps(e) /\ (Cares(e) \/ Mute(tab))
  BY <1>3, <1>5, <1>6, <1>7 DEF Holds, Keeps, Cares
<1>9. ~t.bot.known \/ ~t.bot.online \/ t.bot.phase # "failed" => Cares(c) \/ tab.bot.phase = "idle"
  <2>1. tab.bot.phase \in Phases
    BY DEF Well, Sound, Good, Tabs, Bot
  <2>. QED BY <1>1, <1>3, <1>4, <1>5, <2>1 DEF Cares, Abandoned, Well, Sound, Bots, Rests, Phases
<1>. QED BY <1>2, <1>8, <1>9, BecomesThat

\* The version is known, or not.
LEMMA VersionAnsweredShows ==
  ASSUME Well(tab), NEW c \in Conns, NEW ok \in BOOLEAN, VersionAnswered(c, ok)
  PROVE  Well(tab') /\ Hollows /\ Leaves /\ ~Loses
<1> DEFINE t == [tab EXCEPT !.init[c] = "none"]
           f == InitFails(tab, c)
<1>1. tab \in Tabs
  BY DEF Well, Sound, Good
<1>2. Aside(t, tab) /\ t.bot.online = tab.bot.online /\ t.retry = tab.retry
  BY <1>1 DEF Tabs, Same, Aside
<1>3. Aside(f, tab) /\ f.bot.online = tab.bot.online /\ f.retry = tab.retry
  BY <1>1, InitFailsTells DEF Kin, AsReady, SameRetry, Aside
<1>4. PICK u \in {t, f} : Becomes(u)
  BY DEF VersionAnswered
<1>5. Aside(u, tab) /\ u.bot.online = tab.bot.online /\ u.retry = tab.retry
  BY <1>2, <1>3
<1> HIDE DEF t, f
<1>6. Well(u) /\ (Solid(u) <=> Solid(tab)) /\ (Live(u) <=> Live(tab))
  BY <1>5, AsideIsWell
<1>7. Abandoned(u) <=> Abandoned(tab)
  BY <1>5 DEF Aside, Same, Abandoned
<1>8. Holds(u) /\ Cares(u) /\ Keeps(u)
  BY <1>6, <1>7 DEF Holds, Cares, Keeps
<1>. QED BY <1>4, <1>8, BecomesThat

\* The connection that the bot's conn uses.
LEMMA CurrentIs ==
  ASSUME Well(tab), CurrentRtc(tab) # None
  PROVE  LET r == CurrentRtc(tab) IN
         /\ r \in Rtcs /\ tab.map = r /\ tab.rtc[r].state = "connected" /\ tab.rtc[r].step = "done"
         /\ tab.run = None
  BY DEF Well, Sound, Good, Tabs, Linked, CurrentRtc

\* The tab is in the foreground again.
LEMMA ForegroundResumeShows ==
  ASSUME Well(tab), NEW longAgo \in BOOLEAN, ForegroundResume(longAgo)
  PROVE  Well(tab') /\ Hollows /\ Leaves /\ (longAgo \/ ~Loses)
<1> DEFINE r == CurrentRtc(tab)
           s == tab.probing \cup {r}
           t == [tab EXCEPT !.probing = s]
           e == Recover(tab, TRUE)
<1>1. r # None /\ tab.bot.ready
  BY DEF ForegroundResume
<1>2. r \in Rtcs /\ tab.map = r /\ tab.rtc[r].state = "connected"
  BY <1>1, CurrentIs
<1>3. ((longAgo \/ ~IsReady(tab, r)) /\ Becomes(e)) \/ Becomes(t)
  BY <1>2 DEF ForegroundResume
<1>4. s \in SUBSET Rtcs /\ \A q \in s : tab.map = q
  BY <1>2 DEF Well, Sound, Good, Tabs, Probed
<1> HIDE DEF r, s
<1>5. /\ Well(t) /\ (Solid(t) <=> Solid(tab)) /\ (Live(t) <=> Live(tab)) /\ (Abandoned(t) <=> Abandoned(tab))
  BY <1>4, ProbingTells
<1> HIDE DEF t
<1>6. Well(e) /\ e.conn = tab.conn /\ (Solid(tab) => Solid(e)) /\ ~Abandoned(e)
  BY <1>1, RecoverTells DEF Well, Sound, Bots
<1> HIDE DEF e
<1>7. ~IsReady(tab, r) => ~Live(tab)
  BY DEF Live, r
<1>8. Holds(t) /\ Cares(t) /\ Keeps(t) /\ Holds(e) /\ Cares(e) /\ (~IsReady(tab, r) => Keeps(e))
  BY <1>5, <1>6, <1>7 DEF Holds, Cares, Keeps
<1>. QED BY <1>3, <1>8, BecomesThat

\* A probe is over.
LEMMA ProbeShows ==
  ASSUME Well(tab), NEW r \in Rtcs, ProbeAnswered(r) \/ ProbeFailed(r)
  PROVE  Well(tab') /\ Hollows /\ Leaves /\ ((r = CurrentRtc(tab) /\ ProbeFailed(r)) \/ ~Loses)
<1> DEFINE s == tab.probing \ {r}
           t == [tab EXCEPT !.probing = s]
           e == Recover(t, TRUE)
<1>1. s \in SUBSET Rtcs /\ \A q \in s : tab.map = q
  BY DEF Well, Sound, Good, Tabs, Probed
<1>2. (ProbeFailed(r) /\ t.bot.known /\ Becomes(e)) \/ Becomes(t)
  BY DEF ProbeAnswered, ProbeFailed
<1>3. r \in tab.probing
  BY DEF ProbeAnswered, ProbeFailed
<1> HIDE DEF s
<1>4. /\ Well(t) /\ (Solid(t) <=> Solid(tab)) /\ (Live(t) <=> Live(tab)) /\ (Abandoned(t) <=> Abandoned(tab))
      /\ t.conn = tab.conn
  BY <1>1, ProbingTells
<1> HIDE DEF t
<1>5. t.bot.known => Well(e) /\ e.conn = t.conn /\ (Solid(t) => Solid(e)) /\ ~Abandoned(e)
  BY <1>4, RecoverTells
<1> HIDE DEF e
<1>6. Live(tab) => r = CurrentRtc(tab)
  BY <1>3, CurrentIs DEF Live, IsReady, Well, Sound, Probed
<1>7. /\ Holds(t) /\ Cares(t) /\ Keeps(t)
      /\ t.bot.known => Holds(e) /\ Cares(e) /\ (r # CurrentRtc(tab) => Keeps(e))
  BY <1>4, <1>5, <1>6 DEF Holds, Cares, Keeps
<1>. QED BY <1>2, <1>7, BecomesThat

-----------------------------------------------------------------------------
(* ... of each step of connecting *)

\* Another step of the connection.
LEMMA StepAdvances ==
  ASSUME NEW t, Well(t), NEW r \in Rtcs, NEW s \in {"signal", "done"},
         t.rtc[r].step = "creds" \/ (s = "done" /\ t.rtc[r].step # "done")
  PROVE  LET u == [t EXCEPT !.rtc[r].step = s] IN
         Advances(u, t, r) /\ StaysUp(u, t, r) /\ CurrentRtc(t) # r
<1> DEFINE old == t.rtc[r]
           new == [old EXCEPT !.step = s]
           u == [t EXCEPT !.rtc[r] = new]
<1>1. t \in Tabs /\ old \in Rtc
  BY DEF Well, Sound, Good, Tabs
<1>2. [t EXCEPT !.rtc[r].step = s] = u
  OBVIOUS
<1>3. old.step # "done" => CurrentRtc(t) # r
  BY RtcAssumption DEF Well, Sound, Linked
<1>4. old.step # "done" => old.pc # "connected"
  BY DEF Well, Sound, Pcs
<1> HIDE DEF old
<1>5. /\ new \in Rtc /\ new.conn = old.conn /\ new.settled = old.settled /\ new.late = old.late
      /\ new.pc = old.pc /\ new.step = s
  BY <1>1 DEF Rtc
<1> HIDE DEF new
<1>6. RtcOnly(u, t, r) /\ u.rtc[r] = new
  BY <1>1, <1>5, RtcOnlyChanges
<1> HIDE DEF u
<1>7. t.rtc[r] = old
  BY DEF old
<1>8. old.step # "done"
  BY <1>7
<1>9. Advances(u, t, r) /\ StaysUp(u, t, r)
  BY <1>3, <1>4, <1>5, <1>6, <1>7, <1>8 DEF Advances, StaysUp
<1>. QED BY <1>2, <1>3, <1>8, <1>9

\* A connection that gets on, while the bot does not use it, is seen by nobody.
LEMMA AdvanceHolds ==
  ASSUME Well(tab), NEW r \in Rtcs, NEW u, Advances(u, tab, r), StaysUp(u, tab, r)
  PROVE  Holds(u) /\ Cares(u) /\ (CurrentRtc(tab) # r => Keeps(u))
  BY AdvanceTells DEF Holds, Cares, Keeps

\* It gives up.
LEMMA CaughtHolds ==
  ASSUME Well(tab), NEW r \in Rtcs, NEW t, t = tab \/ (Advances(t, tab, r) /\ CurrentRtc(tab) # r)
  PROVE  LET u == Caught(t, r) IN Holds(u) /\ Cares(u) /\ Keeps(u)
<1> DEFINE u == Caught(t, r)
<1>1. /\ Well(t) /\ (Solid(t) <=> Solid(tab)) /\ (Abandoned(t) <=> Abandoned(tab)) /\ t.conn = tab.conn
      /\ t.retry = tab.retry /\ (Live(tab) => Live(t))
  BY AdvanceTells DEF StaysUp
<1>2. u = t \/ (t.run # None /\ Settled(u, t))
  BY <1>1, CaughtTells
<1> HIDE DEF u
<1>3. /\ Well(u) /\ u.conn = t.conn /\ (Solid(t) => Solid(u))
      /\ Abandoned(u) => Abandoned(t) \/ (t.run # None /\ t.retry.count = MaxRetries /\ u.retry.count = 0)
      /\ Live(t) => u = t
  BY <1>1, <1>2, SettledTells
<1>4. Holds(u) /\ Cares(u) /\ Keeps(u)
  BY <1>1, <1>3 DEF Holds, Cares, Keeps
<1>. QED BY <1>4 DEF u

\* The TURN credentials are there, or not.
LEMMA CredsShows ==
  ASSUME Well(tab), NEW r \in Rtcs, NEW ok \in BOOLEAN, Creds(r, ok)
  PROVE  Well(tab') /\ Hollows /\ Leaves /\ ~Loses
<1> DEFINE s == [tab EXCEPT !.rtc[r].step = "signal"]
           d == [tab EXCEPT !.rtc[r].step = "done"]
           c == Caught(d, r)
<1>1. Becomes(s) \/ Becomes(c)
  BY DEF Creds
<1>2. Advances(s, tab, r) /\ StaysUp(s, tab, r) /\ CurrentRtc(tab) # r /\ Advances(d, tab, r)
  BY StepAdvances DEF Creds
<1> HIDE DEF s, d
<1>3. Holds(s) /\ Cares(s) /\ Keeps(s)
  BY <1>2, AdvanceHolds
<1>4. Holds(c) /\ Cares(c) /\ Keeps(c)
  BY <1>2, CaughtHolds
<1>. QED BY <1>1, <1>3, <1>4, BecomesThat

\* createOffer is done.
LEMMA OfferShows ==
  ASSUME Well(tab), NEW r \in Rtcs, Offer(r) PROVE Well(tab') /\ Hollows /\ Leaves /\ ~Loses
<1> DEFINE d == [tab EXCEPT !.rtc[r].step = "done"]
           c == Caught(d, r)
<1>1. Becomes(d) \/ Becomes(c)
  BY DEF Offer
<1>2. Advances(d, tab, r) /\ StaysUp(d, tab, r) /\ CurrentRtc(tab) # r
  BY StepAdvances DEF Offer
<1> HIDE DEF d
<1>3. Holds(d) /\ Cares(d) /\ Keeps(d)
  BY <1>2, AdvanceHolds
<1>4. Holds(c) /\ Cares(c) /\ Keeps(c)
  BY <1>2, CaughtHolds
<1>. QED BY <1>1, <1>3, <1>4, BecomesThat

\* The fallback timer fires.
LEMMA FallbackShows ==
  ASSUME Well(tab), NEW r \in Rtcs, Fallback(r) PROVE Well(tab') /\ Hollows /\ Leaves /\ ~Loses
<1> DEFINE c == Caught(tab, r)
<1>1. Becomes(c)
  BY DEF Fallback
<1>2. Holds(c) /\ Cares(c) /\ Keeps(c)
  BY CaughtHolds
<1>. QED BY <1>1, <1>2, BecomesThat

-----------------------------------------------------------------------------
(* ... of each event of a peer connection *)

\* A connection whose state changes tells, unless it was in that state.
LEMMA SetStateTells ==
  ASSUME NEW t \in Tabs, NEW r \in Rtcs, NEW s \in {"idle", "connecting", "connected", "failed", "closed"}
  PROVE  \E v \in Tabs : SetTo(v, t, s, r) /\ (SetState(t, r, s) = OnStateChange(v, r)
                                               \/ (SetState(t, r, s) = v /\ t.rtc[r].state = s))
<1>1. PICK v \in Tabs :
         /\ SetTo(v, t, s, r)
         /\ t.rtc[r].state = s => SetState(t, r, s) = t
         /\ t.rtc[r].state # s => SetState(t, r, s) = OnStateChange(v, r)
  BY SetStateIs
<1>2. CASE t.rtc[r].state # s
  BY <1>1, <1>2
<1>3. CASE t.rtc[r].state = s
  <2>1. RtcOnly(t, t, r)
    BY DEF RtcOnly
  <2>2. SetTo(t, t, s, r) /\ SetState(t, r, s) = t
    BY <1>1, <1>3, <2>1 DEF SetTo
  <2>. QED BY <1>3, <2>2
<1>. QED BY <1>2, <1>3

\* A peer connection and its channel are there.
LEMMA SignalShows ==
  ASSUME Well(tab), NEW r \in Rtcs, NEW ok \in BOOLEAN, Signal(r, ok)
  PROVE  Well(tab') /\ Hollows /\ Leaves /\ ~Loses
<1> DEFINE old == tab.rtc[r]
           new == [old EXCEPT !.step = "offer", !.pc = "new", !.dc = "new"]
           t == [tab EXCEPT !.rtc[r].step = "offer", !.rtc[r].pc = "new", !.rtc[r].dc = "new"]
           s == "connecting"
           u == SetState(t, r, s)
           d == [tab EXCEPT !.rtc[r].step = "done"]
           c == Caught(d, r)
<1>1. Becomes(u) \/ Becomes(c)
  BY DEF Signal
<1>2. old.step = "signal" /\ old \in Rtc /\ tab \in Tabs
  BY DEF Well, Sound, Signal, Good, Tabs
<1>3. Advances(d, tab, r) /\ CurrentRtc(tab) # r
  BY StepAdvances DEF Signal
<1> HIDE DEF d
<1>4. Holds(c) /\ Cares(c) /\ Keeps(c)
  BY <1>3, CaughtHolds
<1> HIDE DEF c
<1>5. RtcOnly(t, tab, r) /\ t.rtc[r] = new
  <2>1. t = [tab EXCEPT !.rtc = [[[tab.rtc EXCEPT ![r].step = "offer"] EXCEPT ![r].pc = "new"]
                                    EXCEPT ![r].dc = "new"]]
    BY <1>2 DEF Tabs
  <2>2. [[[tab.rtc EXCEPT ![r].step = "offer"] EXCEPT ![r].pc = "new"] EXCEPT ![r].dc = "new"]
            = [tab.rtc EXCEPT ![r] = new]
    <3>1. new = [[[old EXCEPT !.step = "offer"] EXCEPT !.pc = "new"] EXCEPT !.dc = "new"]
      BY <1>2 DEF Rtc
    <3>. QED BY <1>2, <3>1 DEF Tabs
  <2>3. t = [tab EXCEPT !.rtc[r] = new]
    BY <2>1, <2>2
  <2> HIDE DEF old
  <2>4. new \in Rtc
    BY <1>2 DEF Rtc
  <2> HIDE DEF new, t
  <2>. QED BY <1>2, <2>3, <2>4, RtcOnlyChanges
<1>6. new.step = "offer" /\ new.pc = "new" /\ new.conn = old.conn /\ new.settled = old.settled /\ new.late = old.late
  BY <1>2 DEF Rtc
<1>7. s \in {"idle", "connecting", "connected", "failed", "closed"} /\ s \notin {"failed", "closed"}
  OBVIOUS
<1>8. tab.rtc[r] = old /\ t \in Tabs
  BY <1>5 DEF RtcOnly
<1> HIDE DEF t, s, new, old
<1>9. PICK v \in Tabs : SetTo(v, t, s, r) /\ (u = OnStateChange(v, r) \/ u = v)
  BY <1>7, <1>8, SetStateTells
<1>10. Advances(v, tab, r) /\ StaysUp(v, tab, r)
  <2>1. RtcOnly(v, tab, r)
    BY <1>5, <1>9 DEF RtcOnly, SetTo
  <2>2. /\ v.rtc[r].step = "offer" /\ v.rtc[r].pc = "new" /\ v.rtc[r].conn = old.conn
        /\ v.rtc[r].settled = old.settled /\ v.rtc[r].late = old.late
    BY <1>5, <1>6, <1>9 DEF SetTo
  <2>. QED BY <1>2, <1>3, <1>8, <2>1, <2>2 DEF Advances, StaysUp
<1>11. v.rtc[r].state \notin {"failed", "closed"}
  BY <1>7, <1>9 DEF SetTo
<1>12. Holds(v) /\ Cares(v) /\ Keeps(v)
  BY <1>3, <1>10, AdvanceHolds
<1> DEFINE o == OnStateChange(v, r)
<1>13. /\ Well(o) /\ o.conn = tab.conn /\ (Solid(tab) => Solid(o)) /\ (Abandoned(o) => Abandoned(tab))
       /\ Live(v) => Live(o)
  BY <1>10, <1>11, ToldTells
<1>14. Live(tab) => Live(v)
  BY <1>3, <1>10, AdvanceTells
<1> HIDE DEF o, u
<1>15. Holds(o) /\ Cares(o) /\ Keeps(o)
  BY <1>13, <1>14 DEF Holds, Cares, Keeps
<1>16. u = o \/ u = v
  BY <1>9 DEF o, u
<1>. QED BY <1>1, <1>4, <1>12, <1>15, <1>16, BecomesThat

\* The peer connection is connected.
LEMMA PcConnectedShows ==
  ASSUME Well(tab), NEW r \in Rtcs, PcConnected(r)
  PROVE  Well(tab') /\ Hollows /\ Leaves /\ ~Loses
<1> DEFINE old == tab.rtc[r]
           new == [old EXCEPT !.pc = "connected", !.stats = TRUE]
           t == [tab EXCEPT !.rtc[r].pc = "connected", !.rtc[r].stats = TRUE]
           s == "connected"
           u == SetState(t, r, s)
<1>1. Becomes(u)
  BY DEF PcConnected
<1>2. old.step = "done" /\ old.pc \in {"new", "disconnected"} /\ old \in Rtc /\ tab \in Tabs
  BY DEF Well, Sound, PcConnected, Good, Tabs
<1>3. CurrentRtc(tab) = r => ~Live(tab)
  BY DEF Live, PcConnected
<1>5. RtcOnly(t, tab, r) /\ t.rtc[r] = new
  <2>1. t = [tab EXCEPT !.rtc = [[tab.rtc EXCEPT ![r].pc = "connected"] EXCEPT ![r].stats = TRUE]]
    BY <1>2 DEF Tabs
  <2>2. [[tab.rtc EXCEPT ![r].pc = "connected"] EXCEPT ![r].stats = TRUE] = [tab.rtc EXCEPT ![r] = new]
    <3>1. new = [[old EXCEPT !.pc = "connected"] EXCEPT !.stats = TRUE]
      BY <1>2 DEF Rtc
    <3>. QED BY <1>2, <3>1 DEF Tabs
  <2>3. t = [tab EXCEPT !.rtc[r] = new]
    BY <2>1, <2>2
  <2> HIDE DEF old
  <2>4. new \in Rtc
    BY <1>2 DEF Rtc
  <2> HIDE DEF new, t
  <2>. QED BY <1>2, <2>3, <2>4, RtcOnlyChanges
<1>6. new.step = "done" /\ new.pc = "connected" /\ new.conn = old.conn /\ new.settled = old.settled /\ new.late = old.late
  BY <1>2 DEF Rtc
<1>7. s \in {"idle", "connecting", "connected", "failed", "closed"} /\ s \notin {"failed", "closed"}
      /\ s = "connected"
  OBVIOUS
<1>8. tab.rtc[r] = old /\ t \in Tabs
  BY <1>5 DEF RtcOnly
<1> HIDE DEF t, s, new, old
<1>9. PICK v \in Tabs : SetTo(v, t, s, r) /\ (u = OnStateChange(v, r) \/ u = v)
  BY <1>7, <1>8, SetStateTells
<1>10. Advances(v, tab, r) /\ StaysUp(v, tab, r)
  <2>1. RtcOnly(v, tab, r)
    BY <1>5, <1>9 DEF RtcOnly, SetTo
  <2>2. /\ v.rtc[r].step = "done" /\ v.rtc[r].pc = "connected" /\ v.rtc[r].conn = old.conn
        /\ v.rtc[r].settled = old.settled /\ v.rtc[r].late = old.late /\ v.rtc[r].state = "connected"
    BY <1>5, <1>6, <1>7, <1>9 DEF SetTo
  <2>. QED BY <1>2, <1>8, <2>1, <2>2 DEF Advances, StaysUp
<1>11. v.rtc[r].state \notin {"failed", "closed"}
  BY <1>7, <1>9 DEF SetTo
<1>12. Holds(v) /\ Cares(v) /\ (CurrentRtc(tab) # r => Keeps(v))
  BY <1>10, AdvanceHolds
<1> DEFINE o == OnStateChange(v, r)
<1>13. /\ Well(o) /\ o.conn = tab.conn /\ (Solid(tab) => Solid(o)) /\ (Abandoned(o) => Abandoned(tab))
       /\ Live(v) => Live(o)
  BY <1>10, <1>11, ToldTells
<1>14. Live(tab) => Live(v)
  BY <1>3, <1>10, AdvanceTells
<1> HIDE DEF o, u
<1>15. Holds(o) /\ Cares(o) /\ Keeps(o) /\ Keeps(v)
  BY <1>13, <1>14 DEF Holds, Cares, Keeps
<1>16. u = o \/ u = v
  BY <1>9 DEF o, u
<1>. QED BY <1>1, <1>12, <1>15, <1>16, BecomesThat

\* A peer connection that the tab does not use was closed late.
LEMMA OthersAreLate ==
  ASSUME Well(tab), NEW r \in Rtcs, tab.rtc[r].pc # "none", CurrentRtc(tab) # r, CurrentRtc(tab) # None
  PROVE  tab.rtc[r].late
<1>1. tab.map = CurrentRtc(tab)
  BY CurrentIs
<1>. QED BY <1>1 DEF Well, Sound, Good, Owned

\* The candidate type is known.
LEMMA StatsShows ==
  ASSUME Well(tab), NEW r \in Rtcs, Stats(r)
  PROVE  Well(tab') /\ Hollows /\ Leaves /\ (~Loses \/ tab.rtc[r].late)
<1> DEFINE old == tab.rtc[r]
           new == [old EXCEPT !.stats = FALSE]
           t == [tab EXCEPT !.rtc[r] = new]
           o == OnStateChange(t, r)
<1>1. old \in Rtc /\ tab \in Tabs
  BY DEF Well, Sound, Good, Tabs
<1>2. [tab EXCEPT !.rtc[r].stats = FALSE] = t
  OBVIOUS
<1>3. Becomes(t) \/ (t.rtc[r].pc # "none" /\ Becomes(o))
  BY <1>2 DEF Stats
<1>4. CurrentRtc(tab) = r => old.state = "connected" /\ old.step = "done"
  BY RtcAssumption DEF Well, Sound, Linked
<1>5. old.pc = "connected" => old.state = "connected" /\ old.step = "done"
  BY DEF Well, Sound, Pcs
<1>6. tab.rtc[r] = old
  OBVIOUS
<1> HIDE DEF old
<1>7. /\ new \in Rtc /\ new.conn = old.conn /\ new.settled = old.settled /\ new.late = old.late
      /\ new.pc = old.pc /\ new.step = old.step /\ new.state = old.state /\ new.dc = old.dc
  BY <1>1 DEF Rtc
<1> HIDE DEF new
<1>8. RtcOnly(t, tab, r) /\ t.rtc[r] = new
  BY <1>1, <1>7, RtcOnlyChanges
<1> HIDE DEF t
<1>9. Advances(t, tab, r) /\ StaysUp(t, tab, r)
  BY <1>4, <1>5, <1>6, <1>7, <1>8 DEF Advances, StaysUp
<1>10. Live(tab) => Live(t)
  <2>1. CurrentRtc(t) = CurrentRtc(tab) /\ t.bot = tab.bot
    BY <1>9, AdvanceTells DEF Advances, RtcOnly
  <2>2. \A q \in Rtcs : t.rtc[q].pc = tab.rtc[q].pc /\ t.rtc[q].dc = tab.rtc[q].dc
    BY <1>6, <1>7, <1>8 DEF RtcOnly
  <2>. QED BY <2>1, <2>2, CurrentIs DEF Live, IsReady
<1>11. Holds(t) /\ Cares(t) /\ Keeps(t)
  BY <1>9, <1>10, AdvanceHolds DEF Keeps
<1>12. CASE new.state \notin {"failed", "closed"}
  <2>1. /\ Well(o) /\ o.conn = tab.conn /\ (Solid(tab) => Solid(o)) /\ (Abandoned(o) => Abandoned(tab))
        /\ Live(t) => Live(o)
    BY <1>8, <1>9, <1>12, ToldTells
  <2> HIDE DEF o
  <2>2. Holds(o) /\ Cares(o) /\ Keeps(o)
    BY <1>10, <2>1 DEF Holds, Cares, Keeps
  <2>. QED BY <1>3, <1>11, <2>2, BecomesThat
<1>13. CASE new.state \in {"failed", "closed"}
  <2>1. CurrentRtc(tab) # r
    BY <1>4, <1>7, <1>13
  <2>2. t.rtc[r].state = "failed" \/ (t.rtc[r].state = "closed" /\ CurrentRtc(tab) # r)
    BY <1>8, <1>13, <2>1
  <2>3. Well(o) /\ o.conn = tab.conn /\ Solid(o) /\ Cared(o, tab)
    BY <1>9, <2>2, GoneTells
  <2> HIDE DEF o
  <2>4. Holds(o) /\ Cares(o)
    BY <2>3 DEF Holds, Cares, Cared, Abandoned
  <2>5. ASSUME t.rtc[r].pc # "none", Live(tab) PROVE tab.rtc[r].late
    <3>1. CurrentRtc(tab) # None /\ tab.rtc[r].pc # "none"
      BY <1>6, <1>7, <1>8, <2>5 DEF Live, IsReady
    <3>. QED BY <2>1, <3>1, OthersAreLate
  <2>6. t.rtc[r].pc # "none" => ~Loses \/ tab.rtc[r].late
    BY <2>5 DEF Loses
  <2>. QED BY <1>3, <1>11, <2>4, <2>6, BecomesThat
<1>. QED BY <1>12, <1>13

\* The peer connection is disconnected.
LEMMA PcDisconnectedShows ==
  ASSUME Well(tab), NEW r \in Rtcs, PcDisconnected(r)
  PROVE  Well(tab') /\ Hollows /\ Leaves /\ (~Loses \/ r = CurrentRtc(tab))
<1> DEFINE old == tab.rtc[r]
           new == [old EXCEPT !.pc = "disconnected"]
           t == [tab EXCEPT !.rtc[r] = new]
<1>1. old \in Rtc /\ tab \in Tabs
  BY DEF Well, Sound, Good, Tabs
<1>2. [tab EXCEPT !.rtc[r].pc = "disconnected"] = t
  OBVIOUS
<1>3. Becomes(t) /\ old.pc = "connected"
  BY <1>2 DEF PcDisconnected
<1>4. CurrentRtc(tab) = r => old.state = "connected" /\ old.step = "done"
  BY RtcAssumption DEF Well, Sound, Linked
<1>6. tab.rtc[r] = old
  OBVIOUS
<1> HIDE DEF old
<1>7. /\ new \in Rtc /\ new.conn = old.conn /\ new.settled = old.settled /\ new.late = old.late
      /\ new.pc = "disconnected" /\ new.step = old.step /\ new.state = old.state
  BY <1>1 DEF Rtc
<1> HIDE DEF new
<1>8. RtcOnly(t, tab, r) /\ t.rtc[r] = new
  BY <1>1, <1>7, RtcOnlyChanges
<1> HIDE DEF t
<1>9. Advances(t, tab, r) /\ StaysUp(t, tab, r)
  BY <1>3, <1>4, <1>6, <1>7, <1>8 DEF Advances, StaysUp
<1>10. Holds(t) /\ Cares(t) /\ (CurrentRtc(tab) # r => Keeps(t))
  BY <1>9, AdvanceHolds
<1>. QED BY <1>3, <1>10, BecomesThat

\* The data channel closes.
LEMMA DcClosedShows ==
  ASSUME Well(tab), NEW r \in Rtcs, DcClosed(r)
  PROVE  Well(tab') /\ Hollows /\ Leaves /\ (~Loses \/ r = CurrentRtc(tab))
<1> DEFINE old == tab.rtc[r]
           new == [old EXCEPT !.dc = "none"]
           t == [tab EXCEPT !.rtc[r] = new]
           c == old.conn
           u == RejectPending(t, c)
<1>1. old \in Rtc /\ tab \in Tabs /\ c \in Conns
  BY DEF Well, Sound, Good, Tabs, Rtc
<1>2. [tab EXCEPT !.rtc[r].dc = "none"] = t
  OBVIOUS
<1>3. Becomes(u)
  BY <1>2 DEF DcClosed
<1>4. CurrentRtc(tab) = r => old.state = "connected" /\ old.step = "done"
  BY RtcAssumption DEF Well, Sound, Linked
<1>5. old.pc = "connected" => old.state = "connected" /\ old.step = "done"
  BY DEF Well, Sound, Pcs
<1>6. tab.rtc[r] = old
  OBVIOUS
<1> HIDE DEF old, c
<1>7. /\ new \in Rtc /\ new.conn = old.conn /\ new.settled = old.settled /\ new.late = old.late
      /\ new.pc = old.pc /\ new.step = old.step /\ new.state = old.state
  BY <1>1 DEF Rtc
<1> HIDE DEF new
<1>8. RtcOnly(t, tab, r) /\ t.rtc[r] = new
  BY <1>1, <1>7, RtcOnlyChanges
<1> HIDE DEF t
<1>9. Advances(t, tab, r) /\ StaysUp(t, tab, r)
  BY <1>4, <1>5, <1>6, <1>7, <1>8 DEF Advances, StaysUp
<1>10. /\ Well(t) /\ (Solid(t) <=> Solid(tab)) /\ (Abandoned(t) <=> Abandoned(tab)) /\ t.conn = tab.conn
       /\ CurrentRtc(tab) # r => (Live(t) <=> Live(tab))
  BY <1>9, AdvanceTells
<1>11. t \in Tabs
  BY <1>8 DEF RtcOnly
<1>12. Kin(u, t) /\ u.rtcOf = t.rtcOf /\ SameRetry(u, t) /\ AsReady(u, t)
  BY <1>1, <1>11, RejectPendingTells
<1> HIDE DEF u
<1>13. Aside(u, t) /\ (Abandoned(u) <=> Abandoned(t))
  BY <1>12 DEF Kin, Same, SameRetry, AsReady, Aside, Abandoned
<1>14. Well(u) /\ u.conn = t.conn /\ (Solid(u) <=> Solid(t)) /\ (Live(u) <=> Live(t))
  BY <1>10, <1>13, AsideIsWell
<1>15. Holds(u) /\ Cares(u) /\ (CurrentRtc(tab) # r => Keeps(u))
  BY <1>10, <1>13, <1>14 DEF Holds, Cares, Keeps
<1>. QED BY <1>3, <1>15, BecomesThat

\* The peer connection has failed.
LEMMA PcFailedShows ==
  ASSUME Well(tab), NEW r \in Rtcs, PcFailed(r)
  PROVE  Well(tab') /\ Hollows /\ Leaves /\ (~Loses \/ tab.rtc[r].late)
<1> DEFINE old == tab.rtc[r]
           new == [old EXCEPT !.pc = "failed"]
           t == [tab EXCEPT !.rtc[r] = new]
           s == "failed"
<1>1. old \in Rtc /\ tab \in Tabs
  BY DEF Well, Sound, Good, Tabs
<1>2. [tab EXCEPT !.rtc[r].pc = "failed"] = t
  OBVIOUS
<1>3. PICK w \in {t, tab} : Becomes(Refused(SetState(w, r, s), r))
  BY <1>2 DEF PcFailed
<1>4. tab.rtc[r] = old /\ old.pc \in {"new", "disconnected"}
  BY DEF PcFailed
<1>5. CurrentRtc(tab) = r => old.state = "connected"
  BY RtcAssumption DEF Well, Sound, Linked
<1> HIDE DEF old
<1>6. /\ new \in Rtc /\ new.conn = old.conn /\ new.settled = old.settled /\ new.late = old.late
      /\ new.pc = "failed" /\ new.step = old.step /\ new.state = old.state
  BY <1>1 DEF Rtc
<1> HIDE DEF new
<1>7. RtcOnly(t, tab, r) /\ t.rtc[r] = new
  BY <1>1, <1>6, RtcOnlyChanges
<1> HIDE DEF t
<1>8. /\ RtcOnly(w, tab, r) /\ w \in Tabs
      /\ w.rtc[r].conn = old.conn /\ w.rtc[r].settled = old.settled /\ w.rtc[r].late = old.late
      /\ w.rtc[r].pc \notin {"none", "connected"} /\ w.rtc[r].step = old.step /\ w.rtc[r].state = old.state
  <2>1. CASE w = tab
    <3>1. RtcOnly(tab, tab, r)
      BY <1>1 DEF RtcOnly
    <3>. QED BY <1>1, <1>4, <2>1, <3>1
  <2>2. CASE w = t
    <3>1. t \in Tabs
      BY <1>7 DEF RtcOnly
    <3>. QED BY <1>6, <1>7, <2>2, <3>1
  <2>. QED BY <2>1, <2>2
<1>9. s \in {"idle", "connecting", "connected", "failed", "closed"} /\ s = "failed"
  OBVIOUS
<1> HIDE DEF s
<1> DEFINE u == SetState(w, r, s)
           f == Refused(u, r)
<1>10. PICK v \in Tabs : SetTo(v, w, s, r) /\ (u = OnStateChange(v, r) \/ (u = v /\ w.rtc[r].state = s))
  BY <1>8, <1>9, SetStateTells
<1> HIDE DEF u
<1>11. Advances(v, tab, r) /\ v.rtc[r].state = "failed"
  <2>1. RtcOnly(v, tab, r)
    BY <1>8, <1>10 DEF RtcOnly, SetTo
  <2>2. /\ v.rtc[r].conn = old.conn /\ v.rtc[r].settled = old.settled /\ v.rtc[r].late = old.late
        /\ v.rtc[r].pc # "connected" /\ v.rtc[r].state = s
    BY <1>8, <1>10 DEF SetTo
  <2>. QED BY <1>4, <1>9, <2>1, <2>2 DEF Advances
<1>12. /\ Well(u) /\ u.conn = tab.conn /\ (Solid(tab) => Solid(u))
       /\ Abandoned(u) => Abandoned(tab) \/ (tab.retry.count = MaxRetries /\ u.retry.count = 0)
       /\ tab.run # None => u.retry = tab.retry
       /\ u.run = tab.run
  <2>1. CASE u = OnStateChange(v, r)
    <3> DEFINE o == OnStateChange(v, r)
    <3>1. /\ Well(o) /\ o.conn = tab.conn /\ o.run = tab.run /\ Solid(o) /\ Cared(o, tab)
          /\ tab.run # None => SameRetry(o, tab)
      BY <1>11, GoneTells
    <3> HIDE DEF o
    <3>2. u = o
      BY <2>1 DEF o
    <3>. QED BY <3>1, <3>2 DEF Cared, Abandoned, SameRetry
  <2>2. CASE u = v /\ w.rtc[r].state = s
    <3>1. CurrentRtc(tab) # r
      BY <1>5, <1>8, <1>9, <2>2
    <3>2. StaysUp(v, tab, r)
      BY <3>1 DEF StaysUp
    <3>. QED BY <1>11, <2>2, <3>2, AdvanceTells
  <2>. QED BY <1>10, <2>1, <2>2
<1>13. f = u \/ (u.run # None /\ Settled(f, u))
  BY <1>12, RefusedTells
<1>14. Becomes(f)
  BY <1>3 DEF u
<1> HIDE DEF f
<1>15. /\ Well(f) /\ f.conn = u.conn /\ (Solid(u) => Solid(f))
       /\ Abandoned(f) => Abandoned(u) \/ (u.run # None /\ u.retry.count = MaxRetries /\ f.retry.count = 0)
       /\ Abandoned(u) => f = u \/ u.run # None
  BY <1>12, <1>13, SettledTells
<1>16. Holds(f)
  BY <1>12, <1>15 DEF Holds
<1>17. Cares(f)
  <2>1. Abandoned(u) => u.run = None
    BY DEF Abandoned
  <2>. QED BY <1>12, <1>15, <2>1 DEF Cares
<1>18. Live(tab) => tab.rtc[r].late
  <2>1. Live(tab) => CurrentRtc(tab) # r /\ CurrentRtc(tab) # None
    BY <1>4 DEF Live, IsReady
  <2>2. tab.rtc[r].pc # "none"
    BY <1>4
  <2>. QED BY <2>1, <2>2, OthersAreLate
<1>. QED BY <1>14, <1>16, <1>17, <1>18, BecomesThat DEF Loses

\* The data channel opens.
LEMMA DcOpenShows ==
  ASSUME Well(tab), NEW r \in Rtcs, DcOpen(r)
  PROVE  Well(tab') /\ (Hollows \/ (tab.run # None /\ tab.run.conn # tab.conn)) /\ Leaves /\ ~Loses
<1> DEFINE old == tab.rtc[r]
           new == [old EXCEPT !.dc = "open"]
           t == [tab EXCEPT !.rtc[r] = new]
           x == Settle(t, r)
           y == SetRtc(x, r)
           b == Built(y)
<1>1. old \in Rtc /\ tab \in Tabs
  BY DEF Well, Sound, Good, Tabs
<1>2. [tab EXCEPT !.rtc[r].dc = "open"] = t
  OBVIOUS
<1>3. Becomes(IF t.rtc[r].settled THEN t ELSE b)
  BY <1>2 DEF DcOpen
<1>4. tab.rtc[r] = old /\ old.pc = "connected" /\ old.dc = "new"
  BY DEF DcOpen
<1>5. old.state = "connected" /\ old.step = "done"
  BY <1>4 DEF Well, Sound, Pcs
<1> HIDE DEF old
<1>6. /\ new \in Rtc /\ new.conn = old.conn /\ new.settled = old.settled /\ new.late = old.late
      /\ new.pc = old.pc /\ new.step = old.step /\ new.state = old.state
  BY <1>1 DEF Rtc
<1> HIDE DEF new
<1>7. RtcOnly(t, tab, r) /\ t.rtc[r] = new
  BY <1>1, <1>6, RtcOnlyChanges
<1> HIDE DEF t
<1>8. Advances(t, tab, r) /\ StaysUp(t, tab, r)
  BY <1>4, <1>5, <1>6, <1>7 DEF Advances, StaysUp
<1>9. CurrentRtc(tab) = r => ~Live(tab)
  BY <1>4 DEF Live, IsReady
<1>10. Holds(t) /\ Cares(t) /\ Keeps(t)
  BY <1>8, <1>9, AdvanceHolds DEF Keeps
<1>11. CASE t.rtc[r].settled
  BY <1>3, <1>10, <1>11, BecomesThat
<1>12. CASE ~t.rtc[r].settled
  <2>1. Well(t) /\ t.conn = tab.conn /\ t.run = tab.run /\ (Solid(t) <=> Solid(tab))
    BY <1>8, AdvanceTells
  <2>2. /\ Mid(x) /\ x.conn = t.conn /\ x.rtcOf = t.rtcOf /\ x.map = t.map /\ x.run = t.run
        /\ t.run # None /\ t.run.rtc = r
        /\ x.rtc[r].conn = t.rtc[r].conn
    BY <1>12, <2>1, SettleTells
  <2>3. x.rtc[r].pc = "connected"
    <3>1. x = [t EXCEPT !.rtc[r].settled = TRUE]
      BY DEF Settle
    <3>2. t \in Tabs /\ t.rtc[r].pc = "connected"
      BY <1>4, <1>6, <1>7 DEF RtcOnly
    <3> HIDE DEF x
    <3>. QED BY <3>1, <3>2 DEF Tabs, Rtc
  <2> DEFINE c == x.rtc[r].conn
  <2>4. x \in Tabs /\ c \in Conns /\ Between(x)
    BY <2>2 DEF Mid, Between, Tabs, Rtc
  <2> HIDE DEF x
  <2>5. y = [x EXCEPT !.rtcOf[c] = r]
    BY DEF SetRtc
  <2>6. c = t.rtc[r].conn /\ x.rtc[r].conn = c
    BY <2>2
  <2> HIDE DEF y, c
  <2>7. /\ Same(y, x) /\ y.rtcOf = [x.rtcOf EXCEPT ![c] = r] /\ y.probing = x.probing /\ y.bot = x.bot
    BY <2>4, <2>5 DEF Tabs, Same
  <2>8. Between(y)
    BY <2>4, <2>7, SameIsBetween
  <2>9. Bots(y) /\ Pcs(y) /\ Probed(y)
    BY <2>2, <2>7 DEF Mid, Same, Bots, Pcs, Probed
  <2>10. CurrentRtc(y) = IF c = t.conn THEN r ELSE None
    <3>1. x.conn # None => x.conn \in Conns
      BY <2>4 DEF Tabs
    <3>2. CurrentRtc(x) = None
      BY <2>2 DEF Mid
    <3>3. c # None
      BY <2>4, RtcAssumption
    <3>. QED BY <2>2, <2>4, <2>7, <3>1, <3>2, <3>3 DEF Same, CurrentRtc, Tabs
  <2>11. t.run.conn = c /\ (c = t.conn => t.map = r)
    <3>1. r # None
      BY RtcAssumption
    <3>. QED BY <2>1, <2>2, <2>6, <3>1 DEF Well, Sound, Runs
  <2>12. x.rtc[r].state = "connected" /\ x.rtc[r].step = "done"
    BY <2>2, <2>3 DEF Mid, Pcs
  <2>13. LinkedBy(y)
    BY <2>2, <2>6, <2>7, <2>10, <2>11, <2>12 DEF LinkedBy, Same
  <2>14. Well(b) /\ b.conn = y.conn /\ CurrentRtc(b) = CurrentRtc(y) /\ (b.bot.known => b.bot.ready)
    BY <2>8, <2>9, <2>13, BuiltTells
  <2> HIDE DEF b
  <2>15. Cares(b)
    BY <2>14 DEF Cares, Abandoned
  <2>16. ~Live(tab)
    <3>1. tab.run # None
      BY <2>1, <2>2
    <3>. QED BY <3>1, CurrentIs DEF Live, IsReady
  <2>17. Becomes(b)
    BY <1>3, <1>12
  <2>18. Keeps(b)
    BY <2>16 DEF Keeps
  <2>19. CASE c = t.conn
    <3>1. Solid(b)
      <4>1. r # None
        BY RtcAssumption
      <4>. QED BY <2>10, <2>14, <2>19, <4>1 DEF Solid
    <3>2. Holds(b)
      BY <2>14, <3>1 DEF Holds
    <3>. QED BY <2>15, <2>17, <2>18, <3>2, BecomesThat
  <2>20. CASE c # t.conn
    <3>1. tab.run # None /\ tab.run.conn # tab.conn
      BY <2>1, <2>2, <2>11, <2>20
    <3>2. /\ Well(tab') /\ tab'.retry = b.retry /\ (Abandoned(tab') <=> Abandoned(b))
      BY <2>14, <2>17, BecomesTells
    <3>3. Leaves /\ ~Loses
      BY <2>15, <2>16, <3>2 DEF Leaves, Loses, Cares
    <3>. QED BY <3>1, <3>2, <3>3
  <2>. QED BY <2>19, <2>20
<1>. QED BY <1>11, <1>12

-----------------------------------------------------------------------------
(* What no step does *)

\* A tab without a bot.
LEMMA InitIsWell == Init => Well(tab)
<1> SUFFICES ASSUME Init PROVE Well(tab)
  OBVIOUS
<1>1. Good(tab)
  BY InitHolds DEF IInv
<1>2. Spent.pc = "none" /\ NoBot.known = FALSE /\ NoBot.ready = FALSE /\ NoBot.phase = "idle"
  BY DEF Spent, NoBot
<1>3. /\ tab.rtc = [r \in Rtcs |-> Spent] /\ tab.run = None /\ tab.bot = NoBot /\ tab.conn = None
      /\ tab.probing = {}
  <2> HIDE DEF Spent, NoBot, NoRetry
  <2>. QED BY DEF Init
<1> HIDE DEF Spent, NoBot
<1>4. CurrentRtc(tab) = None
  BY <1>3 DEF CurrentRtc
<1>. QED BY <1>1, <1>2, <1>3, <1>4 DEF Well, Sound, Bots, Rests, Pcs, Probed, Linked, Runs

\* A step of the tab that is no exception shows all.
Alright == Well(tab') /\ Hollows /\ Leaves /\ ~Loses
Hollowed == tab.run # None /\ tab.run.conn # tab.conn
Left ==
    \/ \E on \in BOOLEAN : SnapshotWith(on)
    \/ tab.bot.phase = "idle" /\ RetryFires
    \/ Mute(tab) /\ (BotOnline \/ RetryFires)
Lossy ==
    LET r == CurrentRtc(tab) IN
    \/ PcDisconnected(r) \/ DcClosed(r) \/ ProbeFailed(r) \/ ForegroundResume(TRUE)
    \/ \E q \in Rtcs : tab.rtc[q].late /\ (PcFailed(q) \/ Stats(q))
LEMMA StepShows ==
  ASSUME Well(tab), [Next]_vars
  PROVE  Well(tab') /\ (Hollows \/ Hollowed) /\ (Leaves \/ Left) /\ (~Loses \/ Lossy)
<1>1. CASE UNCHANGED vars
  <2>1. tab' = tab
    BY <1>1 DEF vars
  <2>2. Well(tab')
    BY <2>1
  <2>3. Hollows /\ Leaves /\ ~Loses
    BY <2>1 DEF Hollows, Leaves, Loses
  <2>. QED BY <2>2, <2>3
<1>2. ASSUME NEW on \in BOOLEAN, AddBot(on) PROVE Alright
  BY <1>2, AddBotShows DEF Alright
<1>3. ASSUME NEW on \in BOOLEAN, SnapshotWith(on) PROVE Well(tab') /\ Hollows /\ ~Loses
  BY <1>3, SnapshotShows
<1>4. CASE RemoveBot \/ Logout \/ BotOffline
  BY <1>4, RemoveBotShows, LogoutShows, BotOfflineShows
<1>5. CASE BotOnline
  BY <1>5, BotOnlineShows DEF Left
<1>6. CASE RetryFires
  BY <1>6, RetryFiresShows DEF Left
<1>7. ASSUME NEW c \in Conns, NEW ok \in BOOLEAN, VersionAnswered(c, ok) PROVE Alright
  BY <1>7, VersionAnsweredShows DEF Alright
<1>8. ASSUME NEW longAgo \in BOOLEAN, ForegroundResume(longAgo)
      PROVE  Well(tab') /\ Hollows /\ Leaves /\ (~Loses \/ Lossy)
  <2>1. longAgo => Lossy
    BY <1>8 DEF Lossy
  <2>. QED BY <1>8, <2>1, ForegroundResumeShows
<1>9. ASSUME NEW r \in Rtcs, NEW ok \in BOOLEAN, Creds(r, ok) \/ Signal(r, ok) PROVE Alright
  BY <1>9, CredsShows, SignalShows DEF Alright
<1>10. ASSUME NEW r \in Rtcs, Offer(r) \/ Fallback(r) \/ PcConnected(r) PROVE Alright
  BY <1>10, OfferShows, FallbackShows, PcConnectedShows DEF Alright
<1>11. ASSUME NEW r \in Rtcs, Stats(r) \/ PcFailed(r)
       PROVE  Well(tab') /\ Hollows /\ Leaves /\ (~Loses \/ Lossy)
  <2>1. tab.rtc[r].late => Lossy
    BY <1>11 DEF Lossy
  <2>. QED BY <1>11, <2>1, StatsShows, PcFailedShows
<1>12. ASSUME NEW r \in Rtcs, PcDisconnected(r) \/ DcClosed(r) \/ ProbeAnswered(r) \/ ProbeFailed(r)
       PROVE  Well(tab') /\ Hollows /\ Leaves /\ (~Loses \/ Lossy)
  <2>1. r = CurrentRtc(tab) => Lossy \/ ProbeAnswered(r)
    BY <1>12 DEF Lossy
  <2>2. CASE PcDisconnected(r)
    BY <2>2, PcDisconnectedShows DEF Lossy
  <2>3. CASE DcClosed(r)
    BY <2>3, DcClosedShows DEF Lossy
  <2>4. CASE ProbeAnswered(r) \/ ProbeFailed(r)
    BY <2>4, ProbeShows DEF Lossy
  <2>. QED BY <1>12, <2>2, <2>3, <2>4
<1>13. ASSUME NEW r \in Rtcs, DcOpen(r) PROVE Well(tab') /\ (Hollows \/ Hollowed) /\ Leaves /\ ~Loses
  BY <1>13, DcOpenShows DEF Hollowed
<1>14. ASSUME NEW on \in BOOLEAN, SnapshotWith(on) PROVE Left
  BY <1>14 DEF Left
<1>15. CASE StoreNext
  BY <1>2, <1>3, <1>4, <1>5, <1>6, <1>7, <1>8, <1>14, <1>15 DEF StoreNext, Alright
<1>16. ASSUME NEW r \in Rtcs, RtcNext(r)
       PROVE  Well(tab') /\ (Hollows \/ Hollowed) /\ Leaves /\ (~Loses \/ Lossy)
  BY <1>9, <1>10, <1>11, <1>12, <1>13, <1>16 DEF RtcNext, Alright
<1>. QED BY <1>1, <1>15, <1>16 DEF Next

\* What a handler finds and leaves of the bot and the connection it uses.
THEOREM AlwaysWell == Spec => []Well(tab)
<1>1. Well(tab) /\ [Next]_vars => Well(tab')
  BY StepShows
<1>2. Well(tab)' <=> Well(tab')
  OBVIOUS
<1>. QED BY <1>1, <1>2, InitIsWell, PTL DEF Spec

\* A bot that is ready has an RTC connection in its conn: only an __ensureRtc that
\* was begun for a former conn of the bot makes it ready without.
THEOREM HollowOnlyByStale == Spec => HollowOnlyByStaleRun
<1>1. Well(tab) /\ [Next]_vars
        => [(~Hollow(tab) /\ Hollow(tab')) => tab.run # None /\ tab.run.conn # tab.conn]_vars
  BY StepShows DEF Hollows, Hollowed
<1>. QED BY <1>1, AlwaysWell, PTL DEF Spec, HollowOnlyByStaleRun

\* No step leaves an online bot without a data channel, a run that builds one and a
\* retry, until the retries are used up, but a snapshot that finds it online, a
\* retry of a bot that was not said to have failed, and __ensureRtc when the
\* channel has closed without its peer connection.
THEOREM NotAbandoned == Spec => NeverAbandoned
<1>1. Well(tab) /\ [Next]_vars
        => [(~Abandoned(tab) /\ Abandoned(tab'))
               => \/ tab.retry.count = MaxRetries /\ tab'.retry.count = 0
                  \/ \E on \in BOOLEAN : SnapshotWith(on)
                  \/ tab.bot.phase = "idle" /\ RetryFires
                  \/ Mute(tab) /\ (BotOnline \/ RetryFires)]_vars
  BY StepShows DEF Leaves, Left
<1>. QED BY <1>1, AlwaysWell, PTL DEF Spec, NeverAbandoned

\* Retries, snapshots, status events and what becomes of other connections leave a
\* live connection of the bot alone, but for one that was closed and came late.
THEOREM LostOnlyByItself == Spec => LostByItself
<1>1. Well(tab) /\ [Next]_vars
        => [(Live(tab) /\ tab'.conn = tab.conn /\ ~Live(tab'))
               => LET r == CurrentRtc(tab) IN
                  \/ PcDisconnected(r) \/ DcClosed(r) \/ ProbeFailed(r) \/ ForegroundResume(TRUE)
                  \/ \E q \in Rtcs : tab.rtc[q].late /\ (PcFailed(q) \/ Stats(q))]_vars
  BY StepShows DEF Loses, Lossy
<1>. QED BY <1>1, AlwaysWell, PTL DEF Spec, LostByItself

=============================================================================
