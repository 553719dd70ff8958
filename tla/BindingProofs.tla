---------------------------- MODULE BindingProofs ----------------------------
(***************************************************************************)
(* Proofs about Binding, for every set of codes, gateways, calls and RPCs  *)
(* and every bound: TwoBotsOnlyByRace, NoOrphan and AnswerIsOwn.           *)
(*                                                                         *)
(* A ticket makes one bot because its redemptions are one at a time: one   *)
(* that is about to make a bot is alone with the ticket, and one that has  *)
(* made it is there until the code is gone.  No bot is lost because in a   *)
(* calm run a bot is handed on from the call to the RPC to the config, and *)
(* each of them is empty before.  An answer is one's own because an entry, *)
(* what is parked on it and the call that marks it are of the same issue.  *)
(***************************************************************************)
EXTENDS Binding, SequenceTheorems, TLAPS

(***************************************************************************)
(* What is true in every reachable state                                   *)
(***************************************************************************)

\* A call: what it has found, and the bot it has made.
CallOK(k) ==
    /\ call[k].step \in {"drop", "create", "delete", "mark"} =>
         /\ call[k].ticket \in Tickets /\ call[k].ticket[1] = call[k].code
         /\ call[k].ticket[2] <= issued[call[k].code]
    /\ call[k].step \in {"find", "drop", "create"} => call[k].bot = None
    /\ call[k].step \in {"delete", "mark"} =>
         call[k].bot \in DOMAIN made /\ made[call[k].bot] = call[k].ticket
CallsOK == \A k \in Active : CallOK(k)

\* A redemption that has found its code and not dealt with it yet.
Redeems(k, t) ==
    k \in Active /\ call[k].step \in {"create", "delete"} /\ call[k].ticket = t

\* Two redemptions of one ticket overlap only if they are known to; where one is
\* about to make a bot there is none yet; a ticket with a bot cannot be found
\* any more once its redemption has dealt with the code.
OneAtATime ==
    \A t \in Tickets \ twice :
        /\ \A j, k \in Calls : Redeems(j, t) /\ Redeems(k, t) => j = k
        /\ \A k \in Active : call[k].step = "create" /\ call[k].ticket = t =>
             \A b \in DOMAIN made : made[b] # t
        /\ \A b \in DOMAIN made : made[b] = t =>
             \/ \E k \in Active : call[k].step = "delete" /\ call[k].ticket = t
             \/ t[1] \notin row \/ t[2] < issued[t[1]]
MadeOfIssued ==
    /\ \A b \in DOMAIN made : made[b][2] <= issued[made[b][1]]
    /\ \A c \in row : issued[c] > 0

\* An RPC whose server call is being handled awaits it, and has no bot; no two
\* calls are the same RPC's.
CalledBy(k, o) == k \in Active /\ call[k].by = o
OpsOK ==
    /\ \A k \in Calls, o \in Ops : CalledBy(k, o) => op[o] # None /\ op[o].step = "await"
    /\ \A j, k \in Calls, o \in Ops : CalledBy(j, o) /\ CalledBy(k, o) => j = k
    /\ \A o \in Ops : op[o] # None =>
         /\ op[o].code \in BindCodes \cup {None}
         /\ op[o].step \in {"ask", "await"} => op[o].bot = None /\ op[o].code # None

\* Calm: an RPC is alone with its gateway's config, and there is no enrolling.
Alone(o) ==
    LET p == op[o].plugin IN
    /\ \A q \in Ops \ {o} : op[q] = None \/ op[q].plugin # p
    /\ op[o].step # "claim"
    /\ op[o].step = "unbind" => config[p] = op[o].bot
    /\ op[o].step = "clear" => config[p] = op[o].bot /\ op[o].bot \notin alive
    /\ op[o].step \in {"ask", "await", "save"} => config[p] = None
Calm ==
    /\ \A o \in Ops : op[o] # None => Alone(o) /\ op[o].bot \in DOMAIN made \cup {None}
    /\ \A p \in Plugins : config[p] \in DOMAIN made \cup {None}
    /\ \A c \in ClaimCodes : issued[c] = 0
    /\ \A k \in Active : call[k].code \in BindCodes
    /\ \A t \in Tickets : t[1] \in ClaimCodes => loop[t].step = "off"

Reached(b) ==
    \/ \E p \in Plugins : config[p] = b
    \/ \E k \in Active : call[k].bot = b
    \/ \E o \in Ops : op[o] # None /\ op[o].bot = b
NoneLost == \A b \in alive : Reached(b)

\* The hubs: an entry is of the latest issue, and its bot was made for that;
\* what is parked is parked on an entry, of its own issue unless overtaken; so is
\* what is told to who polls.
IsOf(b, t) == b \in DOMAIN made /\ made[b] = t
EntryOK(c) ==
    entry[c] # None =>
        /\ entry[c].gen = issued[c]
        /\ entry[c].status = "bound" /\ c \notin overtaken => IsOf(entry[c].bot, <<c, entry[c].gen>>)
HubsOK ==
    /\ \A c \in Codes : EntryOK(c)
    /\ \A t \in Tickets :
         /\ loop[t].step = "parked" =>
              entry[t[1]] # None /\ (t[1] \notin overtaken => t[2] = issued[t[1]])
         /\ loop[t].bot # None /\ t[1] \notin overtaken => IsOf(loop[t].bot, t)
    /\ \A k \in Active : call[k].code \notin overtaken /\ call[k].step # "find" =>
         call[k].ticket = <<call[k].code, issued[call[k].code]>>

IInv ==
    /\ TypeOK /\ CallsOK /\ OneAtATime /\ MadeOfIssued /\ OpsOK /\ HubsOK
    /\ calm => Calm /\ NoneLost

-----------------------------------------------------------------------------
(* Tickets, bots and the start *)

\* A ticket is a code and an issue of it.
LEMMA TicketParts ==
  /\ \A t \in Tickets : t[1] \in Codes /\ t[2] \in 1..Issues /\ t = <<t[1], t[2]>>
  /\ \A c \in Codes, g \in 1..Issues : <<c, g>> \in Tickets
  BY DEF Tickets

\* The bots are numbered as they are made.
LEMMA MadeIsSeq ==
  ASSUME TypeOK
  PROVE  /\ made \in Seq(Tickets) /\ Len(made) \in Nat /\ Len(made) <= MaxBots
         /\ DOMAIN made = 1..Len(made) /\ DOMAIN made \subseteq Bots
         /\ \A b \in DOMAIN made : made[b] \in Tickets
<1>1. PICK n \in 0..MaxBots : made \in [1..n -> Tickets]
  BY DEF TypeOK
<1>2. n \in Nat /\ MaxBots \in Nat
  BY <1>1, BindingAssumption
<1>3. made \in Seq(Tickets) /\ Len(made) = n
  BY <1>1, <1>2
<1>. QED BY <1>1, <1>2, <1>3 DEF Bots

LEMMA MadeGrows ==
  ASSUME TypeOK, NEW t \in Tickets, Len(made) < MaxBots, made' = Append(made, t)
  PROVE  /\ made' \in UNION {[1..n -> Tickets] : n \in 0..MaxBots}
         /\ DOMAIN made' = 1..(Len(made) + 1) /\ Len(made) + 1 \in Bots
         /\ \A b \in DOMAIN made : made'[b] = made[b]
         /\ made'[Len(made) + 1] = t
<1>1. /\ made \in Seq(Tickets) /\ Len(made) \in Nat /\ MaxBots \in Nat
      /\ DOMAIN made = 1..Len(made)
  BY MadeIsSeq, BindingAssumption
<1>2. /\ made' \in Seq(Tickets) /\ Len(made') = Len(made) + 1
      /\ \A b \in 1..Len(made) : made'[b] = made[b]
      /\ made'[Len(made) + 1] = t
  BY <1>1, AppendProperties
<1>3. DOMAIN made' = 1..(Len(made) + 1) /\ made' \in [1..(Len(made) + 1) -> Tickets]
  BY <1>1, <1>2, LenProperties
<1>4. Len(made) + 1 \in 0..MaxBots /\ Len(made) + 1 \in Bots
  BY <1>1 DEF Bots
<1>. QED BY <1>1, <1>2, <1>3, <1>4

\* At the start there is nothing.
LEMMA InitHolds == Init => IInv
<1> SUFFICES ASSUME Init PROVE IInv
  OBVIOUS
<1>1. TypeOK
  <2>1. <<>> \in UNION {[1..n -> Tickets] : n \in 0..MaxBots}
    <3>1. 0 \in 0..MaxBots
      BY BindingAssumption
    <3>2. <<>> \in [1..0 -> Tickets]
      OBVIOUS
    <3>. QED BY <3>1, <3>2
  <2>2. NoLoop \in Loop
    BY DEF NoLoop, Loop
  <2>3. 0 \in 0..Issues
    BY BindingAssumption
  <2>. QED BY <2>1, <2>2, <2>3 DEF Init, TypeOK
<1>2. Active = {} /\ DOMAIN made = {}
  BY DEF Init, Active
<1>3. CallsOK /\ OneAtATime /\ MadeOfIssued
  BY <1>2 DEF Init, CallsOK, OneAtATime, MadeOfIssued, Redeems
<1>4. OpsOK
  BY <1>2 DEF Init, OpsOK, CalledBy
<1>5. HubsOK
  BY <1>2, TicketParts DEF Init, HubsOK, EntryOK, NoLoop
<1>6. Calm
  <2>1. Active = {} /\ \A o \in Ops : op[o] = None
    BY <1>2 DEF Init
  <2>. QED BY <2>1 DEF Init, Calm, NoLoop, Codes
<1>7. NoneLost
  BY DEF Init, NoneLost
<1>. QED BY <1>1, <1>3, <1>4, <1>5, <1>6, <1>7 DEF IInv

-----------------------------------------------------------------------------
(* Codes *)

\* A code is issued: a new ticket, which has no bot and no call.
LEMMA IssueKeeps ==
  ASSUME IInv, NEW c \in Codes, NEW l \in Loop, l.bot = None, l.step = "top",
         op' \in [Ops -> Op \cup {None}], Issue(c, l)
  PROVE  /\ TypeOK' /\ CallsOK' /\ OneAtATime' /\ MadeOfIssued' /\ HubsOK'
         /\ \A t \in Tickets : loop'[t] # loop[t] => t[1] = c
         /\ \A d \in Codes \ {c} : issued'[d] = issued[d]
<1>1. /\ issued' = [issued EXCEPT ![c] = @ + 1] /\ row' = row \cup {c} /\ past' = past \ {c}
      /\ entry' = [entry EXCEPT ![c] =
                    [gen |-> issued[c] + 1, status |-> "pending", bot |-> None, waiters |-> {}]]
      /\ overtaken' = IF Polled(c) \/ Redeemed(c) THEN overtaken \cup {c} ELSE overtaken
      /\ loop' = [loop EXCEPT ![<<c, issued[c] + 1>>] = l]
      /\ UNCHANGED <<made, alive, call, config, twice, calm>>
  BY DEF Issue, RegisterWait
<1>2. /\ issued \in [Codes -> 0..Issues] /\ Issues \in Nat /\ issued[c] + 1 \in 1..Issues
  <2>1. PICK plan \in Plans : issued'[c] <= plan[c]
    BY DEF Issue
  <2>2. plan[c] \in 0..Issues
    BY BindingAssumption
  <2>. QED BY <1>1, <2>1, <2>2, BindingAssumption DEF IInv, TypeOK
<1>3. <<c, issued[c] + 1>> \in Tickets
  BY <1>2, TicketParts
<1>4. [gen |-> issued[c] + 1, status |-> "pending", bot |-> None, waiters |-> {}] \in Entry
  BY <1>2 DEF Entry, Statuses
<1>5. TypeOK'
  <2>1. issued' \in [Codes -> 0..Issues]
    BY <1>1, <1>2
  <2>2. entry' \in [Codes -> Entry \cup {None}]
    BY <1>1, <1>4 DEF IInv, TypeOK
  <2>3. loop' \in [Tickets -> Loop]
    BY <1>1, <1>3 DEF IInv, TypeOK
  <2>. QED BY <1>1, <2>1, <2>2, <2>3 DEF IInv, TypeOK
<1>6. issued'[c] = issued[c] + 1 /\ \A d \in Codes \ {c} : issued'[d] = issued[d]
  BY <1>1, <1>2
<1>7. CallsOK'
  <2>1. \A k \in Active : call[k] \in Call /\ call[k].code \in Codes
    BY DEF IInv, TypeOK, Active, Call
  <2>. QED BY <1>1, <1>2, <1>6, <2>1, TicketParts DEF IInv, CallsOK, CallOK, Active
<1>8. MadeOfIssued'
  BY <1>1, <1>2, <1>6, MadeIsSeq, TicketParts DEF IInv, MadeOfIssued
<1>9. OneAtATime'
  <2> SUFFICES ASSUME NEW t \in Tickets \ twice
               PROVE  /\ \A j, k \in Calls : Redeems(j, t) /\ Redeems(k, t) => j = k
                      /\ \A k \in Active : call[k].step = "create" /\ call[k].ticket = t =>
                           \A b \in DOMAIN made : made[b] # t
                      /\ \A b \in DOMAIN made : made[b] = t =>
                           \/ \E k \in Active : call[k].step = "delete" /\ call[k].ticket = t
                           \/ t[1] \notin row' \/ t[2] < issued'[t[1]]
    BY <1>1 DEF OneAtATime, Redeems, Active
  <2>1. /\ \A j, k \in Calls : Redeems(j, t) /\ Redeems(k, t) => j = k
        /\ \A k \in Active : call[k].step = "create" /\ call[k].ticket = t =>
             \A b \in DOMAIN made : made[b] # t
        /\ \A b \in DOMAIN made : made[b] = t =>
             \/ \E k \in Active : call[k].step = "delete" /\ call[k].ticket = t
             \/ t[1] \notin row \/ t[2] < issued[t[1]]
    BY DEF IInv, OneAtATime
  <2>2. \A b \in DOMAIN made : made[b] = t => t[2] <= issued[t[1]]
    BY DEF IInv, MadeOfIssued
  <2>3. t[1] \in Codes /\ t[2] \in Nat /\ issued[t[1]] \in Nat
    BY <1>2, TicketParts
  <2>4. CASE t[1] = c
    BY <1>6, <2>1, <2>2, <2>3, <2>4
  <2>5. CASE t[1] # c
    BY <1>1, <1>6, <2>1, <2>3, <2>5
  <2>. QED BY <2>4, <2>5
<1>10. HubsOK'
  <2>1. \A d \in Codes : EntryOK(d)'
    BY <1>1, <1>6 DEF IInv, TypeOK, HubsOK, EntryOK, IsOf
  <2>2. ASSUME NEW t \in Tickets
        PROVE  /\ loop'[t].step = "parked" =>
                    entry'[t[1]] # None /\ (t[1] \notin overtaken' => t[2] = issued'[t[1]])
               /\ loop'[t].bot # None /\ t[1] \notin overtaken' => IsOf(loop[t].bot, t)'
    <3>1. CASE t = <<c, issued[c] + 1>>
      BY <1>1, <1>3, <3>1 DEF IInv, TypeOK
    <3>2. CASE t # <<c, issued[c] + 1>>
      <4>1. loop'[t] = loop[t] /\ t[1] \in Codes /\ t[2] \in 1..Issues
        BY <1>1, <3>2, TicketParts DEF IInv, TypeOK
      <4>2. entry'[t[1]] # None \/ entry[t[1]] = None
        BY <1>1, <1>4, <4>1, NoneAssumption DEF IInv, TypeOK
      <4>3. loop[t].step = "parked" /\ t[1] = c => c \in overtaken'
        BY <1>1, <4>1, TicketParts DEF Polled
      <4>4. /\ loop[t].step = "parked" =>
                 entry[t[1]] # None /\ (t[1] \notin overtaken => t[2] = issued[t[1]])
            /\ loop[t].bot # None /\ t[1] \notin overtaken => IsOf(loop[t].bot, t)
        BY DEF IInv, HubsOK
      <4>5. t[1] \notin overtaken' => t[1] \notin overtaken
        BY <1>1
      <4>6. IsOf(loop[t].bot, t) => IsOf(loop[t].bot, t)'
        BY <1>1, <4>1 DEF IsOf
      <4>. QED BY <1>6, <4>1, <4>2, <4>3, <4>4, <4>5, <4>6
    <3>. QED BY <3>1, <3>2
  <2>3. ASSUME NEW k \in Active, call[k].code \notin overtaken', call[k].step # "find"
        PROVE  call[k].ticket = <<call[k].code, issued'[call[k].code]>>
    <3>1. call[k].code \in Codes
      BY DEF IInv, TypeOK, Active, Call
    <3>2. call[k].code # c
      BY <1>1, <2>3 DEF Redeemed
    <3>. QED BY <1>1, <1>6, <2>3, <3>1, <3>2 DEF IInv, HubsOK
  <2>4. Active' = Active /\ call' = call
    BY <1>1 DEF Active
  <2>. QED BY <2>1, <2>2, <2>3, <2>4 DEF HubsOK
<1>11. \A t \in Tickets : loop'[t] # loop[t] => t[1] = c
  BY <1>1, <1>3 DEF IInv, TypeOK
<1>. QED BY <1>5, <1>6, <1>7, <1>8, <1>9, <1>10, <1>11

\* A binding code is shown to a user.
LEMMA CreateBindingCodeKeeps ==
  ASSUME IInv, NEW c \in Codes, CreateBindingCode(c) PROVE IInv'
<1> DEFINE l == [NoLoop EXCEPT !.step = "top"]
<1>1. c \in BindCodes /\ c \notin ClaimCodes /\ Issue(c, l) /\ UNCHANGED op
  BY BindingAssumption DEF CreateBindingCode
<1>2. l \in Loop /\ l.bot = None /\ l.step = "top"
  BY DEF NoLoop, Loop
<1> HIDE DEF l
<1>3. op' \in [Ops -> Op \cup {None}]
  BY <1>1 DEF IInv, TypeOK
<1>4. /\ TypeOK' /\ CallsOK' /\ OneAtATime' /\ MadeOfIssued' /\ HubsOK'
      /\ \A t \in Tickets : loop'[t] # loop[t] => t[1] = c
      /\ \A d \in Codes \ {c} : issued'[d] = issued[d]
  BY <1>1, <1>2, <1>3, IssueKeeps
<1>5. UNCHANGED <<made, alive, call, config, twice, calm, op>>
  BY <1>1 DEF Issue
<1>6. OpsOK'
  BY <1>5 DEF IInv, OpsOK, CalledBy, Active
<1>7. calm' => Calm' /\ NoneLost'
  BY <1>1, <1>4, <1>5 DEF IInv, Calm, Alone, NoneLost, Reached, Active, Codes
<1>. QED BY <1>4, <1>6, <1>7 DEF IInv

\* An enroll gets its claim code.
LEMMA CreateClaimCodeKeeps ==
  ASSUME IInv, NEW o \in Ops, NEW c \in ClaimCodes, CreateClaimCode(o, c) PROVE IInv'
<1> DEFINE l == [step |-> "top", plugin |-> op[o].plugin, bot |-> None, aborted |-> op[o].aborted]
<1>1. /\ op[o] # None /\ op[o].step = "claim" /\ Issue(c, l) /\ c \in Codes
      /\ op' = [op EXCEPT ![o] = None] /\ op[o] \in Op
  BY DEF CreateClaimCode, Codes, IInv, TypeOK
<1>2. l \in Loop /\ l.bot = None /\ l.step = "top"
  BY <1>1 DEF Op, Loop
<1> HIDE DEF l
<1>3. op' \in [Ops -> Op \cup {None}]
  BY <1>1 DEF IInv, TypeOK
<1>4. TypeOK' /\ CallsOK' /\ OneAtATime' /\ MadeOfIssued' /\ HubsOK'
  BY <1>1, <1>2, <1>3, IssueKeeps
<1>5. UNCHANGED <<call, calm>>
  BY <1>1 DEF Issue
<1>6. OpsOK'
  BY <1>1, <1>5 DEF IInv, TypeOK, OpsOK, CalledBy, Active
<1>7. ~calm
  BY <1>1 DEF IInv, Calm, Alone
<1>. QED BY <1>4, <1>5, <1>6, <1>7 DEF IInv

\* A row is deleted, a code expires, a bot is unbound in the app.
LEMMA RowKeeps ==
  ASSUME IInv, row' \subseteq row, past' \subseteq Codes, alive' \subseteq alive,
         UNCHANGED <<issued, made, entry, call, gatewayVars, history>>
  PROVE  IInv'
<1>1. TypeOK'
  BY DEF IInv, TypeOK, gatewayVars, history
<1>2. CallsOK' /\ MadeOfIssued' /\ OpsOK'
  BY DEF IInv, CallsOK, CallOK, MadeOfIssued, OpsOK, CalledBy, Active, gatewayVars
<1>3. OneAtATime'
  BY DEF IInv, OneAtATime, Redeems, Active, history
<1>4. HubsOK'
  BY DEF IInv, HubsOK, EntryOK, IsOf, Active, gatewayVars, history
<1>5. calm' => Calm' /\ NoneLost'
  BY DEF IInv, Calm, Alone, NoneLost, Reached, Active, gatewayVars, history
<1>. QED BY <1>1, <1>2, <1>3, <1>4, <1>5 DEF IInv

-----------------------------------------------------------------------------
(* Waiting *)

\* The hubs and the polls alone change: what is told is of the ticket's issue.
LEMMA HubKeeps ==
  ASSUME IInv, UNCHANGED <<row, past, issued, made, alive, call, config, op, history>>,
         entry' \in [Codes -> Entry \cup {None}], loop' \in [Tickets -> Loop],
         \A c \in Codes : EntryOK(c)',
         \A t \in Tickets :
           /\ loop[t].step = "off" => loop'[t].step = "off"
           /\ loop'[t].step = "parked" =>
                entry'[t[1]] # None /\ (t[1] \notin overtaken => t[2] = issued[t[1]])
           /\ loop'[t].bot # None /\ t[1] \notin overtaken => IsOf(loop'[t].bot, t)
  PROVE  IInv'
<1>1. TypeOK'
  BY DEF IInv, TypeOK, history
<1>2. CallsOK' /\ MadeOfIssued' /\ OpsOK'
  BY DEF IInv, CallsOK, CallOK, MadeOfIssued, OpsOK, CalledBy, Active
<1>3. OneAtATime'
  BY DEF IInv, OneAtATime, Redeems, Active, history
<1>4. HubsOK'
  BY DEF IInv, HubsOK, IsOf, Active, history
<1>5. calm' => Calm' /\ NoneLost'
  BY DEF IInv, Calm, Alone, NoneLost, Reached, Active, history
<1>. QED BY <1>1, <1>2, <1>3, <1>4, <1>5 DEF IInv

\* One poll is answered, and the entry of its code may change.
LEMMA AnswerKeeps ==
  ASSUME IInv, UNCHANGED <<row, past, issued, made, alive, call, config, op, history>>,
         NEW t \in Tickets, loop[t].step # "off",
         NEW e \in Entry \cup {None}, entry' = [entry EXCEPT ![t[1]] = e],
         e = entry[t[1]] \/ (e # None /\ EntryOK(t[1])'),
         NEW step \in {"top", "parked", "got", "end"}, NEW b \in Bots \cup {None},
         Answer(t, step, b),
         step = "parked" => entry[t[1]] # None /\ t[2] = entry[t[1]].gen,
         b # None /\ t[1] \notin overtaken => IsOf(b, t)
  PROVE  IInv'
<1>1. t[1] \in Codes /\ entry \in [Codes -> Entry \cup {None}] /\ loop \in [Tickets -> Loop]
  BY TicketParts DEF IInv, TypeOK
<1>2. entry' \in [Codes -> Entry \cup {None}]
  BY <1>1
<1>3. /\ loop' \in [Tickets -> Loop] /\ loop'[t].step = step /\ loop'[t].bot = b
      /\ \A u \in Tickets \ {t} : loop'[u] = loop[u]
  <2> DEFINE new == [loop[t] EXCEPT !.step = step, !.bot = b]
  <2>1. new \in Loop /\ new.step = step /\ new.bot = b
    BY <1>1 DEF Loop
  <2>2. loop' = [loop EXCEPT ![t] = new]
    BY <1>1 DEF Answer
  <2> HIDE DEF new
  <2>. QED BY <1>1, <2>1, <2>2
<1>4. \A c \in Codes : EntryOK(c) /\ EntryOK(c)'
  BY <1>1 DEF IInv, HubsOK, EntryOK, IsOf, history
<1>5. entry[t[1]] # None => entry'[t[1]] # None /\ entry[t[1]].gen = issued[t[1]]
  BY <1>1, <1>4 DEF EntryOK
<1>6. \A c \in Codes : entry[c] # None => entry'[c] # None
  BY <1>1, <1>5
<1>7. ASSUME NEW u \in Tickets
      PROVE  /\ loop[u].step = "off" => loop'[u].step = "off"
             /\ loop'[u].step = "parked" =>
                  entry'[u[1]] # None /\ (u[1] \notin overtaken => u[2] = issued[u[1]])
             /\ loop'[u].bot # None /\ u[1] \notin overtaken => IsOf(loop'[u].bot, u)
  <2>1. CASE u = t
    BY <1>3, <1>5, <2>1
  <2>2. CASE u # t
    BY <1>3, <1>6, <2>2, TicketParts DEF IInv, HubsOK
  <2>. QED BY <2>1, <2>2
<1>. QED BY <1>2, <1>3, <1>4, <1>7, HubKeeps

\* The same, where the entry stays.
LEMMA ToldKeeps ==
  ASSUME IInv, UNCHANGED <<row, past, issued, made, alive, call, config, op, history, entry>>,
         NEW t \in Tickets, loop[t].step # "off",
         NEW step \in {"top", "got", "end"}, NEW b \in Bots \cup {None},
         Answer(t, step, b), b # None /\ t[1] \notin overtaken => IsOf(b, t)
  PROVE  IInv'
<1>1. t[1] \in Codes /\ entry[t[1]] \in Entry \cup {None} /\ entry' = [entry EXCEPT ![t[1]] = entry[t[1]]]
  BY TicketParts DEF IInv, TypeOK
<1>. QED BY <1>1, AnswerKeeps

\* An entry that settles none: its status and its waiters change.
LEMMA EntryChanges ==
  ASSUME IInv, UNCHANGED <<issued, made, overtaken>>, NEW c \in Codes, entry[c] # None,
         NEW e \in Entry, e.gen = entry[c].gen, e.bot = entry[c].bot,
         entry' = [entry EXCEPT ![c] = e], e.status = "bound" => entry[c].status = "bound"
  PROVE  EntryOK(c)'
  BY DEF IInv, TypeOK, HubsOK, EntryOK, IsOf

\* Every round of a poll, and every end of one.
LEMMA PollKeeps ==
  ASSUME IInv, NEW t \in Tickets,
         \/ PollInvalid(t) \/ PollBound(t) \/ PollExpired(t) \/ PollParks(t)
         \/ LeavePage(t) \/ StopEnroll(t)
  PROVE  IInv'
<1>1. /\ t[1] \in Codes /\ t[2] \in 1..Issues /\ loop[t] \in Loop /\ entry[t[1]] \in Entry \cup {None}
      /\ entry \in [Codes -> Entry \cup {None}] /\ loop[t].step = "top"
  BY TicketParts
     DEF IInv, TypeOK, PollInvalid, PollBound, PollExpired, PollParks, LeavePage, StopEnroll
<1>2. CASE PollInvalid(t) \/ LeavePage(t) \/ StopEnroll(t)
  <2>1. PICK s \in {"top", "end"} : Answer(t, s, None)
    BY <1>2 DEF PollInvalid, LeavePage, StopEnroll
  <2>. QED BY <1>1, <1>2, <2>1, ToldKeeps DEF PollInvalid, LeavePage, StopEnroll, serverVars
<1>3. CASE PollBound(t)
  <2>1. /\ entry[t[1]] # None /\ entry[t[1]].gen = t[2] /\ entry[t[1]].status = "bound"
        /\ Answer(t, "got", entry[t[1]].bot)
    BY <1>3 DEF PollBound, HasEntry
  <2>2. entry[t[1]].bot \in Bots \cup {None}
    BY <1>1, <2>1 DEF Entry
  <2>3. t[1] \notin overtaken => IsOf(entry[t[1]].bot, t)
    BY <1>1, <2>1, TicketParts DEF IInv, HubsOK, EntryOK
  <2>. QED BY <1>1, <1>3, <2>1, <2>2, <2>3, ToldKeeps DEF PollBound, serverVars
<1>4. CASE PollExpired(t)
  <2> DEFINE e == [entry[t[1]] EXCEPT !.status = "expired"]
  <2>1. /\ entry[t[1]] \in Entry /\ entry[t[1]] # None
        /\ GivesUp(t) \in {"top", "end"} /\ Answer(t, GivesUp(t), None)
        /\ entry' = [entry EXCEPT ![t[1]] = e]
    BY <1>1, <1>4 DEF PollExpired, HasEntry, GivesUp
  <2>2. e \in Entry /\ e.gen = entry[t[1]].gen /\ e.bot = entry[t[1]].bot /\ e.status = "expired"
    BY <2>1 DEF Entry, Statuses
  <2> HIDE DEF e
  <2>3. UNCHANGED <<row, past, issued, made, alive, call, config, op, history>>
    BY <1>4 DEF PollExpired
  <2>4. e # None /\ EntryOK(t[1])'
    BY <1>1, <2>1, <2>2, <2>3, EntryChanges, NoneAssumption DEF history
  <2>. QED BY <1>1, <2>1, <2>2, <2>3, <2>4, AnswerKeeps
<1>5. CASE PollParks(t)
  <2> DEFINE e == [entry[t[1]] EXCEPT !.waiters = @ \cup {t[2]}]
  <2>1. /\ entry[t[1]] \in Entry /\ entry[t[1]] # None /\ entry[t[1]].gen = t[2]
        /\ Answer(t, "parked", None) /\ entry' = [entry EXCEPT ![t[1]] = e]
    BY <1>1, <1>5 DEF PollParks, HasEntry
  <2>2. e \in Entry /\ e.gen = entry[t[1]].gen /\ e.bot = entry[t[1]].bot /\ e.status = entry[t[1]].status
    BY <1>1, <2>1 DEF Entry
  <2> HIDE DEF e
  <2>3. UNCHANGED <<row, past, issued, made, alive, call, config, op, history>>
    BY <1>5 DEF PollParks
  <2>4. e # None /\ EntryOK(t[1])'
    BY <1>1, <2>1, <2>2, <2>3, EntryChanges, NoneAssumption DEF history
  <2>. QED BY <1>1, <2>1, <2>2, <2>3, <2>4, AnswerKeeps
<1>. QED BY <1>2, <1>3, <1>4, <1>5

\* A parked request is answered by its timer or its close.
LEMMA ParkedKeeps ==
  ASSUME IInv, NEW t \in Tickets,
         ParkedTooLong(t) \/ CancelBindingWait(t) \/ CancelClaimWait(t)
  PROVE  IInv'
<1>1. /\ t[1] \in Codes /\ t[2] \in 1..Issues /\ loop[t].step = "parked"
      /\ entry[t[1]] \in Entry /\ entry[t[1]] # None
      /\ entry \in [Codes -> Entry \cup {None}]
      /\ t[1] \notin overtaken => t[2] = entry[t[1]].gen
      /\ UNCHANGED <<row, past, issued, made, alive, call, config, op, history>>
  BY TicketParts DEF IInv, TypeOK, HubsOK, EntryOK, ParkedTooLong, CancelBindingWait, CancelClaimWait
<1>2. PICK e \in Entry :
        /\ entry' = [entry EXCEPT ![t[1]] = e]
        /\ e.gen = entry[t[1]].gen /\ e.bot = entry[t[1]].bot
        /\ e.status = "bound" => entry[t[1]].status = "bound"
  <2>1. CASE ParkedTooLong(t)
    <3> DEFINE e == [entry[t[1]] EXCEPT !.waiters = @ \ {t[2]},
                                        !.status = IF @ # "bound" /\ IsOver(t) THEN "expired" ELSE @]
    <3>1. entry' = [entry EXCEPT ![t[1]] = e]
      BY <1>1, <2>1 DEF ParkedTooLong
    <3>2. /\ e \in Entry /\ e.gen = entry[t[1]].gen /\ e.bot = entry[t[1]].bot
          /\ e.status = "bound" => entry[t[1]].status = "bound"
      BY <1>1 DEF Entry, Statuses
    <3> HIDE DEF e
    <3>. QED BY <3>1, <3>2
  <2>2. CASE CancelBindingWait(t)
    <3> DEFINE e == [entry[t[1]] EXCEPT !.status = "cancelled", !.waiters = {}]
    <3>1. entry' = [entry EXCEPT ![t[1]] = e] \/ entry' = [entry EXCEPT ![t[1]] = entry[t[1]]]
      BY <1>1, <2>2 DEF CancelBindingWait
    <3>2. e \in Entry /\ e.gen = entry[t[1]].gen /\ e.bot = entry[t[1]].bot /\ e.status = "cancelled"
      BY <1>1 DEF Entry, Statuses
    <3> HIDE DEF e
    <3>. QED BY <1>1, <3>1, <3>2
  <2>3. CASE CancelClaimWait(t)
    <3> DEFINE e == [entry[t[1]] EXCEPT !.waiters = IF entry[t[1]].gen = t[2] THEN {} ELSE @]
    <3>1. entry' = [entry EXCEPT ![t[1]] = e]
      BY <1>1, <2>3 DEF CancelClaimWait
    <3>2. /\ e \in Entry /\ e.gen = entry[t[1]].gen /\ e.bot = entry[t[1]].bot
          /\ e.status = entry[t[1]].status
      BY <1>1 DEF Entry
    <3> HIDE DEF e
    <3>. QED BY <3>1, <3>2
  <2>. QED BY <2>1, <2>2, <2>3
<1>3. e # None /\ EntryOK(t[1])'
  BY <1>1, <1>2, EntryChanges, NoneAssumption DEF history
<1>4. PICK step \in {"top", "got", "end"}, b \in Bots \cup {None} :
        Answer(t, step, b) /\ (b # None /\ t[1] \notin overtaken => IsOf(b, t))
  <2>1. CASE ParkedTooLong(t) /\ entry[t[1]].status = "bound"
    <3>1. Answer(t, "got", entry[t[1]].bot) /\ entry[t[1]].bot \in Bots \cup {None}
      BY <1>1, <2>1 DEF ParkedTooLong, Entry
    <3>2. t[1] \notin overtaken => IsOf(entry[t[1]].bot, t)
      BY <1>1, <2>1, TicketParts DEF IInv, HubsOK, EntryOK
    <3>. QED BY <3>1, <3>2
  <2>2. CASE ~(ParkedTooLong(t) /\ entry[t[1]].status = "bound")
    BY <2>2 DEF ParkedTooLong, CancelBindingWait, CancelClaimWait, GivesUp
  <2>. QED BY <2>1, <2>2
<1>. QED BY <1>1, <1>2, <1>3, <1>4, AnswerKeeps

\* Whoever has got its answer makes use of it; an entry is cleaned up.
LEMMA DoneKeeps ==
  ASSUME IInv, NEW t \in Tickets, PageDone(t) PROVE IInv'
<1>1. loop[t] \in Loop /\ loop[t].step = "got" /\ loop' = [loop EXCEPT ![t].step = "end"]
  BY DEF IInv, TypeOK, PageDone
<1>2. Answer(t, "end", loop[t].bot) /\ loop[t].bot \in Bots \cup {None}
  <2>1. [loop[t] EXCEPT !.step = "end"] = [loop[t] EXCEPT !.step = "end", !.bot = loop[t].bot]
    BY <1>1 DEF Loop
  <2>2. loop' = [loop EXCEPT ![t] = [loop[t] EXCEPT !.step = "end"]]
    BY <1>1
  <2>. QED BY <1>1, <2>1, <2>2 DEF Answer, Loop
<1>3. loop[t].bot # None /\ t[1] \notin overtaken => IsOf(loop[t].bot, t)
  BY DEF IInv, HubsOK
<1>. QED BY <1>1, <1>2, <1>3, ToldKeeps DEF PageDone, serverVars

LEMMA CleanupKeeps == ASSUME IInv, NEW c \in Codes, Cleanup(c) PROVE IInv'
<1>1. /\ entry' = [entry EXCEPT ![c] = None] /\ ~Polled(c)
      /\ UNCHANGED <<row, past, issued, made, alive, call, gatewayVars, history>>
  BY DEF Cleanup
<1>2. /\ entry' \in [Codes -> Entry \cup {None}] /\ loop' = loop /\ loop' \in [Tickets -> Loop]
      /\ entry \in [Codes -> Entry \cup {None}]
  BY <1>1 DEF IInv, TypeOK, gatewayVars
<1>3. \A d \in Codes : EntryOK(d)'
  BY <1>1, <1>2 DEF IInv, HubsOK, EntryOK, IsOf, history
<1>4. \A t \in Tickets : loop[t].step = "parked" => t[1] # c
  BY <1>1, TicketParts DEF Polled
<1>5. \A t \in Tickets :
        /\ loop'[t].step = "parked" =>
             entry'[t[1]] # None /\ (t[1] \notin overtaken => t[2] = issued[t[1]])
        /\ loop'[t].bot # None /\ t[1] \notin overtaken => IsOf(loop'[t].bot, t)
  BY <1>1, <1>2, <1>4, TicketParts DEF IInv, HubsOK
<1>. QED BY <1>1, <1>2, <1>3, <1>5, HubKeeps DEF gatewayVars

-----------------------------------------------------------------------------
(* Redeeming *)

\* A call comes: it has found nothing yet.
LEMMA StartKeeps ==
  ASSUME IInv, NEW k \in Calls, NEW c \in Codes, NEW o \in Ops \cup {None}, StartCall(k, c, o),
         UNCHANGED <<row, issued, made, entry, loop, twice, overtaken>>
  PROVE  /\ call' \in [Calls -> Call \cup {None}] /\ call[k] = None
         /\ call'[k].by = o /\ call'[k].code = c
         /\ \A j \in Calls \ {k} : call'[j] = call[j]
         /\ Active' = Active \cup {k} /\ \A b \in Bots : ~(call'[k].bot = b)
         /\ CallsOK' /\ OneAtATime' /\ MadeOfIssued' /\ HubsOK'
<1> DEFINE new == [step |-> "find", ticket |-> None, code |-> c, bot |-> None, by |-> o]
<1>1. call[k] = None /\ call' = [call EXCEPT ![k] = new] /\ call \in [Calls -> Call \cup {None}]
  BY DEF StartCall, Free, IInv, TypeOK
<1>2. new \in Call /\ new.step = "find" /\ new.code = c /\ new.bot = None /\ new.by = o
  BY DEF Call
<1> HIDE DEF new
<1>3. call' \in [Calls -> Call \cup {None}] /\ call'[k] = new /\ \A j \in Calls \ {k} : call'[j] = call[j]
  BY <1>1, <1>2
<1>4. Active' = Active \cup {k} /\ k \notin Active
  BY <1>1, <1>2, <1>3, NoneAssumption DEF Active
<1>5. CallsOK'
  BY <1>2, <1>3, <1>4 DEF IInv, CallsOK, CallOK, Active
<1>6. \A j \in Calls, t \in Tickets : Redeems(j, t)' = Redeems(j, t)
  BY <1>2, <1>3, <1>4 DEF Redeems
<1>7. OneAtATime'
  <2>1. \A j \in Active : call'[j] = call[j]
    BY <1>3, <1>4 DEF Active
  <2>. QED BY <1>2, <1>3, <1>4, <1>6, <2>1 DEF IInv, OneAtATime
<1>8. MadeOfIssued'
  BY DEF IInv, MadeOfIssued
<1>9. HubsOK'
  <2>1. \A c1 \in Codes : EntryOK(c1)'
    BY DEF IInv, HubsOK, EntryOK, IsOf
  <2>2. \A j \in Active' : call'[j].code \notin overtaken' /\ call'[j].step # "find" =>
          call'[j].ticket = <<call'[j].code, issued'[call'[j].code]>>
    BY <1>2, <1>3, <1>4 DEF IInv, HubsOK, Active
  <2>. QED BY <2>1, <2>2 DEF IInv, HubsOK, IsOf
<1>10. \A b \in Bots : b # None
  BY BindingAssumption
<1>. QED BY <1>1, <1>2, <1>3, <1>4, <1>5, <1>7, <1>8, <1>9, <1>10

\* The claim page is opened.
LEMMA ClaimKeeps == ASSUME IInv, NEW k \in Calls, NEW c \in ClaimCodes, Claim(k, c) PROVE IInv'
<1>1. /\ StartCall(k, c, None) /\ issued[c] > 0 /\ c \in Codes
      /\ UNCHANGED <<row, past, issued, made, alive, entry, gatewayVars, history>>
  BY DEF Claim, Codes
<1>2. /\ call' \in [Calls -> Call \cup {None}] /\ call[k] = None /\ call'[k].by = None
      /\ \A j \in Calls \ {k} : call'[j] = call[j]
      /\ Active' = Active \cup {k}
      /\ CallsOK' /\ OneAtATime' /\ MadeOfIssued' /\ HubsOK'
  BY <1>1, StartKeeps DEF gatewayVars, history
<1>3. TypeOK'
  BY <1>1, <1>2 DEF IInv, TypeOK, gatewayVars, history
<1>4. \A j \in Calls, o \in Ops : CalledBy(j, o)' => CalledBy(j, o)
  BY <1>2, BindingAssumption DEF CalledBy
<1>5. OpsOK'
  BY <1>1, <1>4 DEF IInv, OpsOK, gatewayVars
<1>6. ~calm'
  <2>1. calm => issued[c] = 0
    BY DEF IInv, Calm
  <2>. QED BY <1>1, <2>1 DEF history
<1>. QED BY <1>2, <1>3, <1>5, <1>6 DEF IInv

\* A gateway asks the server.
LEMMA AskServerKeeps ==
  ASSUME IInv, NEW o \in Ops, NEW k \in Calls, AskServer(o, k) PROVE IInv'
<1>1. /\ op[o] # None /\ op[o].step = "ask" /\ op[o] \in Op /\ op[o].code \in BindCodes
      /\ op[o].bot = None
      /\ StartCall(k, op[o].code, o) /\ op' = [op EXCEPT ![o].step = "await"]
      /\ UNCHANGED <<row, past, issued, made, alive, entry, config, loop, history>>
      /\ op \in [Ops -> Op \cup {None}]
  BY DEF AskServer, At, IInv, TypeOK, OpsOK
<1>2. /\ call' \in [Calls -> Call \cup {None}] /\ call[k] = None
      /\ call'[k].by = o /\ call'[k].code = op[o].code
      /\ \A j \in Calls \ {k} : call'[j] = call[j]
      /\ Active' = Active \cup {k}
      /\ CallsOK' /\ OneAtATime' /\ MadeOfIssued' /\ HubsOK'
  BY <1>1, StartKeeps DEF history, Codes
<1> DEFINE new == [op[o] EXCEPT !.step = "await"]
<1>3. /\ new \in Op /\ new.step = "await" /\ new.plugin = op[o].plugin /\ new.bot = None
      /\ new.code = op[o].code
  BY <1>1 DEF Op
<1>4. op' = [op EXCEPT ![o] = new]
  BY <1>1
<1> HIDE DEF new
<1>5. /\ op' \in [Ops -> Op \cup {None}] /\ op'[o] = new /\ new # None
      /\ \A q \in Ops \ {o} : op'[q] = op[q]
  BY <1>1, <1>3, <1>4, NoneAssumption
<1>6. TypeOK'
  BY <1>1, <1>2, <1>5 DEF IInv, TypeOK, history
<1>7. \A j \in Calls, q \in Ops : CalledBy(j, q)' => (CalledBy(j, q) /\ j # k /\ q # o) \/ (j = k /\ q = o)
  <2>1. \A j \in Calls : ~CalledBy(j, o)
    BY <1>1 DEF IInv, OpsOK
  <2>. QED BY <1>2, <2>1 DEF CalledBy, Active
<1>8. OpsOK'
  <2>1. \A j, m \in Calls, q \in Ops : (CalledBy(j, q) /\ CalledBy(m, q))' => j = m
    BY <1>7 DEF IInv, OpsOK
  <2>2. \A j \in Calls, q \in Ops : CalledBy(j, q)' => op'[q] # None /\ op'[q].step = "await"
    BY <1>3, <1>5, <1>7 DEF IInv, OpsOK
  <2>. QED BY <1>1, <1>3, <1>5, <2>1, <2>2 DEF IInv, OpsOK
<1>9. ASSUME calm' PROVE Calm' /\ NoneLost'
  <2>1. Calm /\ NoneLost /\ calm
    BY <1>1, <1>9 DEF IInv, history
  <2>2. Alone(o) /\ config' = config
    BY <1>1, <2>1 DEF Calm
  <2>3. ASSUME NEW q \in Ops, op'[q] # None
        PROVE  Alone(q)' /\ op'[q].bot \in DOMAIN made' \cup {None}
    BY <1>1, <1>3, <1>5, <2>1, <2>2, <2>3 DEF Calm, Alone
  <2>4. \A j \in Active' : call'[j].code \in BindCodes
    BY <1>1, <1>2, <2>1 DEF Calm, Active
  <2>5. Calm'
    BY <1>1, <2>1, <2>3, <2>4 DEF Calm
  <2>6. ASSUME NEW b \in alive PROVE Reached(b)'
    <3>1. b # None
      BY MadeIsSeq, BindingAssumption DEF IInv, TypeOK
    <3>2. \A j \in Active : j \in Active' /\ call'[j] = call[j]
      BY <1>2 DEF Active
    <3>3. \A q \in Ops : op[q] # None /\ op[q].bot = b => op'[q] = op[q]
      BY <1>1, <1>5, <3>1
    <3>. QED BY <1>1, <2>1, <3>2, <3>3 DEF NoneLost, Reached
  <2>. QED BY <1>1, <2>5, <2>6 DEF NoneLost
<1>. QED BY <1>2, <1>6, <1>8, <1>9 DEF IInv

\* A call is replied to: it is gone, and the RPC that awaits it has its bot or
\* has failed.
LEMMA ReplyKeeps ==
  ASSUME IInv, NEW k \in Active, NEW b \in Bots \cup {None}, Reply(k, b)
  PROVE  /\ call' \in [Calls -> Call \cup {None}] /\ op' \in [Ops -> Op \cup {None}]
         /\ call'[k] = None /\ \A j \in Calls \ {k} : call'[j] = call[j]
         /\ OpsOK'
         /\ \A o \in Ops : ~CalledBy(k, o) => op'[o] = op[o]
         /\ \A o \in Ops : CalledBy(k, o) =>
              IF b = None THEN op'[o] = None
              ELSE /\ op'[o] # None /\ op'[o].plugin = op[o].plugin
                   /\ op'[o].step = "save" /\ op'[o].bot = b
<1>1. /\ call \in [Calls -> Call \cup {None}] /\ op \in [Ops -> Op \cup {None}]
      /\ k \in Calls /\ call[k] \in Call /\ call[k].by \in Ops \cup {None}
      /\ call' = [call EXCEPT ![k] = None] /\ None \notin Ops
  BY BindingAssumption DEF IInv, TypeOK, Active, Reply, Call
<1>2. /\ call' \in [Calls -> Call \cup {None}]
      /\ call'[k] = None /\ \A j \in Calls \ {k} : call'[j] = call[j]
  BY <1>1
<1>3. CASE call[k].by = None
  <2>1. op' = op /\ \A o \in Ops : ~CalledBy(k, o)
    BY <1>1, <1>3 DEF Reply, CalledBy
  <2>2. \A j \in Calls, o \in Ops : CalledBy(j, o)' => CalledBy(j, o)
    BY <1>2 DEF CalledBy, Active
  <2>3. OpsOK'
    BY <2>1, <2>2 DEF IInv, OpsOK
  <2>. QED BY <1>1, <1>2, <2>1, <2>3
<1>4. CASE call[k].by # None
  <2> DEFINE o == call[k].by
  <2>1. o \in Ops /\ CalledBy(k, o) /\ \A q \in Ops : CalledBy(k, q) => q = o
    BY <1>1, <1>4 DEF CalledBy
  <2>2. op[o] # None /\ op[o] \in Op
    BY <1>1, <2>1 DEF IInv, OpsOK
  <2> DEFINE new == IF b = None THEN None ELSE [op[o] EXCEPT !.step = "save", !.bot = b]
  <2>3. op' = [op EXCEPT ![o] = new]
    BY <1>1, <1>4 DEF Reply
  <2>4. [op[o] EXCEPT !.step = "save", !.bot = b] \in Op
    BY <2>2 DEF Op
  <2>5. /\ new \in Op \cup {None} /\ (b = None => new = None)
        /\ b # None => /\ new # None /\ new.plugin = op[o].plugin /\ new.step = "save"
                       /\ new.bot = b /\ new.code = op[o].code
    BY <2>2, <2>4, NoneAssumption DEF Op
  <2> HIDE DEF new, o
  <2>6. /\ op' \in [Ops -> Op \cup {None}] /\ op'[o] = new
        /\ \A q \in Ops \ {o} : op'[q] = op[q]
    BY <1>1, <2>1, <2>3, <2>5
  <2>7. \A j \in Calls, q \in Ops : CalledBy(j, q)' => CalledBy(j, q) /\ q # o
    BY <1>1, <1>2, <2>1 DEF IInv, OpsOK, CalledBy, Active
  <2>8. OpsOK'
    <3>1. \A j \in Calls, q \in Ops : CalledBy(j, q)' => op'[q] # None /\ op'[q].step = "await"
      BY <2>6, <2>7 DEF IInv, OpsOK
    <3>2. \A j, m \in Calls, q \in Ops : (CalledBy(j, q) /\ CalledBy(m, q))' => j = m
      BY <2>7 DEF IInv, OpsOK
    <3>3. ASSUME NEW q \in Ops, op'[q] # None
          PROVE  /\ op'[q].code \in BindCodes \cup {None}
                 /\ op'[q].step \in {"ask", "await"} => op'[q].bot = None /\ op'[q].code # None
      BY <2>1, <2>2, <2>5, <2>6, <3>3 DEF IInv, OpsOK
    <3>. QED BY <3>1, <3>2, <3>3 DEF OpsOK
  <2>. QED BY <1>2, <2>1, <2>5, <2>6, <2>8
<1>. QED BY <1>3, <1>4

\* In a calm run the reply hands the bot on.
LEMMA ReplyCalm ==
  ASSUME IInv, calm, NEW k \in Active, NEW b \in Bots \cup {None}, Reply(k, b),
         UNCHANGED <<alive, config, issued, made>>,
         \A t \in Tickets : loop[t].step = "off" => loop'[t].step = "off",
         call[k].bot = b, b = None \/ (call[k].by # None /\ b \in DOMAIN made)
  PROVE  Calm' /\ NoneLost'
<1>1. /\ call'[k] = None /\ \A j \in Calls \ {k} : call'[j] = call[j]
      /\ \A o \in Ops : ~CalledBy(k, o) => op'[o] = op[o]
      /\ \A o \in Ops : CalledBy(k, o) =>
           IF b = None THEN op'[o] = None
           ELSE /\ op'[o] # None /\ op'[o].plugin = op[o].plugin
                /\ op'[o].step = "save" /\ op'[o].bot = b
  BY ReplyKeeps
<1>2. Calm /\ NoneLost
  BY DEF IInv
<1>3. \A o \in Ops : CalledBy(k, o) => op[o] # None /\ op[o].step = "await" /\ op[o].bot = None
  <2>1. k \in Calls
    BY DEF Active
  <2>. QED BY <2>1 DEF IInv, OpsOK
<1>4. Active' \subseteq Active /\ \A j \in Active \ {k} : j \in Active' /\ call'[j] = call[j]
  BY <1>1 DEF Active
<1>5. ASSUME NEW o \in Ops, op'[o] # None
      PROVE  Alone(o)' /\ op'[o].bot \in DOMAIN made \cup {None}
  <2>1. op[o] # None /\ Alone(o) /\ op'[o].plugin = op[o].plugin /\ op[o].bot \in DOMAIN made \cup {None}
    BY <1>1, <1>2, <1>3, <1>5 DEF Calm
  <2>2. \A q \in Ops \ {o} : op'[q] = None \/ op'[q].plugin # op[o].plugin
    BY <1>1, <1>3, <2>1 DEF Alone
  <2>3. CASE CalledBy(k, o)
    <3>1. config[op[o].plugin] = None
      BY <1>3, <2>1, <2>3 DEF Alone
    <3>2. b # None /\ op'[o].step = "save" /\ op'[o].bot = b
      BY <1>1, <1>5, <2>3
    <3>. QED BY <2>1, <2>2, <3>1, <3>2 DEF Alone
  <2>4. CASE ~CalledBy(k, o)
    <3>1. op'[o] = op[o]
      BY <1>1, <2>4
    <3>. QED BY <2>1, <2>2, <3>1 DEF Alone
  <2>. QED BY <2>3, <2>4
<1>6. Calm'
  <2>1. \A j \in Active' : call'[j].code \in BindCodes
    BY <1>1, <1>2, <1>4 DEF Calm, Active
  <2>. QED BY <1>2, <1>5, <2>1 DEF Calm
<1>7. ASSUME NEW d \in alive PROVE Reached(d)'
  <2>1. d # None
    BY MadeIsSeq, BindingAssumption DEF IInv, TypeOK
  <2>2. Reached(d)
    BY <1>2 DEF NoneLost
  <2>3. ASSUME b = d PROVE Reached(d)'
    <3>1. call[k].by \in Ops /\ CalledBy(k, call[k].by)
      BY <2>1, <2>3 DEF IInv, TypeOK, CalledBy, Active, Call
    <3>. QED BY <1>1, <2>1, <2>3, <3>1 DEF Reached
  <2>4. \A o \in Ops : op[o] # None /\ op[o].bot = d => op'[o] = op[o]
    BY <1>1, <1>3, <2>1
  <2>. QED BY <1>4, <2>2, <2>3, <2>4 DEF Reached
<1>. QED BY <1>6, <1>7 DEF NoneLost

\* A call that is gone, and was not the one to delete the code.
LEMMA CallGone ==
  ASSUME IInv, NEW k \in Active, call[k].step # "delete",
         call'[k] = None, \A j \in Calls \ {k} : call'[j] = call[j],
         row' \subseteq row, UNCHANGED <<issued, made, twice>>
  PROVE  CallsOK' /\ OneAtATime' /\ MadeOfIssued' /\ Active' \subseteq Active \ {k}
<1>1. Active' = Active \ {k} /\ \A j \in Active' : call'[j] = call[j]
  BY DEF Active
<1>2. \A j \in Calls, t \in Tickets : Redeems(j, t)' => Redeems(j, t)
  BY <1>1 DEF Redeems
<1>3. OneAtATime'
  BY <1>1, <1>2 DEF IInv, OneAtATime
<1>. QED BY <1>1, <1>3 DEF IInv, CallsOK, CallOK, MadeOfIssued

\* The hubs' invariant where no entry and no poll changes.
LEMMA FoundKeeps ==
  ASSUME IInv, UNCHANGED <<issued, entry, loop, overtaken>>,
         \A b \in DOMAIN made : b \in DOMAIN made' /\ made'[b] = made[b],
         \A k \in Active' :
           call'[k].code \notin overtaken /\ call'[k].step # "find" =>
             call'[k].ticket = <<call'[k].code, issued[call'[k].code]>>
  PROVE  HubsOK'
<1>1. \A c \in Codes : EntryOK(c)'
  BY DEF IInv, HubsOK, EntryOK, IsOf
<1>2. ASSUME NEW t \in Tickets
      PROVE  /\ loop[t].step = "parked" =>
                  entry[t[1]] # None /\ (t[1] \notin overtaken => t[2] = issued[t[1]])
             /\ loop[t].bot # None /\ t[1] \notin overtaken => IsOf(loop[t].bot, t)'
  BY DEF IInv, HubsOK, IsOf
<1>. QED BY <1>1, <1>2 DEF HubsOK

\* A call goes on to a step of its own.
LEMMA StepsTo ==
  ASSUME IInv, NEW k \in Active, NEW new \in Call, call' = [call EXCEPT ![k] = new]
  PROVE  /\ call' \in [Calls -> Call \cup {None}] /\ call'[k] = new
         /\ \A j \in Calls \ {k} : call'[j] = call[j]
         /\ Active' = Active
  BY NoneAssumption DEF IInv, TypeOK, Active

\* What calm is about stays, while a call goes on with its code, its RPC and its
\* bot.
LEMMA GoingOnKeeps ==
  ASSUME IInv, Active' = Active, UNCHANGED <<alive, config, op, issued, made, loop, calm>>,
         \A k \in Active : /\ call'[k].code = call[k].code /\ call'[k].by = call[k].by
                           /\ call'[k].bot = call[k].bot
  PROVE  OpsOK' /\ (calm' => Calm' /\ NoneLost')
<1>1. \A k \in Calls, o \in Ops : CalledBy(k, o)' = CalledBy(k, o)
  BY DEF CalledBy
<1>2. OpsOK'
  BY <1>1 DEF IInv, OpsOK
<1>3. calm' => Calm'
  BY DEF IInv, Calm, Alone
<1>4. calm' => NoneLost'
  BY DEF IInv, NoneLost, Reached
<1>. QED BY <1>2, <1>3, <1>4

\* The code is looked up.
LEMMA FindKeeps == ASSUME IInv, NEW k \in Calls, Find(k) PROVE IInv'
<1> DEFINE c == call[k].code
           t == <<c, issued[c]>>
<1>1. /\ call[k] # None /\ call[k].step = "find" /\ k \in Active /\ call[k] \in Call /\ c \in Codes
      /\ call[k].bot = None
      /\ UNCHANGED <<row, past, issued, made, alive, entry, config, loop, overtaken, calm>>
  BY DEF Find, IInv, TypeOK, Active, Call, CallsOK, CallOK
<1>2. CASE c \notin row
  <2>1. Reply(k, None) /\ UNCHANGED twice
    BY <1>2 DEF Find
  <2>2. /\ call' \in [Calls -> Call \cup {None}] /\ op' \in [Ops -> Op \cup {None}]
        /\ call'[k] = None /\ \A j \in Calls \ {k} : call'[j] = call[j]
        /\ OpsOK'
    BY <1>1, <2>1, ReplyKeeps
  <2>3. CallsOK' /\ OneAtATime' /\ MadeOfIssued' /\ Active' \subseteq Active \ {k}
    BY <1>1, <2>1, <2>2, CallGone
  <2>4. HubsOK'
    <3>1. \A j \in Active' : j \in Active /\ call'[j] = call[j]
      BY <2>2, <2>3 DEF Active
    <3>2. \A j \in Active' :
             call'[j].code \notin overtaken /\ call'[j].step # "find" =>
               call'[j].ticket = <<call'[j].code, issued[call'[j].code]>>
      BY <3>1 DEF IInv, HubsOK
    <3>. QED BY <1>1, <3>2, FoundKeeps
  <2>5. TypeOK'
    BY <1>1, <2>1, <2>2 DEF IInv, TypeOK
  <2>6. calm' => Calm' /\ NoneLost'
    BY <1>1, <2>1, ReplyCalm
  <2>. QED BY <2>2, <2>3, <2>4, <2>5, <2>6 DEF IInv
<1>3. CASE c \in row
  <2> DEFINE new == [call[k] EXCEPT !.step = IF c \in past THEN "drop" ELSE "create", !.ticket = t]
  <2>1. /\ call' = [call EXCEPT ![k] = new]
        /\ twice' = IF c \notin past /\ \E j \in Active \ {k} : call[j].ticket = t
                    THEN twice \cup {t} ELSE twice
        /\ UNCHANGED op
    BY <1>1, <1>3 DEF Find, IInv, TypeOK
  <2>2. t \in Tickets /\ issued[c] \in Nat
    <3>1. issued[c] \in 0..Issues /\ issued[c] > 0
      BY <1>1, <1>3 DEF IInv, TypeOK, MadeOfIssued
    <3>. QED BY <1>1, <3>1, TicketParts, BindingAssumption
  <2>3. /\ new \in Call /\ new.ticket = t /\ new.code = c /\ new.bot = None /\ new.by = call[k].by
        /\ new.step = IF c \in past THEN "drop" ELSE "create"
    BY <1>1, <2>2 DEF Call
  <2> HIDE DEF new
  <2>4. /\ call' \in [Calls -> Call \cup {None}] /\ call'[k] = new
        /\ \A j \in Calls \ {k} : call'[j] = call[j]
        /\ Active' = Active
    BY <1>1, <2>1, <2>3, StepsTo
  <2>5. TypeOK'
    BY <1>1, <2>1, <2>2, <2>4 DEF IInv, TypeOK
  <2>6. OpsOK' /\ (calm' => Calm' /\ NoneLost')
    <3>1. \A j \in Active : /\ call'[j].code = call[j].code /\ call'[j].by = call[j].by
                            /\ call'[j].bot = call[j].bot
      BY <1>1, <2>3, <2>4 DEF Active
    <3>. QED BY <1>1, <2>1, <2>4, <3>1, GoingOnKeeps
  <2>7. CallsOK'
    <3>1. CallOK(k)'
      BY <1>1, <2>2, <2>3, <2>4 DEF CallOK
    <3>2. ASSUME NEW j \in Active \ {k} PROVE CallOK(j)'
      BY <1>1, <2>4 DEF IInv, CallsOK, CallOK, Active
    <3>. QED BY <2>4, <3>1, <3>2 DEF CallsOK
  <2>8. HubsOK'
    <3>1. ASSUME NEW j \in Active, call'[j].code \notin overtaken, call'[j].step # "find"
          PROVE  call'[j].ticket = <<call'[j].code, issued[call'[j].code]>>
      <4>1. CASE j = k
        BY <2>3, <2>4, <4>1
      <4>2. CASE j # k
        BY <2>4, <3>1, <4>2 DEF IInv, HubsOK, Active
      <4>. QED BY <4>1, <4>2
    <3>. QED BY <1>1, <2>4, <3>1, FoundKeeps
  <2>9. MadeOfIssued'
    BY <1>1 DEF IInv, MadeOfIssued
  <2>10. OneAtATime'
    <3> SUFFICES ASSUME NEW u \in Tickets, u \notin twice'
                 PROVE  /\ \A i, j \in Calls : Redeems(i, u)' /\ Redeems(j, u)' => i = j
                        /\ \A j \in Active : call'[j].step = "create" /\ call'[j].ticket = u =>
                             \A b \in DOMAIN made : made[b] # u
                        /\ \A b \in DOMAIN made : made[b] = u =>
                             \/ \E j \in Active : call'[j].step = "delete" /\ call'[j].ticket = u
                             \/ u[1] \notin row \/ u[2] < issued[u[1]]
      BY <1>1, <2>4 DEF OneAtATime
    <3>1. /\ u \notin twice
          /\ \A i, j \in Calls : Redeems(i, u) /\ Redeems(j, u) => i = j
          /\ \A j \in Active : call[j].step = "create" /\ call[j].ticket = u =>
               \A b \in DOMAIN made : made[b] # u
          /\ \A b \in DOMAIN made : made[b] = u =>
               \/ \E j \in Active : call[j].step = "delete" /\ call[j].ticket = u
               \/ u[1] \notin row \/ u[2] < issued[u[1]]
      BY <2>1 DEF IInv, OneAtATime
    <3>2. u = t /\ c \notin past => \A j \in Active \ {k} : call[j].ticket # t
      BY <2>1
    <3>3. \A j \in Calls \ {k} : Redeems(j, u)' = Redeems(j, u)
      BY <2>4 DEF Redeems, Active
    <3>4. Redeems(k, u)' => u = t /\ c \notin past
      BY <2>3, <2>4 DEF Redeems
    <3>5. ASSUME NEW i \in Calls, NEW j \in Calls, Redeems(i, u)', Redeems(j, u)' PROVE i = j
      <4>1. CASE i # k /\ j # k
        BY <3>1, <3>3, <3>5, <4>1
      <4>2. CASE i = k \/ j = k
        BY <3>2, <3>3, <3>4, <3>5, <4>2 DEF Redeems
      <4>. QED BY <4>1, <4>2
    <3>6. ASSUME NEW j \in Active, call'[j].step = "create", call'[j].ticket = u,
                 NEW b \in DOMAIN made, made[b] = u
          PROVE  FALSE
      <4>1. CASE j # k
        BY <2>4, <3>1, <3>6, <4>1 DEF Active
      <4>2. CASE j = k
        <5>1. u = t /\ c \notin past
          BY <2>3, <2>4, <3>6, <4>2
        <5>2. u[1] = c /\ u[2] = issued[c]
          BY <5>1
        <5>3. \E i \in Active : call[i].step = "delete" /\ call[i].ticket = u
          BY <1>3, <2>2, <3>1, <3>6, <5>2
        <5>. QED BY <1>1, <3>2, <5>1, <5>3
      <4>. QED BY <4>1, <4>2
    <3>7. \A j \in Active : call[j].step = "delete" => call'[j] = call[j]
      BY <1>1, <2>4 DEF Active
    <3>. QED BY <3>1, <3>5, <3>6, <3>7
  <2>. QED BY <2>5, <2>6, <2>7, <2>8, <2>9, <2>10 DEF IInv
<1>. QED BY <1>2, <1>3

\* A call that fails, before there is a bot.
LEMMA FailsKeeps ==
  ASSUME IInv, NEW k \in Active, call[k].step \in {"drop", "create"}, Reply(k, None),
         row' \subseteq row,
         UNCHANGED <<past, issued, made, alive, entry, config, loop, history>>
  PROVE  IInv'
<1>1. call[k].bot = None
  BY DEF IInv, CallsOK, CallOK
<1>2. /\ call' \in [Calls -> Call \cup {None}] /\ op' \in [Ops -> Op \cup {None}]
      /\ call'[k] = None /\ \A j \in Calls \ {k} : call'[j] = call[j]
      /\ OpsOK'
  BY ReplyKeeps
<1>3. CallsOK' /\ OneAtATime' /\ MadeOfIssued' /\ Active' \subseteq Active \ {k}
  BY <1>2, CallGone DEF history
<1>4. HubsOK'
  <2>1. \A j \in Active' : j \in Active /\ call'[j] = call[j]
    BY <1>2, <1>3 DEF Active
  <2>2. \A j \in Active' :
           call'[j].code \notin overtaken /\ call'[j].step # "find" =>
             call'[j].ticket = <<call'[j].code, issued[call'[j].code]>>
    BY <2>1 DEF IInv, HubsOK
  <2>. QED BY <2>2, FoundKeeps DEF history
<1>5. TypeOK'
  BY <1>2 DEF IInv, TypeOK, history
<1>6. calm' => Calm' /\ NoneLost'
  BY <1>1, ReplyCalm DEF history
<1>. QED BY <1>2, <1>3, <1>4, <1>5, <1>6 DEF IInv

LEMMA DropExpiredKeeps == ASSUME IInv, NEW k \in Calls, DropExpired(k) PROVE IInv'
  BY FailsKeeps DEF DropExpired, Active

\* The bot is made, or not.
LEMMA CreateBotKeeps == ASSUME IInv, NEW k \in Calls, CreateBot(k) PROVE IInv'
<1> DEFINE n == Len(made) + 1
           t == call[k].ticket
<1>1. /\ call[k] # None /\ call[k].step = "create" /\ k \in Active /\ call[k] \in Call
      /\ t \in Tickets /\ t[1] = call[k].code /\ t[2] <= issued[call[k].code] /\ call[k].bot = None
      /\ UNCHANGED <<row, past, issued, entry, config, loop, history>>
  BY DEF CreateBot, IInv, TypeOK, Active, CallsOK, CallOK
<1>2. CASE Reply(k, None) /\ UNCHANGED <<made, alive>>
  BY <1>1, <1>2, FailsKeeps
<1>3. CASE /\ Len(made) < MaxBots /\ made' = Append(made, t) /\ alive' = alive \cup {n}
           /\ call' = [call EXCEPT ![k].step = "delete", ![k].bot = n] /\ UNCHANGED op
  <2> DEFINE new == [call[k] EXCEPT !.step = "delete", !.bot = n]
  <2>1. /\ made' \in UNION {[1..m -> Tickets] : m \in 0..MaxBots}
        /\ DOMAIN made' = 1..n /\ n \in Bots /\ DOMAIN made = 1..Len(made) /\ Len(made) \in Nat
        /\ \A b \in DOMAIN made : made'[b] = made[b]
        /\ made'[n] = t
    BY <1>1, <1>3, MadeGrows, MadeIsSeq DEF IInv
  <2>2. call' = [call EXCEPT ![k] = new]
    BY <1>1, <1>3 DEF IInv, TypeOK
  <2>3. /\ new \in Call /\ new.ticket = t /\ new.code = call[k].code /\ new.bot = n
        /\ new.by = call[k].by /\ new.step = "delete"
    BY <1>1, <2>1 DEF Call
  <2> HIDE DEF new, n, t
  <2>4. DOMAIN made \subseteq DOMAIN made' /\ n \in DOMAIN made' /\ n \notin DOMAIN made
        /\ DOMAIN made' = DOMAIN made \cup {n}
    BY <2>1 DEF n
  <2>5. /\ call' \in [Calls -> Call \cup {None}] /\ call'[k] = new
        /\ \A j \in Calls \ {k} : call'[j] = call[j]
        /\ Active' = Active
    BY <1>1, <2>2, <2>3, StepsTo
  <2>6. TypeOK'
    BY <1>1, <1>3, <2>1, <2>4, <2>5 DEF IInv, TypeOK, history
  <2>7. OpsOK'
    <3>1. \A j \in Calls, o \in Ops : CalledBy(j, o)' = CalledBy(j, o)
      BY <2>3, <2>5 DEF CalledBy
    <3>. QED BY <1>3, <3>1 DEF IInv, OpsOK
  <2>8. CallsOK'
    <3>1. CallOK(k)'
      BY <1>1, <2>1, <2>3, <2>4, <2>5 DEF CallOK
    <3>2. ASSUME NEW j \in Active \ {k} PROVE CallOK(j)'
      BY <1>1, <2>1, <2>4, <2>5 DEF IInv, CallsOK, CallOK, Active
    <3>. QED BY <2>5, <3>1, <3>2 DEF CallsOK
  <2>9. MadeOfIssued'
    <3>1. ASSUME NEW b \in DOMAIN made' PROVE made'[b][2] <= issued[made'[b][1]]
      BY <1>1, <2>1, <2>4, <3>1 DEF IInv, MadeOfIssued
    <3>. QED BY <1>1, <3>1 DEF IInv, MadeOfIssued
  <2>10. HubsOK'
    <3>1. ASSUME NEW j \in Active, call'[j].code \notin overtaken, call'[j].step # "find"
          PROVE  call'[j].ticket = <<call'[j].code, issued[call'[j].code]>>
      BY <1>1, <2>3, <2>5, <3>1 DEF IInv, HubsOK, Active, t
    <3>. QED BY <1>1, <2>1, <2>4, <2>5, <3>1, FoundKeeps DEF history
  <2>11. OneAtATime'
    <3> SUFFICES ASSUME NEW u \in Tickets, u \notin twice
                 PROVE  /\ \A i, j \in Calls : Redeems(i, u)' /\ Redeems(j, u)' => i = j
                        /\ \A j \in Active : call'[j].step = "create" /\ call'[j].ticket = u =>
                             \A b \in DOMAIN made' : made'[b] # u
                        /\ \A b \in DOMAIN made' : made'[b] = u =>
                             \/ \E j \in Active : call'[j].step = "delete" /\ call'[j].ticket = u
                             \/ u[1] \notin row \/ u[2] < issued[u[1]]
      BY <1>1, <2>5 DEF OneAtATime, history
    <3>1. /\ \A i, j \in Calls : Redeems(i, u) /\ Redeems(j, u) => i = j
          /\ \A j \in Active : call[j].step = "create" /\ call[j].ticket = u =>
               \A b \in DOMAIN made : made[b] # u
          /\ \A b \in DOMAIN made : made[b] = u =>
               \/ \E j \in Active : call[j].step = "delete" /\ call[j].ticket = u
               \/ u[1] \notin row \/ u[2] < issued[u[1]]
      BY DEF IInv, OneAtATime
    <3>2. \A j \in Calls : Redeems(j, u)' = Redeems(j, u)
      BY <1>1, <2>3, <2>5 DEF Redeems, t
    <3>3. ASSUME NEW j \in Active, call'[j].step = "create", call'[j].ticket = u,
                 NEW b \in DOMAIN made', made'[b] = u
          PROVE  FALSE
      <4>1. j # k /\ call[j] = call'[j] /\ j \in Calls
        BY <2>3, <2>5, <3>3 DEF Active
      <4>2. u # t
        BY <1>1, <3>1, <3>3, <4>1 DEF Redeems, t, Active
      <4>. QED BY <2>1, <2>4, <3>1, <3>3, <4>1, <4>2
    <3>4. ASSUME NEW b \in DOMAIN made', made'[b] = u
          PROVE  \/ \E j \in Active : call'[j].step = "delete" /\ call'[j].ticket = u
                 \/ u[1] \notin row \/ u[2] < issued[u[1]]
      <4>1. CASE b = n
        BY <1>1, <2>1, <2>3, <2>5, <3>4, <4>1
      <4>2. CASE b \in DOMAIN made
        <5>1. \A j \in Active : call[j].step = "delete" => call'[j] = call[j]
          BY <1>1, <2>5 DEF Active
        <5>. QED BY <2>1, <3>1, <3>4, <4>2, <5>1
      <4>. QED BY <2>4, <4>1, <4>2
    <3>. QED BY <3>1, <3>2, <3>3, <3>4
  <2>12. ASSUME calm' PROVE Calm' /\ NoneLost'
    <3>1. Calm /\ NoneLost
      BY <1>1, <2>12 DEF IInv, history
    <3>2. \A j \in Active : call'[j].code = call[j].code /\ (call[j].bot # None => call'[j].bot = call[j].bot)
      BY <1>1, <2>3, <2>5 DEF Active
    <3>3. n # None
      BY <2>1, BindingAssumption
    <3>4. \A o \in Ops : op[o] # None => Alone(o)'
      BY <1>1, <1>3, <2>4, <3>1, <3>3 DEF Calm, Alone
    <3>5. Calm'
      BY <1>1, <1>3, <2>4, <2>5, <3>1, <3>2, <3>4 DEF Calm
    <3>6. ASSUME NEW b \in alive' PROVE Reached(b)'
      <4>1. CASE b = n
        BY <1>1, <2>3, <2>5, <4>1 DEF Reached
      <4>2. CASE b \in alive
        <5>1. b # None
          BY <4>2, MadeIsSeq, BindingAssumption DEF IInv, TypeOK
        <5>2. Reached(b)
          BY <3>1, <4>2 DEF NoneLost
        <5>3. \A j \in Active : call[j].bot = b => j \in Active' /\ call'[j].bot = b
          BY <2>5, <3>2, <5>1
        <5>. QED BY <1>1, <1>3, <5>2, <5>3 DEF Reached
      <4>. QED BY <1>3, <4>1, <4>2 DEF n
    <3>. QED BY <3>5, <3>6 DEF NoneLost
  <2>. QED BY <2>6, <2>7, <2>8, <2>9, <2>10, <2>11, <2>12 DEF IInv
<1>. QED BY <1>2, <1>3 DEF CreateBot

\* The code is deleted, or is left behind.
LEMMA DeleteCodeKeeps == ASSUME IInv, NEW k \in Calls, DeleteCode(k) PROVE IInv'
<1> DEFINE t == call[k].ticket
           new == [call[k] EXCEPT !.step = "mark"]
<1>1. /\ call[k] # None /\ call[k].step = "delete" /\ k \in Active /\ call[k] \in Call
      /\ t \in Tickets /\ t[1] = call[k].code /\ CallOK(k)
      /\ UNCHANGED <<past, issued, made, alive, entry, config, op, loop, overtaken, calm>>
      /\ row' \subseteq row /\ twice' \in {twice, twice \cup {t}}
      /\ t[1] \notin row' \/ t \in twice'
      /\ call' = [call EXCEPT ![k] = new]
  BY DEF DeleteCode, StepTo, IInv, TypeOK, Active, CallsOK, CallOK, gatewayVars
<1>2. /\ new \in Call /\ new.ticket = t /\ new.code = call[k].code /\ new.bot = call[k].bot
      /\ new.by = call[k].by /\ new.step = "mark"
  BY <1>1 DEF Call
<1> HIDE DEF new, t
<1>3. /\ call' \in [Calls -> Call \cup {None}] /\ call'[k] = new
      /\ \A j \in Calls \ {k} : call'[j] = call[j]
      /\ Active' = Active
  BY <1>1, <1>2, StepsTo
<1>4. TypeOK'
  BY <1>1, <1>3 DEF IInv, TypeOK
<1>5. OpsOK' /\ (calm' => Calm' /\ NoneLost')
  <2>1. \A j \in Active : /\ call'[j].code = call[j].code /\ call'[j].by = call[j].by
                          /\ call'[j].bot = call[j].bot
    BY <1>1, <1>2, <1>3 DEF Active
  <2>. QED BY <1>1, <1>3, <2>1, GoingOnKeeps
<1>6. CallsOK'
  <2>1. CallOK(k)'
    BY <1>1, <1>2, <1>3 DEF CallOK, t
  <2>2. ASSUME NEW j \in Active \ {k} PROVE CallOK(j)'
    BY <1>1, <1>3 DEF IInv, CallsOK, CallOK, Active
  <2>. QED BY <1>3, <2>1, <2>2 DEF CallsOK
<1>7. HubsOK'
  <2>1. ASSUME NEW j \in Active, call'[j].code \notin overtaken, call'[j].step # "find"
        PROVE  call'[j].ticket = <<call'[j].code, issued[call'[j].code]>>
    BY <1>1, <1>2, <1>3, <2>1 DEF IInv, HubsOK, Active, t
  <2>. QED BY <1>1, <1>3, <2>1, FoundKeeps
<1>8. MadeOfIssued'
  BY <1>1 DEF IInv, MadeOfIssued
<1>9. OneAtATime'
  <2> SUFFICES ASSUME NEW u \in Tickets, u \notin twice'
               PROVE  /\ \A i, j \in Calls : Redeems(i, u)' /\ Redeems(j, u)' => i = j
                      /\ \A j \in Active : call'[j].step = "create" /\ call'[j].ticket = u =>
                           \A b \in DOMAIN made : made[b] # u
                      /\ \A b \in DOMAIN made : made[b] = u =>
                           \/ \E j \in Active : call'[j].step = "delete" /\ call'[j].ticket = u
                           \/ u[1] \notin row' \/ u[2] < issued[u[1]]
    BY <1>1, <1>3 DEF OneAtATime
  <2>1. /\ \A i, j \in Calls : Redeems(i, u) /\ Redeems(j, u) => i = j
        /\ \A j \in Active : call[j].step = "create" /\ call[j].ticket = u =>
             \A b \in DOMAIN made : made[b] # u
        /\ \A b \in DOMAIN made : made[b] = u =>
             \/ \E j \in Active : call[j].step = "delete" /\ call[j].ticket = u
             \/ u[1] \notin row \/ u[2] < issued[u[1]]
    BY <1>1 DEF IInv, OneAtATime
  <2>2. \A j \in Calls : Redeems(j, u)' => Redeems(j, u)
    BY <1>2, <1>3 DEF Redeems
  <2>3. \A j \in Active : j # k => call'[j] = call[j]
    BY <1>3 DEF Active
  <2>4. ASSUME NEW b \in DOMAIN made, made[b] = u
        PROVE  \/ \E j \in Active : call'[j].step = "delete" /\ call'[j].ticket = u
               \/ u[1] \notin row' \/ u[2] < issued[u[1]]
    BY <1>1, <2>1, <2>3, <2>4 DEF t
  <2>. QED BY <1>2, <1>3, <2>1, <2>2, <2>3, <2>4
<1>. QED BY <1>4, <1>5, <1>6, <1>7, <1>8, <1>9 DEF IInv

\* The entry is marked, and whoever is parked on it answered.
LEMMA MarkKeeps == ASSUME IInv, NEW k \in Calls, Mark(k) PROVE IInv'
<1> DEFINE c == call[k].code
           b == call[k].bot
<1>1. /\ call[k] # None /\ call[k].step = "mark" /\ k \in Active /\ call[k] \in Call /\ c \in Codes
      /\ b \in DOMAIN made /\ b \in Bots /\ made[b] = call[k].ticket
      /\ Reply(k, b) /\ calm' = (calm /\ (c \in BindCodes => call[k].by # None))
      /\ UNCHANGED <<row, past, issued, made, alive, config, twice, overtaken>>
  BY MadeIsSeq DEF Mark, IInv, TypeOK, Active, CallsOK, CallOK, Call
<1>2. /\ call' \in [Calls -> Call \cup {None}] /\ op' \in [Ops -> Op \cup {None}]
      /\ call'[k] = None /\ \A j \in Calls \ {k} : call'[j] = call[j]
      /\ OpsOK'
  BY <1>1, ReplyKeeps
<1>3. CallsOK' /\ OneAtATime' /\ MadeOfIssued' /\ Active' \subseteq Active \ {k}
  BY <1>1, <1>2, CallGone
<1>4. c \notin overtaken => IsOf(b, <<c, issued[c]>>)
  BY <1>1 DEF IInv, HubsOK, IsOf
<1> HIDE DEF c, b
<1>5. /\ entry' \in [Codes -> Entry \cup {None}] /\ loop' \in [Tickets -> Loop]
      /\ \A d \in Codes : EntryOK(d)' /\ (entry[d] # None => entry'[d] # None)
      /\ \A t \in Tickets :
           \/ loop'[t] = loop[t]
           \/ /\ loop[t].step = "parked" /\ loop'[t].step = "got" /\ loop'[t].bot = b
              /\ t[1] = c
  <2>1. CASE UNCHANGED <<entry, loop>>
    BY <1>1, <2>1 DEF IInv, TypeOK, HubsOK, EntryOK, IsOf
  <2>2. CASE MayMark(c) /\ Settle(c, "bound", "got", b)
    <3> DEFINE e == [entry[c] EXCEPT !.status = "bound", !.bot = b, !.waiters = {}]
    <3>1. entry[c] \in Entry /\ entry[c] # None /\ entry[c].gen = issued[c]
      BY <1>1, <2>2 DEF MayMark, IInv, TypeOK, HubsOK, EntryOK
    <3>2. e \in Entry /\ e.gen = issued[c] /\ e.bot = b /\ e.status = "bound"
      BY <1>1, <3>1 DEF Entry, Statuses
    <3>3. entry' = [entry EXCEPT ![c] = e]
      BY <1>1, <2>2 DEF Settle, IInv, TypeOK
    <3> HIDE DEF e
    <3>4. /\ entry' \in [Codes -> Entry \cup {None}] /\ entry'[c] = e /\ e # None
          /\ \A d \in Codes \ {c} : entry'[d] = entry[d]
      BY <1>1, <3>2, <3>3, NoneAssumption DEF IInv, TypeOK
    <3>5. \A d \in Codes : EntryOK(d)' /\ (entry[d] # None => entry'[d] # None)
      BY <1>1, <1>4, <3>2, <3>4 DEF IInv, HubsOK, EntryOK, IsOf
    <3>6. \A t \in Tickets : loop[t] \in Loop
      BY DEF IInv, TypeOK
    <3>7. loop' = [t \in Tickets |->
                     IF t[1] = c /\ t[2] \in entry[c].waiters /\ loop[t].step = "parked"
                     THEN [loop[t] EXCEPT !.step = "got", !.bot = b] ELSE loop[t]]
      BY <2>2 DEF Settle, Settled
    <3>8. \A t \in Tickets : LET new == [loop[t] EXCEPT !.step = "got", !.bot = b]
                             IN  new \in Loop /\ new.step = "got" /\ new.bot = b
      BY <1>1, <3>6 DEF Loop
    <3>9. loop' \in [Tickets -> Loop]
      BY <3>6, <3>7, <3>8
    <3>10. \A t \in Tickets :
             \/ loop'[t] = loop[t]
             \/ /\ loop[t].step = "parked" /\ loop'[t].step = "got" /\ loop'[t].bot = b
                /\ t[1] = c
      BY <3>7, <3>8
    <3>. QED BY <3>4, <3>5, <3>9, <3>10
  <2>. QED BY <2>1, <2>2 DEF Mark, b, c
<1>6. HubsOK'
  <2>1. ASSUME NEW t \in Tickets
        PROVE  /\ loop'[t].step = "parked" =>
                    entry'[t[1]] # None /\ (t[1] \notin overtaken => t[2] = issued[t[1]])
               /\ loop'[t].bot # None /\ t[1] \notin overtaken => IsOf(loop'[t].bot, t)
    <3>1. /\ t[1] \in Codes /\ t = <<t[1], t[2]>>
          /\ loop[t].step = "parked" =>
               entry[t[1]] # None /\ (t[1] \notin overtaken => t[2] = issued[t[1]])
          /\ loop[t].bot # None /\ t[1] \notin overtaken => IsOf(loop[t].bot, t)
      BY TicketParts DEF IInv, HubsOK
    <3>2. CASE loop'[t] = loop[t]
      BY <1>5, <3>1, <3>2
    <3>3. CASE loop'[t] # loop[t]
      <4>1. loop[t].step = "parked" /\ loop'[t].step = "got" /\ loop'[t].bot = b /\ t[1] = c
        BY <1>5, <3>3
      <4>2. c \notin overtaken => t = <<c, issued[c]>>
        BY <3>1, <4>1
      <4>. QED BY <1>4, <4>1, <4>2
    <3>. QED BY <3>2, <3>3
  <2>2. \A j \in Active' :
           call'[j].code \notin overtaken /\ call'[j].step # "find" =>
             call'[j].ticket = <<call'[j].code, issued[call'[j].code]>>
    BY <1>2, <1>3 DEF IInv, HubsOK, Active
  <2>. QED BY <1>1, <1>5, <2>1, <2>2 DEF HubsOK, IsOf
<1>7. TypeOK'
  <2>1. calm' \in BOOLEAN
    BY <1>1
  <2>. QED BY <1>1, <1>2, <1>5, <2>1 DEF IInv, TypeOK
<1>8. ASSUME calm' PROVE Calm' /\ NoneLost'
  <2>1. calm /\ c \in BindCodes /\ call[k].by # None
    BY <1>1, <1>8 DEF IInv, Calm, c
  <2>2. \A t \in Tickets : loop[t].step = "off" => loop'[t].step = "off"
    BY <1>5
  <2>. QED BY <1>1, <2>1, <2>2, ReplyCalm DEF b
<1>. QED BY <1>2, <1>3, <1>6, <1>7, <1>8 DEF IInv

-----------------------------------------------------------------------------
(* The gateway *)

\* The gateways' side alone changes.
LEMMA GatewayKeeps ==
  ASSUME IInv, UNCHANGED <<row, past, issued, made, entry, call, loop, twice, overtaken>>,
         alive' \subseteq alive, config' \in [Plugins -> Bots \cup {None}],
         op' \in [Ops -> Op \cup {None}], calm' \in BOOLEAN, OpsOK',
         calm' => calm /\ Calm' /\ NoneLost'
  PROVE  IInv'
<1>1. TypeOK'
  BY DEF IInv, TypeOK
<1>2. CallsOK' /\ MadeOfIssued'
  BY DEF IInv, CallsOK, CallOK, MadeOfIssued, Active
<1>3. OneAtATime'
  BY DEF IInv, OneAtATime, Redeems, Active
<1>4. HubsOK'
  BY DEF IInv, HubsOK, EntryOK, IsOf, Active
<1>. QED BY <1>1, <1>2, <1>3, <1>4 DEF IInv

\* An RPC starts: in a calm run it is alone.
LEMMA StartOpKeeps ==
  ASSUME IInv, NEW o \in Ops, NEW p \in Plugins, NEW s \in {"ask", "unbind"},
         NEW c \in BindCodes \cup {None}, StartOp(o, p, s, c, config[p]),
         s = "ask" => c # None /\ config[p] = None,
         UNCHANGED <<serverVars, config, loop, twice, overtaken>>
  PROVE  IInv'
<1> DEFINE new == [plugin |-> p, step |-> s, code |-> c, bot |-> config[p], aborted |-> FALSE]
<1>1. /\ op[o] = None /\ op' = [op EXCEPT ![o] = new] /\ op \in [Ops -> Op \cup {None}]
      /\ config \in [Plugins -> Bots \cup {None}] /\ config[p] \in Bots \cup {None}
      /\ UNCHANGED <<row, past, issued, made, entry, call, loop, twice, overtaken, alive, config>>
  BY DEF StartOp, Free, IInv, TypeOK, serverVars
<1>2. /\ new \in Op /\ new.plugin = p /\ new.step = s /\ new.code = c /\ new.bot = config[p]
  BY <1>1 DEF Op, Codes
<1> HIDE DEF new
<1>3. /\ op' \in [Ops -> Op \cup {None}] /\ op'[o] = new /\ new # None
      /\ \A q \in Ops \ {o} : op'[q] = op[q]
  BY <1>1, <1>2, NoneAssumption
<1>4. OpsOK'
  <2>1. ASSUME NEW k \in Calls, NEW q \in Ops, CalledBy(k, q)'
        PROVE  op'[q] # None /\ op'[q].step = "await"
    <3>1. CalledBy(k, q) /\ op[q] # None /\ op[q].step = "await"
      BY <1>1, <2>1 DEF CalledBy, Active, IInv, OpsOK
    <3>. QED BY <1>1, <1>3, <3>1
  <2>2. \A j, k \in Calls, q \in Ops : CalledBy(j, q)' /\ CalledBy(k, q)' => j = k
    BY <1>1 DEF CalledBy, Active, IInv, OpsOK
  <2>3. ASSUME NEW q \in Ops, op'[q] # None
        PROVE  /\ op'[q].code \in BindCodes \cup {None}
               /\ op'[q].step \in {"ask", "await"} => op'[q].bot = None /\ op'[q].code # None
    BY <1>2, <1>3, <2>3 DEF IInv, OpsOK
  <2>. QED BY <2>1, <2>2, <2>3 DEF OpsOK
<1>5. calm' = (calm /\ \A q \in Ops : op[q] = None \/ op[q].plugin # p)
  BY DEF StartOp
<1>6. ASSUME calm' PROVE calm /\ Calm' /\ NoneLost'
  <2>1. Calm /\ NoneLost /\ calm /\ \A q \in Ops : op[q] = None \/ op[q].plugin # p
    BY <1>5, <1>6 DEF IInv
  <2>2. ASSUME NEW q \in Ops, op'[q] # None
        PROVE  Alone(q)' /\ op'[q].bot \in DOMAIN made \cup {None}
    <3>1. CASE q = o
      BY <1>1, <1>2, <1>3, <2>1, <3>1 DEF Alone, Calm
    <3>2. CASE q # o
      <4>1. op'[q] = op[q] /\ Alone(q) /\ op[q].bot \in DOMAIN made \cup {None} /\ op[q].plugin # p
        BY <1>3, <2>1, <2>2, <3>2 DEF Calm
      <4>. QED BY <1>1, <1>2, <1>3, <3>2, <4>1 DEF Alone
    <3>. QED BY <3>1, <3>2
  <2>3. Calm'
    BY <1>1, <2>1, <2>2 DEF Calm, Active
  <2>4. ASSUME NEW b \in alive PROVE Reached(b)'
    BY <1>1, <1>3, <2>1 DEF NoneLost, Reached, Active
  <2>. QED BY <1>1, <2>1, <2>3, <2>4 DEF NoneLost
<1>7. calm' \in BOOLEAN
  BY <1>5
<1>. QED BY <1>1, <1>3, <1>4, <1>6, <1>7, GatewayKeeps

LEMMA BindKeeps ==
  ASSUME IInv, NEW o \in Ops, NEW p \in Plugins, NEW c \in BindCodes, Bind(o, p, c)
  PROVE  IInv'
<1>1. c # None
  BY BindingAssumption DEF Codes
<1>2. CASE config[p] = None
  BY <1>1, <1>2, StartOpKeeps DEF Bind
<1>3. CASE config[p] # None
  BY <1>1, <1>3, StartOpKeeps DEF Bind
<1>. QED BY <1>2, <1>3

LEMMA UnbindKeeps ==
  ASSUME IInv, NEW o \in Ops, NEW p \in Plugins, Unbind(o, p) PROVE IInv'
  BY StartOpKeeps DEF Unbind

\* An RPC goes on to a step of its own, or ends; none of the calls is its.
LEMMA OpGoesOn ==
  ASSUME IInv, NEW o \in Ops, op[o] # None, op[o].step # "await",
         NEW new \in Op \cup {None}, op' = [op EXCEPT ![o] = new], UNCHANGED call,
         new # None => /\ new.code = op[o].code /\ new.step # "await"
                       /\ new.step = "ask" => new.bot = None /\ new.code # None
  PROVE  /\ op' \in [Ops -> Op \cup {None}] /\ op'[o] = new
         /\ \A q \in Ops \ {o} : op'[q] = op[q]
         /\ OpsOK'
<1>1. /\ op' \in [Ops -> Op \cup {None}] /\ op'[o] = new
      /\ \A q \in Ops \ {o} : op'[q] = op[q]
  BY DEF IInv, TypeOK
<1>2. ASSUME NEW k \in Calls, NEW q \in Ops, CalledBy(k, q)'
      PROVE  op'[q] # None /\ op'[q].step = "await"
  <2>1. CalledBy(k, q) /\ op[q] # None /\ op[q].step = "await"
    BY <1>2 DEF CalledBy, Active, IInv, OpsOK
  <2>. QED BY <1>1, <2>1
<1>3. \A j, k \in Calls, q \in Ops : CalledBy(j, q)' /\ CalledBy(k, q)' => j = k
  BY DEF CalledBy, Active, IInv, OpsOK
<1>4. ASSUME NEW q \in Ops, op'[q] # None
      PROVE  /\ op'[q].code \in BindCodes \cup {None}
             /\ op'[q].step \in {"ask", "await"} => op'[q].bot = None /\ op'[q].code # None
  BY <1>1, <1>4 DEF IInv, OpsOK
<1>. QED BY <1>1, <1>2, <1>3, <1>4 DEF OpsOK

\* The server has deleted the old bot, or not.
LEMMA UnbindOnServerKeeps == ASSUME IInv, NEW o \in Ops, UnbindOnServer(o) PROVE IInv'
<1>1. /\ op[o] # None /\ op[o].step = "unbind" /\ op[o] \in Op
      /\ alive' \in {alive, alive \ {op[o].bot}} /\ alive' \subseteq alive
      /\ op \in [Ops -> Op \cup {None}] /\ config \in [Plugins -> Bots \cup {None}]
      /\ UNCHANGED <<row, past, issued, made, entry, call, config, loop, twice, overtaken, calm>>
  BY DEF UnbindOnServer, At, IInv, TypeOK, history
<1> DEFINE new == [op[o] EXCEPT !.step = "clear"]
<1>2. /\ new \in Op /\ new.step = "clear" /\ new.bot = op[o].bot /\ new.plugin = op[o].plugin
      /\ new.code = op[o].code
  BY <1>1 DEF Op
<1> HIDE DEF new
<1>3. \/ op[o].bot \notin alive' /\ op' = [op EXCEPT ![o] = new]
      \/ op' = [op EXCEPT ![o] = None]
  BY <1>1 DEF UnbindOnServer, new
<1>4. PICK next \in {new, None} : /\ op' = [op EXCEPT ![o] = next]
                                  /\ next # None => op[o].bot \notin alive'
  BY <1>3
<1>5. /\ op' \in [Ops -> Op \cup {None}] /\ op'[o] = next
      /\ \A q \in Ops \ {o} : op'[q] = op[q]
      /\ OpsOK'
  BY <1>1, <1>2, <1>4, OpGoesOn
<1>6. ASSUME calm' PROVE calm /\ Calm' /\ NoneLost'
  <2>1. calm /\ Calm /\ NoneLost
    BY <1>1, <1>6 DEF IInv
  <2>2. ASSUME NEW q \in Ops, op'[q] # None
        PROVE  Alone(q)' /\ op'[q].bot \in DOMAIN made \cup {None}
    <3>1. CASE q = o
      BY <1>1, <1>2, <1>4, <1>5, <2>1, <2>2, <3>1 DEF Alone, Calm
    <3>2. CASE q # o
      BY <1>1, <1>2, <1>4, <1>5, <2>1, <2>2, <3>2 DEF Alone, Calm
    <3>. QED BY <3>1, <3>2
  <2>3. Calm'
    BY <1>1, <2>1, <2>2 DEF Calm, Active
  <2>4. config[op[o].plugin] = op[o].bot /\ op[o].plugin \in Plugins
    BY <1>1, <2>1 DEF Calm, Alone, Op
  <2>5. ASSUME NEW b \in alive' PROVE Reached(b)'
    <3>1. CASE b = op[o].bot
      BY <1>1, <2>4, <3>1 DEF Reached
    <3>2. CASE b # op[o].bot
      BY <1>1, <1>5, <2>1, <2>5, <3>2 DEF NoneLost, Reached, Active
    <3>. QED BY <3>1, <3>2
  <2>. QED BY <2>1, <2>3, <2>5 DEF NoneLost
<1>7. calm' \in BOOLEAN
  BY <1>1 DEF IInv, TypeOK
<1>. QED BY <1>1, <1>5, <1>6, <1>7, GatewayKeeps

\* The gateway forgets the old bot, which is gone.
LEMMA ClearConfigKeeps == ASSUME IInv, NEW o \in Ops, ClearConfig(o) PROVE IInv'
<1> DEFINE p == op[o].plugin
<1>1. /\ op[o] # None /\ op[o].step = "clear" /\ op[o] \in Op /\ p \in Plugins
      /\ config' = [config EXCEPT ![p] = None]
      /\ op \in [Ops -> Op \cup {None}] /\ config \in [Plugins -> Bots \cup {None}]
      /\ UNCHANGED <<row, past, issued, made, alive, entry, call, loop, twice, overtaken, calm>>
  BY DEF ClearConfig, At, IInv, TypeOK, history, serverVars, Op
<1> DEFINE new == [op[o] EXCEPT !.step = "ask", !.bot = None]
<1>2. /\ new \in Op /\ new.step = "ask" /\ new.bot = None /\ new.plugin = p
      /\ new.code = op[o].code
  BY <1>1 DEF Op
<1>3. op' = IF op[o].code = None THEN [op EXCEPT ![o] = None] ELSE [op EXCEPT ![o] = new]
  BY <1>1 DEF ClearConfig
<1> HIDE DEF new
<1>4. PICK next \in {new, None} : /\ op' = [op EXCEPT ![o] = next]
                                  /\ next = new => new = None \/ op[o].code # None
  BY <1>3
<1>5. new # None
  BY <1>2, NoneAssumption
<1>6. /\ op' \in [Ops -> Op \cup {None}] /\ op'[o] = next
      /\ \A q \in Ops \ {o} : op'[q] = op[q]
      /\ OpsOK'
  BY <1>1, <1>2, <1>4, <1>5, OpGoesOn
<1>7. config' \in [Plugins -> Bots \cup {None}] /\ config'[p] = None
      /\ \A r \in Plugins \ {p} : config'[r] = config[r]
  BY <1>1
<1>8. ASSUME calm' PROVE calm /\ Calm' /\ NoneLost'
  <2>1. calm /\ Calm /\ NoneLost /\ Alone(o)
    BY <1>1, <1>8 DEF IInv, Calm
  <2>2. ASSUME NEW q \in Ops, op'[q] # None
        PROVE  Alone(q)' /\ op'[q].bot \in DOMAIN made \cup {None}
    <3>1. CASE q = o
      BY <1>1, <1>2, <1>4, <1>6, <1>7, <2>1, <2>2, <3>1 DEF Alone, Calm
    <3>2. CASE q # o
      <4>1. op'[q] = op[q] /\ op[q].plugin # p /\ op[q] \in Op /\ Alone(q)
            /\ op[q].bot \in DOMAIN made \cup {None}
        BY <1>1, <1>6, <2>1, <2>2, <3>2 DEF Alone, Calm
      <4>2. op[q].plugin \in Plugins \ {p}
        BY <4>1 DEF Op
      <4>3. \A r \in Ops \ {q} : op'[r] = None \/ op'[r].plugin # op[q].plugin
        BY <1>2, <1>4, <1>6, <4>1, <4>2 DEF Alone
      <4>. QED BY <1>1, <1>7, <4>1, <4>2, <4>3 DEF Alone
    <3>. QED BY <3>1, <3>2
  <2>3. Calm'
    BY <1>1, <1>7, <2>1, <2>2 DEF Calm, Active
  <2>4. config[p] = op[o].bot /\ op[o].bot \notin alive
    BY <1>1, <2>1 DEF Alone
  <2>5. ASSUME NEW b \in alive PROVE Reached(b)'
    <3>1. b # op[o].bot
      BY <2>4, <2>5
    <3>. QED BY <1>1, <1>6, <1>7, <2>1, <2>4, <2>5, <3>1 DEF NoneLost, Reached, Active
  <2>. QED BY <1>1, <2>1, <2>3, <2>5 DEF NoneLost
<1>9. calm' \in BOOLEAN
  BY <1>1 DEF IInv, TypeOK
<1>. QED BY <1>1, <1>6, <1>7, <1>8, <1>9, GatewayKeeps

\* The gateway writes down the bot it was given.
LEMMA SaveConfigKeeps == ASSUME IInv, NEW o \in Ops, SaveConfig(o) PROVE IInv'
<1> DEFINE p == op[o].plugin
           b == op[o].bot
<1>1. /\ op[o] # None /\ op[o].step = "save" /\ op[o] \in Op /\ p \in Plugins
      /\ b \in Bots \cup {None}
      /\ config' = [config EXCEPT ![p] = b] /\ op' = [op EXCEPT ![o] = None]
      /\ op \in [Ops -> Op \cup {None}] /\ config \in [Plugins -> Bots \cup {None}]
      /\ UNCHANGED <<row, past, issued, made, alive, entry, call, loop, twice, overtaken, calm>>
  BY DEF SaveConfig, At, IInv, TypeOK, history, serverVars, Op
<1>2. /\ op' \in [Ops -> Op \cup {None}] /\ op'[o] = None
      /\ \A q \in Ops \ {o} : op'[q] = op[q]
      /\ OpsOK'
  BY <1>1, OpGoesOn
<1>3. /\ config' \in [Plugins -> Bots \cup {None}] /\ config'[p] = b
      /\ \A r \in Plugins \ {p} : config'[r] = config[r]
  BY <1>1
<1>4. ASSUME calm' PROVE calm /\ Calm' /\ NoneLost'
  <2>1. calm /\ Calm /\ NoneLost /\ Alone(o) /\ b \in DOMAIN made \cup {None}
    BY <1>1, <1>4 DEF IInv, Calm
  <2>2. ASSUME NEW q \in Ops, op'[q] # None
        PROVE  Alone(q)' /\ op'[q].bot \in DOMAIN made \cup {None}
    <3>1. op'[q] = op[q] /\ q # o /\ op[q].plugin # p /\ op[q] \in Op /\ Alone(q)
          /\ op[q].bot \in DOMAIN made \cup {None}
      BY <1>1, <1>2, <2>1, <2>2 DEF Alone, Calm
    <3>2. op[q].plugin \in Plugins \ {p}
      BY <3>1 DEF Op
    <3>. QED BY <1>1, <1>2, <1>3, <3>1, <3>2 DEF Alone
  <2>3. Calm'
    BY <1>1, <1>3, <2>1, <2>2 DEF Calm, Active
  <2>4. config[p] = None
    BY <1>1, <2>1 DEF Alone
  <2>5. ASSUME NEW a \in alive PROVE Reached(a)'
    <3>1. a # None
      BY <2>5, MadeIsSeq, BindingAssumption DEF IInv, TypeOK
    <3>. QED BY <1>1, <1>2, <1>3, <2>1, <2>4, <2>5, <3>1 DEF NoneLost, Reached, Active
  <2>. QED BY <1>1, <2>1, <2>3, <2>5 DEF NoneLost
<1>5. calm' \in BOOLEAN
  BY <1>1 DEF IInv, TypeOK
<1>. QED BY <1>1, <1>2, <1>3, <1>4, <1>5, GatewayKeeps

\* A bot is claimed: there is no such thing in a calm run.
LEMMA SaveClaimKeeps == ASSUME IInv, NEW t \in Tickets, SaveClaim(t) PROVE IInv'
<1>1. /\ loop[t] \in Loop /\ loop[t].step = "got" /\ t[1] \in ClaimCodes
      /\ config' = [config EXCEPT ![loop[t].plugin] = loop[t].bot]
      /\ loop' = [loop EXCEPT ![t].step = "end"]
      /\ UNCHANGED <<row, past, issued, made, alive, entry, call, op, twice, overtaken, calm>>
      /\ loop \in [Tickets -> Loop] /\ config \in [Plugins -> Bots \cup {None}]
  BY DEF SaveClaim, IInv, TypeOK, serverVars, history
<1> DEFINE new == [loop[t] EXCEPT !.step = "end"]
<1>2. new \in Loop /\ new.step = "end" /\ new.bot = loop[t].bot /\ loop' = [loop EXCEPT ![t] = new]
  BY <1>1 DEF Loop
<1> HIDE DEF new
<1>3. /\ loop' \in [Tickets -> Loop] /\ loop'[t] = new
      /\ \A u \in Tickets \ {t} : loop'[u] = loop[u]
  BY <1>1, <1>2
<1>4. config' \in [Plugins -> Bots \cup {None}]
  BY <1>1 DEF Loop
<1>5. TypeOK'
  BY <1>1, <1>3, <1>4 DEF IInv, TypeOK
<1>6. CallsOK' /\ MadeOfIssued' /\ OpsOK'
  BY <1>1 DEF IInv, CallsOK, CallOK, MadeOfIssued, OpsOK, CalledBy, Active
<1>7. OneAtATime'
  BY <1>1 DEF IInv, OneAtATime, Redeems, Active
<1>8. HubsOK'
  <2>1. \A c \in Codes : EntryOK(c)'
    BY <1>1 DEF IInv, HubsOK, EntryOK, IsOf
  <2>2. ASSUME NEW u \in Tickets
        PROVE  /\ loop'[u].step = "parked" =>
                    entry[u[1]] # None /\ (u[1] \notin overtaken => u[2] = issued[u[1]])
               /\ loop'[u].bot # None /\ u[1] \notin overtaken => IsOf(loop'[u].bot, u)
    <3>1. CASE u = t
      BY <1>2, <1>3, <3>1 DEF IInv, HubsOK
    <3>2. CASE u # t
      BY <1>3, <3>2 DEF IInv, HubsOK
    <3>. QED BY <3>1, <3>2
  <2>3. \A k \in Active : call[k].code \notin overtaken /\ call[k].step # "find" =>
           call[k].ticket = <<call[k].code, issued[call[k].code]>>
    BY DEF IInv, HubsOK
  <2>. QED BY <1>1, <2>1, <2>2, <2>3 DEF HubsOK, IsOf, Active
<1>9. ~calm'
  BY <1>1 DEF IInv, Calm
<1>. QED BY <1>5, <1>6, <1>7, <1>8, <1>9 DEF IInv

\* What the calls and the hubs are about when calls lose their requester, waits
\* end and RPCs are cut off: every loss of a reply, of a gateway, of the server
\* is of this kind.
LEMMA LossKeeps ==
  ASSUME IInv, UNCHANGED <<row, past, issued, made, alive, config, overtaken>>, calm' = FALSE,
         twice \subseteq twice', twice' \subseteq Tickets,
         op' \in [Ops -> Op \cup {None}], call' \in [Calls -> Call \cup {None}],
         entry' \in [Codes -> Entry \cup {None}], loop' \in [Tickets -> Loop],
         \A k \in Calls : call'[k] # None =>
           /\ call[k] # None /\ call'[k].step = call[k].step /\ call'[k].ticket = call[k].ticket
           /\ call'[k].code = call[k].code /\ call'[k].bot = call[k].bot
           /\ call'[k].by \in {call[k].by, None},
         \A k \in Active : call'[k] = None =>
           (call[k].step = "delete" => call[k].ticket \in twice'),
         \A k \in Active : call'[k] # None /\ call'[k].by # None => op'[call[k].by] = op[call[k].by],
         \A o \in Ops : op'[o] # None =>
           op[o] # None /\ op'[o].step = op[o].step /\ op'[o].code = op[o].code /\ op'[o].bot = op[o].bot,
         \A c \in Codes : entry'[c] # None =>
           /\ entry[c] # None /\ entry'[c].gen = entry[c].gen
           /\ entry'[c].status = entry[c].status /\ entry'[c].bot = entry[c].bot,
         \A t \in Tickets :
           /\ loop'[t].bot = loop[t].bot
           /\ loop'[t].step = "parked" => loop[t].step = "parked" /\ (entry[t[1]] # None => entry'[t[1]] # None)
  PROVE  IInv'
<1>1. TypeOK'
  BY DEF IInv, TypeOK
<1>2. \A k \in Active' :
        /\ k \in Active /\ call'[k].step = call[k].step /\ call'[k].ticket = call[k].ticket
        /\ call'[k].code = call[k].code /\ call'[k].bot = call[k].bot
        /\ call'[k].by \in {call[k].by, None}
  BY DEF Active
<1>3. CallsOK' /\ MadeOfIssued'
  <2>1. ASSUME NEW k \in Active' PROVE CallOK(k)'
    BY <1>2 DEF IInv, CallsOK, CallOK
  <2>. QED BY <2>1 DEF CallsOK, IInv, MadeOfIssued
<1>4. OneAtATime'
  <2> SUFFICES ASSUME NEW u \in Tickets, u \notin twice'
               PROVE  /\ \A i, j \in Calls : Redeems(i, u)' /\ Redeems(j, u)' => i = j
                      /\ \A j \in Active' : call'[j].step = "create" /\ call'[j].ticket = u =>
                           \A b \in DOMAIN made : made[b] # u
                      /\ \A b \in DOMAIN made : made[b] = u =>
                           \/ \E j \in Active' : call'[j].step = "delete" /\ call'[j].ticket = u
                           \/ u[1] \notin row \/ u[2] < issued[u[1]]
    BY DEF OneAtATime
  <2>1. /\ \A i, j \in Calls : Redeems(i, u) /\ Redeems(j, u) => i = j
        /\ \A j \in Active : call[j].step = "create" /\ call[j].ticket = u =>
             \A b \in DOMAIN made : made[b] # u
        /\ \A b \in DOMAIN made : made[b] = u =>
             \/ \E j \in Active : call[j].step = "delete" /\ call[j].ticket = u
             \/ u[1] \notin row \/ u[2] < issued[u[1]]
    BY DEF IInv, OneAtATime
  <2>2. \A j \in Calls : Redeems(j, u)' => Redeems(j, u)
    BY <1>2 DEF Redeems
  <2>3. \A j \in Active : call[j].step = "delete" /\ call[j].ticket = u =>
           j \in Active' /\ call'[j].step = "delete" /\ call'[j].ticket = u
    BY <1>2 DEF Active
  <2>. QED BY <1>2, <2>1, <2>2, <2>3
<1>5. OpsOK'
  <2>1. ASSUME NEW k \in Calls, NEW o \in Ops, CalledBy(k, o)'
        PROVE  CalledBy(k, o) /\ op'[o] # None /\ op'[o].step = "await"
    <3>1. None \notin Ops
      BY BindingAssumption
    <3>2. CalledBy(k, o) /\ call'[k].by = o /\ o # None /\ call'[k] # None /\ k \in Active
      BY <1>2, <2>1, <3>1 DEF CalledBy, Active
    <3>3. op[o] # None /\ op[o].step = "await"
      BY <3>2 DEF IInv, OpsOK
    <3>4. op'[o] = op[o]
      BY <3>2 DEF CalledBy
    <3>. QED BY <3>2, <3>3, <3>4
  <2>2. \A j, k \in Calls, o \in Ops : CalledBy(j, o)' /\ CalledBy(k, o)' => j = k
    BY <2>1 DEF IInv, OpsOK
  <2>3. \A o \in Ops : op'[o] # None =>
          /\ op'[o].code \in BindCodes \cup {None}
          /\ op'[o].step \in {"ask", "await"} => op'[o].bot = None /\ op'[o].code # None
    BY DEF IInv, OpsOK
  <2>. QED BY <2>1, <2>2, <2>3 DEF OpsOK
<1>6. HubsOK'
  <2>1. \A c \in Codes : EntryOK(c)'
    BY DEF IInv, HubsOK, EntryOK, IsOf
  <2>2. ASSUME NEW t \in Tickets
        PROVE  /\ loop'[t].step = "parked" =>
                    entry'[t[1]] # None /\ (t[1] \notin overtaken => t[2] = issued[t[1]])
               /\ loop'[t].bot # None /\ t[1] \notin overtaken => IsOf(loop'[t].bot, t)
    BY DEF IInv, HubsOK
  <2>3. \A k \in Active' : call'[k].code \notin overtaken /\ call'[k].step # "find" =>
          call'[k].ticket = <<call'[k].code, issued[call'[k].code]>>
    BY <1>2 DEF IInv, HubsOK
  <2>. QED BY <2>1, <2>2, <2>3 DEF HubsOK, IsOf
<1>. QED BY <1>1, <1>3, <1>4, <1>5, <1>6 DEF IInv

\* An enroll starts, and the one before it is told to stop.  Its own slot is new,
\* so it is not of LossKeeps' kind.
LEMMA EnrollKeeps ==
  ASSUME IInv, NEW o \in Ops, NEW p \in Plugins, Enroll(o, p) PROVE IInv'
<1>1. /\ op[o] = None /\ calm' = FALSE
      /\ op' = [q \in Ops |->
           IF q = o THEN [plugin |-> p, step |-> "claim", code |-> None, bot |-> None, aborted |-> FALSE]
           ELSE IF op[q] # None /\ op[q].plugin = p /\ op[q].step = "claim"
           THEN [op[q] EXCEPT !.aborted = TRUE] ELSE op[q]]
      /\ loop' = [t \in Tickets |-> IF loop[t].plugin = p
                                    THEN [loop[t] EXCEPT !.aborted = TRUE] ELSE loop[t]]
      /\ UNCHANGED <<row, past, issued, made, alive, entry, call, config, twice, overtaken>>
      /\ op \in [Ops -> Op \cup {None}] /\ loop \in [Tickets -> Loop]
  BY DEF Enroll, Free, IInv, TypeOK, serverVars
<1>2. [plugin |-> p, step |-> "claim", code |-> None, bot |-> None, aborted |-> FALSE] \in Op
  BY DEF Op
<1>3. ASSUME NEW q \in Ops, q # o, op'[q] # op[q]
      PROVE  /\ op[q] # None /\ op'[q] \in Op /\ op'[q].step = op[q].step
             /\ op'[q].code = op[q].code /\ op'[q].bot = op[q].bot /\ op[q].step = "claim"
  <2>1. op[q] \in Op /\ op[q] # None /\ op[q].step = "claim" /\ op'[q] = [op[q] EXCEPT !.aborted = TRUE]
    BY <1>1, <1>3
  <2>. QED BY <2>1 DEF Op
<1>4. op'[o] = [plugin |-> p, step |-> "claim", code |-> None, bot |-> None, aborted |-> FALSE]
  BY <1>1
<1>5. op' \in [Ops -> Op \cup {None}]
  <2>1. \A q \in Ops : op'[q] \in Op \cup {None}
    BY <1>1, <1>2, <1>3, <1>4
  <2>. QED BY <1>1, <2>1
<1>6. ASSUME NEW t \in Tickets
      PROVE loop'[t] \in Loop /\ loop'[t].step = loop[t].step /\ loop'[t].bot = loop[t].bot
  BY <1>1 DEF Loop
<1>7. loop' \in [Tickets -> Loop]
  BY <1>1, <1>6
<1>8. TypeOK'
  BY <1>1, <1>5, <1>7 DEF IInv, TypeOK
<1>9. CallsOK' /\ MadeOfIssued'
  BY <1>1 DEF IInv, CallsOK, CallOK, MadeOfIssued, Active
<1>10. OneAtATime'
  BY <1>1 DEF IInv, OneAtATime, Redeems, Active
<1>11. OpsOK'
  <2>1. ASSUME NEW k \in Calls, NEW q \in Ops, CalledBy(k, q)'
        PROVE  op'[q] # None /\ op'[q].step = "await"
    <3>1. op[q] # None /\ op[q].step = "await"
      BY <1>1, <2>1 DEF CalledBy, Active, IInv, OpsOK
    <3>2. q # o /\ op'[q] = op[q]
      BY <1>1, <1>3, <3>1
    <3>. QED BY <3>1, <3>2
  <2>2. \A j, k \in Calls, q \in Ops : CalledBy(j, q)' /\ CalledBy(k, q)' => j = k
    BY <1>1 DEF CalledBy, Active, IInv, OpsOK
  <2>3. ASSUME NEW q \in Ops, op'[q] # None
        PROVE  /\ op'[q].code \in BindCodes \cup {None}
               /\ op'[q].step \in {"ask", "await"} => op'[q].bot = None /\ op'[q].code # None
    BY <1>3, <1>4, <2>3 DEF IInv, OpsOK
  <2>. QED BY <2>1, <2>2, <2>3 DEF OpsOK
<1>12. HubsOK'
  BY <1>1, <1>6 DEF IInv, HubsOK, EntryOK, IsOf, Active
<1>. QED BY <1>1, <1>8, <1>9, <1>10, <1>11, <1>12 DEF IInv

\* The server's reply is lost.
LEMMA LoseReplyKeeps == ASSUME IInv, NEW o \in Ops, LoseReply(o) PROVE IInv'
<1>1. /\ op' = [op EXCEPT ![o] = None] /\ calm' = FALSE /\ None \notin Ops
      /\ call' = [k \in Calls |-> IF call[k] # None /\ call[k].by = o
                                  THEN [call[k] EXCEPT !.by = None] ELSE call[k]]
      /\ UNCHANGED <<row, past, issued, made, alive, entry, config, loop, twice, overtaken>>
      /\ op \in [Ops -> Op \cup {None}] /\ call \in [Calls -> Call \cup {None}]
  BY BindingAssumption DEF LoseReply, IInv, TypeOK
<1>2. ASSUME NEW k \in Calls
      PROVE  /\ call'[k] \in Call \cup {None} /\ (call[k] = None => call'[k] = None)
             /\ call[k] # None =>
                  /\ call'[k] \in Call /\ call'[k].step = call[k].step
                  /\ call'[k].ticket = call[k].ticket
                  /\ call'[k].code = call[k].code /\ call'[k].bot = call[k].bot
                  /\ call'[k].by = IF call[k].by = o THEN None ELSE call[k].by
  BY <1>1 DEF Call
<1>3. call' \in [Calls -> Call \cup {None}]
  BY <1>1, <1>2
<1>4. \A k \in Active : call'[k] # None
  BY <1>2, NoneAssumption DEF Active
<1>5. \A q \in Ops \ {o} : op'[q] = op[q]
  BY <1>1
<1>6. \A k \in Active : call[k].by \in Ops \cup {None}
  BY <1>1 DEF Active, Call
<1>7. ASSUME NEW k \in Active, call'[k].by # None PROVE op'[call[k].by] = op[call[k].by]
  BY <1>2, <1>5, <1>6, <1>7 DEF Active
<1>8. \A q \in Ops : op'[q] # None => op'[q] = op[q]
  BY <1>1
<1>9. op' \in [Ops -> Op \cup {None}]
  BY <1>1
<1>10. /\ entry' \in [Codes -> Entry \cup {None}] /\ loop' \in [Tickets -> Loop]
       /\ twice' \subseteq Tickets /\ twice \subseteq twice'
  BY <1>1 DEF IInv, TypeOK
<1>11. \A k \in Calls : call'[k] # None =>
         /\ call[k] # None /\ call'[k].step = call[k].step /\ call'[k].ticket = call[k].ticket
         /\ call'[k].code = call[k].code /\ call'[k].bot = call[k].bot
         /\ call'[k].by \in {call[k].by, None}
  BY <1>2
<1>12. \A q \in Ops : op'[q] # None =>
         op[q] # None /\ op'[q].step = op[q].step /\ op'[q].code = op[q].code /\ op'[q].bot = op[q].bot
  BY <1>8
<1>13. entry' = entry /\ loop' = loop
  BY <1>1
<1>. QED BY <1>1, <1>3, <1>4, <1>7, <1>9, <1>10, <1>11, <1>12, <1>13, LossKeeps

\* The gateway dies.
LEMMA CrashKeeps == ASSUME IInv, NEW p \in Plugins, Crash(p) PROVE IInv'
<1>1. /\ op' = [o \in Ops |-> IF op[o] # None /\ op[o].plugin = p THEN None ELSE op[o]]
      /\ call' = [k \in Calls |->
            IF call[k] # None /\ call[k].by # None /\ op[call[k].by].plugin = p
            THEN [call[k] EXCEPT !.by = None] ELSE call[k]]
      /\ loop' = [t \in Tickets |-> IF loop[t].plugin = p THEN [loop[t] EXCEPT !.step = "end"] ELSE loop[t]]
      /\ entry' = [c \in Codes |-> IF entry[c] = None THEN None ELSE
                    [entry[c] EXCEPT !.waiters = {g \in @ : loop[<<c, g>>].plugin # p}]]
      /\ calm' = FALSE
      /\ UNCHANGED <<row, past, issued, made, alive, config, twice, overtaken>>
      /\ op \in [Ops -> Op \cup {None}] /\ call \in [Calls -> Call \cup {None}]
      /\ entry \in [Codes -> Entry \cup {None}] /\ loop \in [Tickets -> Loop]
  BY DEF Crash, IInv, TypeOK
<1>2. ASSUME NEW k \in Calls
      PROVE  /\ call'[k] \in Call \cup {None} /\ (call[k] = None => call'[k] = None)
             /\ call[k] # None =>
                  /\ call'[k] \in Call /\ call'[k].step = call[k].step
                  /\ call'[k].ticket = call[k].ticket
                  /\ call'[k].code = call[k].code /\ call'[k].bot = call[k].bot
                  /\ call'[k].by \in {call[k].by, None}
                  /\ call'[k].by # None => op[call[k].by].plugin # p
  BY <1>1 DEF Call
<1>3. call' \in [Calls -> Call \cup {None}]
  BY <1>1, <1>2
<1>4. \A k \in Active : call'[k] # None
  BY <1>2, NoneAssumption DEF Active
<1>5. \A k \in Active : call[k].by \in Ops \cup {None}
  BY <1>1 DEF Active, Call
<1>6. ASSUME NEW k \in Active, call'[k].by # None PROVE op'[call[k].by] = op[call[k].by]
  <2>1. call[k] # None /\ call'[k].by \in {call[k].by, None} /\ op[call[k].by].plugin # p
    BY <1>2, <1>6 DEF Active
  <2>2. call[k].by \in Ops
    BY <1>5, <1>6, <2>1
  <2>. QED BY <1>1, <2>1, <2>2
<1>7. \A q \in Ops : op'[q] # None => op'[q] = op[q]
  BY <1>1
<1>8. op' \in [Ops -> Op \cup {None}]
  BY <1>1
<1>9. ASSUME NEW t \in Tickets
      PROVE  /\ loop'[t] \in Loop /\ loop'[t].bot = loop[t].bot
             /\ loop'[t].step = "parked" => loop[t].step = "parked"
  BY <1>1 DEF Loop
<1>10. loop' \in [Tickets -> Loop]
  BY <1>1, <1>9
<1>11. ASSUME NEW c \in Codes, entry[c] # None
       PROVE  /\ entry'[c] \in Entry /\ entry'[c].gen = entry[c].gen
              /\ entry'[c].status = entry[c].status /\ entry'[c].bot = entry[c].bot
  <2>1. entry[c] \in Entry /\ entry'[c] =
          [entry[c] EXCEPT !.waiters = {g \in entry[c].waiters : loop[<<c, g>>].plugin # p}]
    BY <1>1, <1>11
  <2>2. {g \in entry[c].waiters : loop[<<c, g>>].plugin # p} \in SUBSET (1..Issues)
    BY <2>1 DEF Entry
  <2>. QED BY <2>1, <2>2 DEF Entry
<1>12. /\ entry' \in [Codes -> Entry \cup {None}]
       /\ \A c \in Codes : (entry[c] = None) = (entry'[c] = None)
  <2>1. \A c \in Codes : entry'[c] \in Entry \cup {None}
    BY <1>1, <1>11
  <2>2. \A c \in Codes : (entry[c] = None) = (entry'[c] = None)
    BY <1>1, <1>11, NoneAssumption
  <2>. QED BY <1>1, <2>1, <2>2
<1>13. twice' \subseteq Tickets /\ twice \subseteq twice'
  BY <1>1 DEF IInv, TypeOK
<1>14. \A t \in Tickets : entry[t[1]] # None => entry'[t[1]] # None
  BY <1>12, TicketParts
<1>. QED BY <1>1, <1>2, <1>3, <1>4, <1>6, <1>7, <1>8, <1>9, <1>10, <1>11, <1>12, <1>13, <1>14, LossKeeps

\* The server restarts.
LEMMA ServerRestartKeeps == ASSUME IInv, ServerRestart PROVE IInv'
<1>1. /\ entry' = [c \in Codes |-> None] /\ call' = [k \in Calls |-> None]
      /\ op' = [o \in Ops |-> IF At(o, "await") THEN None ELSE op[o]]
      /\ loop' = [t \in Tickets |-> IF loop[t].step = "parked"
                                    THEN [loop[t] EXCEPT !.step = "top"] ELSE loop[t]]
      /\ calm' = FALSE
      /\ twice' = twice \cup {call[k].ticket : k \in {j \in Active : call[j].step = "delete"}}
      /\ UNCHANGED <<row, past, issued, made, alive, config, overtaken>>
      /\ op \in [Ops -> Op \cup {None}] /\ loop \in [Tickets -> Loop]
  BY DEF ServerRestart, IInv, TypeOK
<1>2. /\ call' \in [Calls -> Call \cup {None}] /\ \A k \in Calls : call'[k] = None
      /\ entry' \in [Codes -> Entry \cup {None}] /\ \A c \in Codes : entry'[c] = None
      /\ op' \in [Ops -> Op \cup {None}] /\ \A o \in Ops : op'[o] # None => op'[o] = op[o]
  BY <1>1
<1>3. ASSUME NEW t \in Tickets
      PROVE  loop'[t] \in Loop /\ loop'[t].bot = loop[t].bot /\ loop'[t].step # "parked"
  BY <1>1 DEF Loop
<1>4. loop' \in [Tickets -> Loop]
  BY <1>1, <1>3
<1>5. twice \subseteq twice' /\ twice' \subseteq Tickets
  BY <1>1 DEF IInv, TypeOK, CallsOK, CallOK
<1>6. \A k \in Active : call[k].step = "delete" => call[k].ticket \in twice'
  BY <1>1
<1>. QED BY <1>1, <1>2, <1>3, <1>4, <1>5, <1>6, LossKeeps DEF Active

-----------------------------------------------------------------------------
(* The theorems *)

LEMMA PollStepKeeps == ASSUME IInv, NEW t \in Tickets, Poll(t) PROVE IInv'
  BY PollKeeps, ParkedKeeps, DoneKeeps, SaveClaimKeeps DEF Poll

LEMMA StepKeeps == ASSUME IInv, [Next]_vars PROVE IInv'
<1>1. CASE UNCHANGED vars
  BY <1>1, RowKeeps DEF vars, serverVars, gatewayVars, history, IInv, TypeOK
<1>2. ASSUME NEW c \in Codes,
             CreateBindingCode(c) \/ CancelBindingCode(c) \/ Expire(c) \/ Cleanup(c)
      PROVE  IInv'
  <2>1. ASSUME CancelBindingCode(c) PROVE IInv'
    BY <2>1, RowKeeps DEF CancelBindingCode, IInv, TypeOK
  <2>2. ASSUME Expire(c) PROVE IInv'
    BY <2>2, RowKeeps DEF Expire, IInv, TypeOK
  <2>. QED BY <1>2, <2>1, <2>2, CreateBindingCodeKeeps, CleanupKeeps
<1>3. ASSUME NEW o \in Ops, NEW c \in ClaimCodes,
             CreateClaimCode(o, c) \/ DropExpiredClaimCode(o, c)
      PROVE  IInv'
  <2>1. ASSUME DropExpiredClaimCode(o, c) PROVE IInv'
    BY <2>1, RowKeeps DEF DropExpiredClaimCode, IInv, TypeOK
  <2>. QED BY <1>3, <2>1, CreateClaimCodeKeeps
<1>4. ASSUME NEW k \in Calls, Redeem(k) \/ Mark(k) PROVE IInv'
  BY <1>4, FindKeeps, DropExpiredKeeps, CreateBotKeeps, DeleteCodeKeeps, MarkKeeps DEF Redeem
<1>5. ASSUME NEW t \in Tickets,
             Poll(t) \/ CancelBindingWait(t) \/ CancelClaimWait(t) \/ LeavePage(t)
      PROVE  IInv'
  BY <1>5, PollStepKeeps, ParkedKeeps, PollKeeps
<1>6. ASSUME NEW o \in Ops, NEW p \in Plugins, Unbind(o, p) \/ Enroll(o, p) PROVE IInv'
  BY <1>6, UnbindKeeps, EnrollKeeps
<1>7. ASSUME NEW o \in Ops,
             UnbindOnServer(o) \/ ClearConfig(o) \/ LoseReply(o) \/ SaveConfig(o)
      PROVE  IInv'
  BY <1>7, UnbindOnServerKeeps, ClearConfigKeeps, LoseReplyKeeps, SaveConfigKeeps
<1>8. ASSUME NEW b \in Bots, UnbindByUser(b) PROVE IInv'
  BY <1>8, RowKeeps DEF UnbindByUser, IInv, TypeOK
<1>. QED BY <1>1, <1>2, <1>3, <1>4, <1>5, <1>6, <1>7, <1>8,
            ClaimKeeps, BindKeeps, AskServerKeeps, CrashKeeps, ServerRestartKeeps DEF Next

\* Every reachable state satisfies the invariant: no step of the server, of the
\* hubs, of the gateways or of the users, no crash and no restart leaves it.
THEOREM Invariance == Spec => []IInv
<1>. QED BY InitHolds, StepKeeps, PTL DEF Spec

\* No step but the making of a bot changes which bots were made, and that one
\* makes the first of its ticket.
LEMMA SecondBotByRace ==
  ASSUME IInv, TwoBotsOnlyByRace, [Next]_vars
  PROVE  TwoBotsOnlyByRace'
<1>1. CASE made' = made /\ twice \subseteq twice'
  BY <1>1 DEF TwoBotsOnlyByRace
<1>2. ASSUME NEW k \in Calls, CreateBot(k) PROVE TwoBotsOnlyByRace'
  <2> DEFINE n == Len(made) + 1
             t == call[k].ticket
  <2>1. /\ k \in Active /\ call[k].step = "create" /\ t \in Tickets /\ UNCHANGED twice
    BY <1>2 DEF CreateBot, Active, history, IInv, CallsOK, CallOK
  <2>2. CASE UNCHANGED made
    BY <1>1, <2>1, <2>2
  <2>3. CASE Len(made) < MaxBots /\ made' = Append(made, t)
    <3>1. /\ DOMAIN made' = 1..n /\ DOMAIN made = 1..Len(made) /\ Len(made) \in Nat
          /\ \A b \in DOMAIN made : made'[b] = made[b]
          /\ made'[n] = t
      BY <2>1, <2>3, MadeGrows, MadeIsSeq DEF IInv
    <3>2. t \notin twice => \A b \in DOMAIN made : made[b] # t
      BY <2>1 DEF IInv, OneAtATime
    <3>3. DOMAIN made' = DOMAIN made \cup {n}
      BY <3>1
    <3> HIDE DEF n, t
    <3>. QED BY <2>1, <3>1, <3>2, <3>3 DEF TwoBotsOnlyByRace
  <2>. QED BY <1>2, <2>2, <2>3 DEF CreateBot
<1>3. ASSUME ~ \E k \in Calls : CreateBot(k) PROVE made' = made /\ twice \subseteq twice'
  <2>1. ASSUME NEW k \in Calls, Redeem(k) \/ Mark(k) PROVE made' = made /\ twice \subseteq twice'
    BY <1>3, <2>1 DEF Redeem, Find, DropExpired, DeleteCode, Mark, history
  <2>2. ASSUME NEW t \in Tickets,
               Poll(t) \/ CancelBindingWait(t) \/ CancelClaimWait(t) \/ LeavePage(t)
        PROVE  made' = made /\ twice \subseteq twice'
    BY <2>2 DEF Poll, PollInvalid, PollBound, PollExpired, PollParks, ParkedTooLong, PageDone,
         SaveClaim, StopEnroll, CancelBindingWait, CancelClaimWait, LeavePage, serverVars, history
  <2>3. ASSUME NEW c \in Codes,
               CreateBindingCode(c) \/ CancelBindingCode(c) \/ Expire(c) \/ Cleanup(c)
        PROVE  made' = made /\ twice \subseteq twice'
    BY <2>3 DEF CreateBindingCode, CancelBindingCode, Expire, Cleanup, Issue, history
  <2>4. ASSUME NEW o \in Ops, NEW c \in ClaimCodes,
               CreateClaimCode(o, c) \/ DropExpiredClaimCode(o, c)
        PROVE  made' = made /\ twice \subseteq twice'
    BY <2>4 DEF CreateClaimCode, DropExpiredClaimCode, Issue, history
  <2>5. ASSUME NEW o \in Ops, NEW p \in Plugins,
               Unbind(o, p) \/ Enroll(o, p) \/ \E c \in BindCodes : Bind(o, p, c)
        PROVE  made' = made /\ twice \subseteq twice'
    BY <2>5 DEF Unbind, Enroll, Bind, serverVars
  <2>6. ASSUME NEW o \in Ops,
               \/ UnbindOnServer(o) \/ ClearConfig(o) \/ LoseReply(o) \/ SaveConfig(o)
               \/ \E k \in Calls : AskServer(o, k)
        PROVE  made' = made /\ twice \subseteq twice'
    BY <2>6 DEF UnbindOnServer, ClearConfig, LoseReply, SaveConfig, AskServer, serverVars, history
  <2>7. ASSUME \/ \E k \in Calls, c \in ClaimCodes : Claim(k, c)
               \/ \E b \in Bots : UnbindByUser(b)
               \/ \E p \in Plugins : Crash(p)
               \/ ServerRestart
               \/ UNCHANGED vars
        PROVE  made' = made /\ twice \subseteq twice'
    BY <2>7 DEF Claim, UnbindByUser, Crash, ServerRestart, vars, serverVars, history
  <2>. QED BY <2>1, <2>2, <2>3, <2>4, <2>5, <2>6, <2>7 DEF Next
<1>. QED BY <1>1, <1>2, <1>3

\* However many users and gateways redeem codes at once, and whatever fails: a
\* code makes two bots only where its redemptions overlapped, or where the code
\* was left behind by a failed deletion or a restart (bot-binding.svc.js looks
\* the code up, makes the bot and deletes the code in three steps).
THEOREM NoSecondBot == Spec => []TwoBotsOnlyByRace
<1>1. Init => TwoBotsOnlyByRace
  BY DEF Init, TwoBotsOnlyByRace
<1>. QED BY <1>1, Invariance, SecondBotByRace, PTL DEF Spec

\* Rebinding never leaves an orphan: in a run without lost replies, crashes,
\* enrolls and concurrent RPCs of one gateway, every bot is in a config or on its
\* way to one.
THEOREM BotsReachAGateway == Spec => []NoOrphan
<1>1. IInv => NoOrphan
  BY DEF IInv, NoneLost, Reached, NoOrphan
<1>. QED BY <1>1, Invariance, PTL

\* Whoever waits for a code is told the bot made for that issue of it, unless
\* the code was issued again meanwhile.
THEOREM WaitersAreToldTheirOwn == Spec => []AnswerIsOwn
<1>1. IInv => AnswerIsOwn
  BY DEF IInv, HubsOK, IsOf, AnswerIsOwn
<1>. QED BY <1>1, Invariance, PTL

=============================================================================
