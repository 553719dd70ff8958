------------------------------ MODULE Binding -------------------------------
(***************************************************************************)
(* How a gateway gets its bot: binding codes, which a user issues and a    *)
(* gateway redeems, and claim codes, which a gateway issues (enroll) and a *)
(* user redeems.  The server side is bot-binding.svc.js with its routes    *)
(* and the two wait hubs; the gateway side is common/bot-binding.js with   *)
(* the RPC methods of the plugin's index.js.                               *)
(*                                                                         *)
(* Every await of the code ends a step.  A ticket is one issue of a code:  *)
(* it stands for the waitToken.  Names, tokens and owners are left out; a  *)
(* bot stands for its token too.  Issuing a code and registering its wait  *)
(* entry are one step, since nobody knows the code before the answer.      *)
(***************************************************************************)
EXTENDS Naturals, Sequences

CONSTANTS
    BindCodes, ClaimCodes,
    Plugins,
    MaxBots,             \* bound: bots ever created
    Issues,              \* bound: issues of one code
    Plans,               \* bound: how often which code is issued, at most
    Calls,               \* bound: bindBot and claimBot calls at one time
    Ops,                 \* bound: plugin RPCs at one time
    None

Codes == BindCodes \cup ClaimCodes
Bots == 1..MaxBots
Tickets == Codes \X (1..Issues)

ASSUME BindingAssumption ==
    /\ BindCodes \cap ClaimCodes = {}
    /\ MaxBots \in Nat /\ Issues \in Nat
    /\ Plans \subseteq [Codes -> 0..Issues]
    /\ None \notin Codes \cup Plugins \cup Ops \cup Bots

VARIABLES
    \* the database
    row,                 \* codes that have a row
    past,                \* codes whose expiresAt has passed
    issued,              \* per code: how often it has been issued
    made,                \* the ticket of every bot created so far, in order
    alive,               \* bots that have a row
    \* the server's memory
    entry,               \* per code: its state in the wait hub, or None
    call,                \* per slot: the bindBot or claimBot being handled
    \* the gateways
    config,              \* per plugin: the bot in bindings.json
    op,                  \* per slot: the bind, unbind or enroll RPC
    loop,                \* per ticket: who polls for its result
    \* history
    twice,               \* tickets two redemptions looked up, or one left behind
    overtaken,           \* codes issued again under a poll or a redemption
    calm                 \* no reply lost, no crash, no two RPCs at a time

serverVars == <<row, past, issued, made, alive, entry, call>>
gatewayVars == <<config, op, loop>>
history == <<twice, overtaken, calm>>
vars == <<serverVars, gatewayVars, history>>

Statuses == {"pending", "bound", "cancelled", "expired"}
Entry == [gen : 1..Issues, status : Statuses, bot : Bots \cup {None}, waiters : SUBSET (1..Issues)]
Call == [step : {"find", "drop", "create", "delete", "mark"}, ticket : Tickets \cup {None},
         code : Codes, bot : Bots \cup {None}, by : Ops \cup {None}]
Op == [plugin : Plugins, step : {"unbind", "clear", "ask", "await", "save", "claim"},
       code : Codes \cup {None}, bot : Bots \cup {None}, aborted : BOOLEAN]
Loop == [step : {"off", "top", "parked", "got", "end"}, plugin : Plugins \cup {None},
         bot : Bots \cup {None}, aborted : BOOLEAN]

ASSUME NoneAssumption == None \notin Entry \cup Call \cup Op

NoLoop == [step |-> "off", plugin |-> None, bot |-> None, aborted |-> FALSE]

TypeOK ==
    /\ row \subseteq Codes /\ past \subseteq Codes
    /\ issued \in [Codes -> 0..Issues]
    /\ made \in UNION {[1..n -> Tickets] : n \in 0..MaxBots}
    /\ alive \subseteq DOMAIN made
    /\ entry \in [Codes -> Entry \cup {None}]
    /\ call \in [Calls -> Call \cup {None}]
    /\ config \in [Plugins -> Bots \cup {None}]
    /\ op \in [Ops -> Op \cup {None}]
    /\ loop \in [Tickets -> Loop]
    /\ twice \subseteq Tickets /\ overtaken \subseteq Codes /\ calm \in BOOLEAN

Init ==
    /\ row = {} /\ past = {}
    /\ issued = [c \in Codes |-> 0]
    /\ made = <<>> /\ alive = {}
    /\ entry = [c \in Codes |-> None]
    /\ call = [k \in Calls |-> None]
    /\ config = [p \in Plugins |-> None]
    /\ op = [o \in Ops |-> None]
    /\ loop = [t \in Tickets |-> NoLoop]
    /\ twice = {} /\ overtaken = {} /\ calm = TRUE

Polled(c) == \E g \in 1..Issues : loop[<<c, g>>].step = "parked"
Active == {k \in Calls : call[k] # None}
Redeemed(c) == \E k \in Active : call[k].code = c
Free(f, k) == f[k] = None

-----------------------------------------------------------------------------
(* Issuing a code *)

\* registerBindingWait, registerClaimWait: the entry starts over, and requests
\* parked on it are forgotten, not answered.
RegisterWait(c) ==
    /\ entry' = [entry EXCEPT ![c] =
         [gen |-> issued[c] + 1, status |-> "pending", bot |-> None, waiters |-> {}]]
    /\ overtaken' = IF Polled(c) \/ Redeemed(c) THEN overtaken \cup {c} ELSE overtaken

Issue(c, l) ==
    /\ issued' = [issued EXCEPT ![c] = @ + 1]
    /\ \E plan \in Plans : \A d \in Codes : issued'[d] <= plan[d]
    /\ row' = row \cup {c}
    /\ past' = past \ {c}
    /\ RegisterWait(c)
    /\ loop' = [loop EXCEPT ![<<c, issued[c] + 1>>] = l]
    /\ UNCHANGED <<made, alive, call, config, twice, calm>>

\* The user opens the page that shows a code.  A code drawn again may have a
\* row only if it has expired: the row is then reused.
CreateBindingCode(c) ==
    /\ c \in BindCodes
    /\ c \in row => c \in past
    /\ Issue(c, [NoLoop EXCEPT !.step = "top"])
    /\ UNCHANGED op

\* enrollBot has its claim code, and the poll for it starts in the background.
CreateClaimCode(o, c) ==
    /\ op[o] # None /\ op[o].step = "claim"
    /\ c \in ClaimCodes \ row
    /\ Issue(c, [step |-> "top", plugin |-> op[o].plugin, bot |-> None, aborted |-> op[o].aborted])
    /\ op' = [op EXCEPT ![o] = None]

\* The same, when the code drawn has an expired row: it is deleted, and
\* another one drawn.
DropExpiredClaimCode(o, c) ==
    /\ op[o] # None /\ op[o].step = "claim"
    /\ c \in ClaimCodes \cap row \cap past
    /\ row' = row \ {c}
    /\ UNCHANGED <<past, issued, made, alive, entry, call, gatewayVars, history>>

\* The user restarts the page before the code is used.
CancelBindingCode(c) ==
    /\ c \in BindCodes \cap row
    /\ row' = row \ {c}
    /\ UNCHANGED <<past, issued, made, alive, entry, call, gatewayVars, history>>

Expire(c) ==
    /\ issued[c] > 0 /\ c \notin past
    /\ past' = past \cup {c}
    /\ UNCHANGED <<row, issued, made, alive, entry, call, gatewayVars, history>>

\* A hub without a cleanup timer for entries that nobody settles.
CleanupSettledOnly(c) ==
    /\ entry[c] # None
    /\ entry[c].status \in {"bound", "cancelled"}
    /\ ~Polled(c)
    /\ entry' = [entry EXCEPT ![c] = None]
    /\ UNCHANGED <<row, past, issued, made, alive, call, gatewayVars, history>>

\* The cleanup timer: 60 s after the entry was settled or its code expired.
\* No request stays parked that long.
Cleanup(c) ==
    /\ entry[c] # None
    /\ c \in past \/ entry[c].status \in {"bound", "cancelled"}
    /\ ~Polled(c)
    /\ entry' = [entry EXCEPT ![c] = None]
    /\ UNCHANGED <<row, past, issued, made, alive, call, gatewayVars, history>>

-----------------------------------------------------------------------------
(* Redeeming a code: bindBot and claimBot *)

StartCall(k, c, o) ==
    /\ Free(call, k)
    /\ call' = [call EXCEPT ![k] =
         [step |-> "find", ticket |-> None, code |-> c, bot |-> None, by |-> o]]

\* The user opens the claim page, which calls claimBot.
Claim(k, c) ==
    /\ c \in ClaimCodes /\ issued[c] > 0
    /\ StartCall(k, c, None)
    /\ UNCHANGED <<row, past, issued, made, alive, entry, gatewayVars, history>>

\* What the requester learns: a bot, or a failure.
Reply(k, b) ==
    /\ call' = [call EXCEPT ![k] = None]
    /\ op' = IF call[k].by = None THEN op
             ELSE [op EXCEPT ![call[k].by] = IF b = None THEN None
                                             ELSE [@ EXCEPT !.step = "save", !.bot = b]]

StepTo(k, s) == call' = [call EXCEPT ![k].step = s]

Find(k) ==
    /\ call[k] # None /\ call[k].step = "find"
    /\ LET c == call[k].code
           t == <<c, issued[c]>>
       IN  IF c \notin row
           THEN Reply(k, None) /\ UNCHANGED twice
           ELSE /\ call' = [call EXCEPT ![k].step = IF c \in past THEN "drop" ELSE "create",
                                        ![k].ticket = t]
                /\ twice' = IF c \notin past /\ \E j \in Active \ {k} : call[j].ticket = t
                            THEN twice \cup {t} ELSE twice
                /\ UNCHANGED op
    /\ UNCHANGED <<row, past, issued, made, alive, entry, config, loop, overtaken, calm>>

\* An expired code: its row is deleted, if the database lets it.
DropExpired(k) ==
    /\ call[k] # None /\ call[k].step = "drop"
    /\ row' \in {row, row \ {call[k].code}}
    /\ Reply(k, None)
    /\ UNCHANGED <<past, issued, made, alive, entry, config, loop, history>>

\* Bots get ever greater ids; the insertion may fail.
CreateBot(k) ==
    /\ call[k] # None /\ call[k].step = "create"
    /\ \/ /\ Len(made) < MaxBots
          /\ made' = Append(made, call[k].ticket)
          /\ alive' = alive \cup {Len(made) + 1}
          /\ call' = [call EXCEPT ![k].step = "delete", ![k].bot = Len(made) + 1]
          /\ UNCHANGED op
       \/ Reply(k, None) /\ UNCHANGED <<made, alive>>
    /\ UNCHANGED <<row, past, issued, entry, config, loop, history>>

\* A server that leaves the code for its expiry.
KeepCode(k) ==
    /\ call[k] # None /\ call[k].step = "delete"
    /\ StepTo(k, "mark")
    /\ UNCHANGED <<row, past, issued, made, alive, entry, gatewayVars, history>>

\* The code is deleted only now, and a failure is ignored.
DeleteCode(k) ==
    /\ call[k] # None /\ call[k].step = "delete"
    /\ \/ row' = row \ {call[k].code} /\ UNCHANGED twice
       \/ row' = row /\ twice' = twice \cup {call[k].ticket}
    /\ StepTo(k, "mark")
    /\ UNCHANGED <<past, issued, made, alive, entry, gatewayVars, overtaken, calm>>


\* bindBot and claimBot differ in the owner of the bot alone.
Redeem(k) == Find(k) \/ DropExpired(k) \/ CreateBot(k) \/ DeleteCode(k)

-----------------------------------------------------------------------------
(* The wait hubs *)

\* Whom settleState answers, and how: the requests parked on the entry.
Settled(c, step, b) ==
    [t \in Tickets |->
        IF t[1] = c /\ t[2] \in entry[c].waiters /\ loop[t].step = "parked"
        THEN [loop[t] EXCEPT !.step = step, !.bot = b] ELSE loop[t]]

Settle(c, status, step, b) ==
    /\ entry' = [entry EXCEPT ![c].status = status, ![c].bot = b, ![c].waiters = {}]
    /\ loop' = Settled(c, step, b)

\* markBindingBound, markClaimBound: only a pending entry is marked.
MayMark(c) == entry[c] # None /\ entry[c].status = "pending"

\* The handler goes on: mark the entry, then reply to whoever redeemed.
Mark(k) ==
    LET m == call[k] IN
    /\ m # None /\ m.step = "mark"
    /\ IF MayMark(m.code) THEN Settle(m.code, "bound", "got", m.bot)
                          ELSE UNCHANGED <<entry, loop>>
    /\ Reply(k, m.bot)
    /\ calm' = (calm /\ (m.code \in BindCodes => m.by # None))
    /\ UNCHANGED <<row, past, issued, made, alive, config, twice, overtaken>>

Answer(t, step, b) == loop' = [loop EXCEPT ![t].step = step, ![t].bot = b]

\* A hub that does not compare the token.  And the hub.
HasAnyEntry(t) == entry[t[1]] # None
HasEntry(t) == entry[t[1]] # None /\ entry[t[1]].gen = t[2]
IsOver(t) == t[1] \in past

\* The user's page stops at the deadline; the plugin stops on 404 only.
GivesUp(t) == IF t[1] \in BindCodes THEN "end" ELSE "top"

PollInvalid(t) ==
    /\ loop[t].step = "top" /\ ~HasEntry(t)
    /\ Answer(t, IF t[1] \in ClaimCodes \/ IsOver(t) THEN "end" ELSE "top", None)
    /\ UNCHANGED <<serverVars, config, op, history>>

PollBound(t) ==
    /\ loop[t].step = "top" /\ HasEntry(t)
    /\ entry[t[1]].status = "bound"
    /\ Answer(t, "got", entry[t[1]].bot)
    /\ UNCHANGED <<serverVars, config, op, history>>

PollExpired(t) ==
    /\ loop[t].step = "top" /\ HasEntry(t)
    /\ entry[t[1]].status \in {"pending", "expired"} /\ IsOver(t)
    /\ entry' = [entry EXCEPT ![t[1]].status = "expired"]
    /\ Answer(t, GivesUp(t), None)
    /\ UNCHANGED <<row, past, issued, made, alive, call, config, op, history>>

PollParks(t) ==
    /\ loop[t].step = "top" /\ HasEntry(t) /\ ~loop[t].aborted
    /\ entry[t[1]].status = "pending" /\ ~IsOver(t)
    /\ entry' = [entry EXCEPT ![t[1]].waiters = @ \cup {t[2]}]
    /\ Answer(t, "parked", None)
    /\ UNCHANGED <<row, past, issued, made, alive, call, config, op, history>>

\* The 25 s timer of a parked request.  It looks at the entry as it is now,
\* which may be a later issue of the code.
ParkedTooLong(t) ==
    LET c == t[1] IN
    /\ loop[t].step = "parked"
    /\ IF entry[c].status = "bound"
       THEN Answer(t, "got", entry[c].bot)
       ELSE Answer(t, IF IsOver(t) THEN GivesUp(t) ELSE "top", None)
    /\ entry' = [entry EXCEPT ![c].waiters = @ \ {t[2]},
                              ![c].status = IF @ # "bound" /\ IsOver(t) THEN "expired" ELSE @]
    /\ UNCHANGED <<row, past, issued, made, alive, call, config, op, history>>

\* The connection of a parked request closes.  For a binding code that
\* cancels the wait; for a claim code the parked requests are answered and
\* the entry stays pending.
CancelBindingWait(t) ==
    /\ t[1] \in BindCodes
    /\ loop[t].step = "parked"
    /\ IF entry[t[1]].gen = t[2] /\ entry[t[1]].status = "pending"
       THEN entry' = [entry EXCEPT ![t[1]].status = "cancelled", ![t[1]].waiters = {}]
       ELSE UNCHANGED entry
    /\ \E s \in {"top", "end"} : Answer(t, s, None)
    /\ UNCHANGED <<row, past, issued, made, alive, call, config, op, history>>

CancelClaimWait(t) ==
    /\ t[1] \in ClaimCodes
    /\ loop[t].step = "parked"
    /\ entry' = [entry EXCEPT ![t[1]].waiters = IF entry[t[1]].gen = t[2] THEN {} ELSE @]
    /\ Answer(t, "top", None)
    /\ UNCHANGED <<row, past, issued, made, alive, call, config, op, history>>

\* A cancelled wait is answered BINDING_PENDING, and the page polls on until
\* the deadline.  The user may leave the page at any time.
LeavePage(t) ==
    /\ t[1] \in BindCodes
    /\ loop[t].step = "top"
    /\ Answer(t, "end", None)
    /\ UNCHANGED <<serverVars, config, op, history>>

PageDone(t) ==
    /\ t[1] \in BindCodes
    /\ loop[t].step = "got"
    /\ loop' = [loop EXCEPT ![t].step = "end"]
    /\ UNCHANGED <<serverVars, config, op, history>>

-----------------------------------------------------------------------------
(* The gateway *)

StartOp(o, p, s, c, b) ==
    /\ Free(op, o)
    /\ op' = [op EXCEPT ![o] = [plugin |-> p, step |-> s, code |-> c, bot |-> b, aborted |-> FALSE]]
    /\ calm' = (calm /\ \A q \in Ops : op[q] = None \/ op[q].plugin # p)

\* A gateway that binds again without unbinding.
BindOver(o, p, c) ==
    /\ c \in BindCodes /\ issued[c] > 0
    /\ StartOp(o, p, "ask", c, config[p])
    /\ UNCHANGED <<serverVars, config, loop, twice, overtaken>>

\* bindBot reads the config; a gateway that has a bot gives it up first.
Bind(o, p, c) ==
    /\ c \in BindCodes /\ issued[c] > 0
    /\ StartOp(o, p, IF config[p] = None THEN "ask" ELSE "unbind", c, config[p])
    /\ UNCHANGED <<serverVars, config, loop, twice, overtaken>>

Unbind(o, p) ==
    /\ config[p] # None
    /\ StartOp(o, p, "unbind", None, config[p])
    /\ UNCHANGED <<serverVars, config, loop, twice, overtaken>>

\* enrollBot reads the config, then asks for a claim code.  The enroll that
\* was active is told to stop.
Enroll(o, p) ==
    /\ config[p] = None
    /\ Free(op, o)
    /\ op' = [q \in Ops |->
         IF q = o THEN [plugin |-> p, step |-> "claim", code |-> None, bot |-> None, aborted |-> FALSE]
         ELSE IF op[q] # None /\ op[q].plugin = p /\ op[q].step = "claim"
         THEN [op[q] EXCEPT !.aborted = TRUE] ELSE op[q]]
    /\ loop' = [t \in Tickets |-> IF loop[t].plugin = p
                                  THEN [loop[t] EXCEPT !.aborted = TRUE] ELSE loop[t]]
    /\ calm' = FALSE
    /\ UNCHANGED <<serverVars, config, twice, overtaken>>

At(o, s) == op[o] # None /\ op[o].step = s

\* The server deletes the bot, or has none (401), or the request fails: then
\* the RPC fails, whether or not the bot was deleted.
UnbindOnServer(o) ==
    /\ At(o, "unbind")
    /\ alive' \in {alive, alive \ {op[o].bot}}
    /\ \/ op[o].bot \notin alive' /\ op' = [op EXCEPT ![o].step = "clear"]
       \/ op' = [op EXCEPT ![o] = None]
    /\ UNCHANGED <<row, past, issued, made, entry, call, config, loop, history>>

ClearConfig(o) ==
    /\ At(o, "clear")
    /\ config' = [config EXCEPT ![op[o].plugin] = None]
    /\ op' = IF op[o].code = None THEN [op EXCEPT ![o] = None]
             ELSE [op EXCEPT ![o].step = "ask", ![o].bot = None]
    /\ UNCHANGED <<serverVars, loop, history>>

AskServer(o, k) ==
    /\ At(o, "ask")
    /\ StartCall(k, op[o].code, o)
    /\ op' = [op EXCEPT ![o].step = "await"]
    /\ UNCHANGED <<row, past, issued, made, alive, entry, config, loop, history>>

\* The reply of the server is lost, or late: the server goes on regardless.
LoseReply(o) ==
    /\ At(o, "await")
    /\ op' = [op EXCEPT ![o] = None]
    /\ call' = [k \in Calls |-> IF call[k] # None /\ call[k].by = o
                                THEN [call[k] EXCEPT !.by = None] ELSE call[k]]
    /\ calm' = FALSE
    /\ UNCHANGED <<row, past, issued, made, alive, entry, config, loop, twice, overtaken>>

SaveConfig(o) ==
    /\ At(o, "save")
    /\ config' = [config EXCEPT ![op[o].plugin] = op[o].bot]
    /\ op' = [op EXCEPT ![o] = None]
    /\ UNCHANGED <<serverVars, loop, history>>

\* waitForClaimAndSave has its bot: it writes the config, aborted or not.
SaveClaim(t) ==
    /\ t[1] \in ClaimCodes
    /\ loop[t].step = "got"
    /\ config' = [config EXCEPT ![loop[t].plugin] = loop[t].bot]
    /\ loop' = [loop EXCEPT ![t].step = "end"]
    /\ UNCHANGED <<serverVars, op, history>>

\* The signal is looked at between two polls.
StopEnroll(t) ==
    /\ loop[t].step = "top" /\ loop[t].aborted
    /\ Answer(t, "end", None)
    /\ UNCHANGED <<serverVars, config, op, history>>

\* The user unbinds a bot in the app.
UnbindByUser(b) ==
    /\ b \in alive
    /\ alive' = alive \ {b}
    /\ UNCHANGED <<row, past, issued, made, entry, call, gatewayVars, history>>

\* The gateway dies; its requests do not.
Crash(p) ==
    /\ \/ \E o \in Ops : op[o] # None /\ op[o].plugin = p
       \/ \E t \in Tickets : loop[t].plugin = p /\ loop[t].step \notin {"off", "end"}
    /\ op' = [o \in Ops |-> IF op[o] # None /\ op[o].plugin = p THEN None ELSE op[o]]
    /\ call' = [k \in Calls |-> IF call[k] # None /\ call[k].by # None /\ op[call[k].by].plugin = p
                                THEN [call[k] EXCEPT !.by = None] ELSE call[k]]
    /\ loop' = [t \in Tickets |-> IF loop[t].plugin = p THEN [loop[t] EXCEPT !.step = "end"] ELSE loop[t]]
    /\ entry' = [c \in Codes |-> IF entry[c] = None THEN None ELSE
                  [entry[c] EXCEPT !.waiters = {g \in @ : loop[<<c, g>>].plugin # p}]]
    /\ calm' = FALSE
    /\ UNCHANGED <<row, past, issued, made, alive, config, twice, overtaken>>

\* The server restarts: the hubs and the requests are gone, the database is not.
ServerRestart ==
    /\ entry' = [c \in Codes |-> None]
    /\ call' = [k \in Calls |-> None]
    /\ op' = [o \in Ops |-> IF At(o, "await") THEN None ELSE op[o]]
    /\ loop' = [t \in Tickets |-> IF loop[t].step = "parked"
                                  THEN [loop[t] EXCEPT !.step = "top"] ELSE loop[t]]
    /\ calm' = FALSE
    /\ twice' = twice \cup {call[k].ticket : k \in {j \in Active : call[j].step = "delete"}}
    /\ UNCHANGED <<row, past, issued, made, alive, config, overtaken>>

-----------------------------------------------------------------------------
\* One round of a poll.
Poll(t) ==
    \/ PollInvalid(t) \/ PollBound(t) \/ PollExpired(t) \/ PollParks(t) \/ ParkedTooLong(t)
    \/ PageDone(t) \/ SaveClaim(t) \/ StopEnroll(t)

Next ==
    \/ \E c \in Codes : CreateBindingCode(c) \/ CancelBindingCode(c) \/ Expire(c) \/ Cleanup(c)
    \/ \E o \in Ops, c \in ClaimCodes : CreateClaimCode(o, c) \/ DropExpiredClaimCode(o, c)
    \/ \E k \in Calls, c \in ClaimCodes : Claim(k, c)
    \/ \E k \in Calls : Redeem(k) \/ Mark(k)
    \/ \E t \in Tickets : Poll(t) \/ CancelBindingWait(t) \/ CancelClaimWait(t) \/ LeavePage(t)
    \/ \E o \in Ops, p \in Plugins, c \in BindCodes : Bind(o, p, c)
    \/ \E o \in Ops, p \in Plugins : Unbind(o, p) \/ Enroll(o, p)
    \/ \E o \in Ops, k \in Calls : AskServer(o, k)
    \/ \E o \in Ops : UnbindOnServer(o) \/ ClearConfig(o) \/ LoseReply(o) \/ SaveConfig(o)
    \/ \E b \in Bots : UnbindByUser(b)
    \/ \E p \in Plugins : Crash(p)
    \/ ServerRestart

Spec == Init /\ [][Next]_vars

\* Time passes, timers fire, and a poll that is sent is answered in the end.
FairSpec ==
    /\ Spec
    /\ \A c \in Codes : WF_vars(Expire(c)) /\ WF_vars(Cleanup(c))
    /\ \A t \in Tickets : WF_vars(Poll(t))

-----------------------------------------------------------------------------
(* Properties *)

\* A code makes two bots only if its redemptions overlapped between the
\* lookup and the deletion of the code, or the deletion failed, or the server
\* restarted before it.
TwoBotsOnlyByRace ==
    \A b1, b2 \in DOMAIN made : (b1 # b2 /\ made[b1] = made[b2]) => made[b1] \in twice

\* Whoever waits for a ticket is told the bot made for that ticket, unless
\* the code was issued again under the wait or under the redemption.
AnswerIsOwn ==
    \A t \in Tickets :
        (loop[t].bot # None /\ t[1] \notin overtaken) => made[loop[t].bot] = t

\* A bot made by a binding code is on its way to a gateway or in a config,
\* as long as no reply was lost, no gateway crashed, none ran two RPCs at a
\* time and none enrolled: rebinding never leaves an orphan.
NoOrphan ==
    /\ TypeOK
    /\ calm => \A b \in alive :
        \/ \E p \in Plugins : config[p] = b
        \/ \E k \in Active : call[k].bot = b
        \/ \E o \in Ops : op[o] # None /\ op[o].bot = b

\* Who polls for a ticket stops polling in the end.
PollEnds == \A t \in Tickets : loop[t].step # "off" ~> loop[t].step = "end"

\* cancel does not block markBound (binding-wait-hub.js): a redemption that
\* succeeds is recorded in the entry even if a wait was cancelled.  It is not.
CancelDoesNotBlockMark ==
    [][\A k \in Calls :
        (/\ call[k] # None /\ call[k].step = "mark" /\ call'[k] = None
         /\ entry[call[k].code] # None /\ entry'[call[k].code] # None
         /\ entry[call[k].code].status \in {"pending", "cancelled"})
        => entry'[call[k].code].status = "bound"]_vars

=============================================================================
