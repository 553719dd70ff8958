------------------------------ MODULE UiRelay -------------------------------
(***************************************************************************)
(* The UI sockets of the bot WebSocket hub, src/server/src/bot-ws-hub.js:  *)
(* tickets, upgrades, and what the hub hands on between the tabs of a bot  *)
(* and its plugin.  There is one bot; what its own sockets go through is   *)
(* BotHub's, of which the replacement of a socket is kept here.  A message *)
(* is a request, answered to every tab, or an offer, answered to the tab   *)
(* it came from.  A send to a socket that is closing is lost, unseen.      *)
(***************************************************************************)
EXTENDS Naturals, FiniteSets

CONSTANTS
    Uis,                 \* UI WebSockets, each with a connId of its own
    BotSocks,            \* WebSockets of the plugin
    Tickets,
    Requests, Offers     \* messages of the tabs

VARIABLES
    ui,                  \* the state of each UI socket
    by,                  \* the ticket it has named
    admitted,            \* the tickets that have let a socket in, with the socket
    ticket,              \* uiTickets
    botSock,             \* the state of each socket of the plugin
    botSockets,          \* botSockets of the bot
    sender,              \* message -> the socket it came by, or none
    wire,                \* messages on the way, with the plugin's socket
    done,                \* message -> how often the plugin has carried it out
    told                 \* what has been told: message, socket, "res" or "offline"

vars == <<ui, by, admitted, ticket, botSock, botSockets, sender, wire, done, told>>
uiVars == <<ui, by, admitted, ticket>>
botVars == <<botSock, botSockets>>

Messages == Requests \cup Offers

TypeOK ==
    /\ ui \in [Uis -> {"unused", "session", "open", "closing", "closed"}]
    /\ by \in [Uis -> Tickets]
    /\ admitted \subseteq Uis \X Tickets
    /\ ticket \in [Tickets -> {"none", "issued", "expired", "gone"}]
    /\ botSock \in [BotSocks -> {"unused", "open", "closing", "closed"}]
    /\ botSockets \subseteq BotSocks
    /\ sender \in [Messages -> SUBSET Uis]
    /\ wire \subseteq Messages \X BotSocks
    /\ done \in [Messages -> 0..Cardinality(BotSocks)]
    /\ told \subseteq Messages \X Uis \X {"res", "offline"}

Init ==
    /\ ui = [w \in Uis |-> "unused"] /\ by \in [Uis -> Tickets]
    /\ admitted = {} /\ ticket = [t \in Tickets |-> "none"]
    /\ botSock = [b \in BotSocks |-> "unused"] /\ botSockets = {}
    /\ sender = [m \in Messages |-> {}] /\ wire = {} /\ done = [m \in Messages |-> 0] /\ told = {}

-----------------------------------------------------------------------------
(* Tickets and upgrades *)

\* createUiWsTicketHandler, for a bot that is the user's
CreateUiWsTicket(t) == ticket' = [ticket EXCEPT ![t] = "issued"]
CreateTicket(t) ==
    /\ ticket[t] = "none" /\ CreateUiWsTicket(t)
    /\ UNCHANGED <<ui, by, admitted, botVars, sender, wire, done, told>>

\* Its time is up, and pruneUiTickets finds it
Expire(t) ==
    /\ ticket[t] = "issued" /\ ticket' = [ticket EXCEPT ![t] = "expired"]
    /\ UNCHANGED <<ui, by, admitted, botVars, sender, wire, done, told>>

Prune(t) ==
    /\ ticket[t] = "expired" /\ ticket' = [ticket EXCEPT ![t] = "gone"]
    /\ UNCHANGED <<ui, by, admitted, botVars, sender, wire, done, told>>

\* authenticateUiSession waits for the session store and the database.
Upgrade(w) ==
    /\ ui[w] = "unused" /\ ui' = [ui EXCEPT ![w] = "session"]
    /\ UNCHANGED <<by, admitted, ticket, botVars, sender, wire, done, told>>

SessionFound(w) ==
    /\ ui[w] = "session" /\ ui' = [ui EXCEPT ![w] = "open"]
    /\ UNCHANGED <<by, admitted, ticket, botVars, sender, wire, done, told>>

\* authenticateUiTicket: what is asked for is taken away, valid or not.  And one
\* that leaves it.
KeepTicket(t) == ticket
TakeTicket(t) == IF ticket[t] = "none" THEN ticket ELSE [ticket EXCEPT ![t] = "gone"]

NoSession(w) ==
    /\ ui[w] = "session"
    /\ ticket' = TakeTicket(by[w])
    /\ IF ticket[by[w]] = "issued"
       THEN ui' = [ui EXCEPT ![w] = "open"] /\ admitted' = admitted \cup {<<w, by[w]>>}
       ELSE ui' = [ui EXCEPT ![w] = "closed"] /\ UNCHANGED admitted
    /\ UNCHANGED <<by, botVars, sender, wire, done, told>>

\* unregisterSocket, at the close event
UiLeaves(w) ==
    /\ ui[w] = "open" /\ ui' = [ui EXCEPT ![w] = "closing"]
    /\ UNCHANGED <<by, admitted, ticket, botVars, sender, wire, done, told>>

UiCloseEvent(w) ==
    /\ ui[w] = "closing" /\ ui' = [ui EXCEPT ![w] = "closed"]
    /\ UNCHANGED <<by, admitted, ticket, botVars, sender, wire, done, told>>

-----------------------------------------------------------------------------
(* The sockets of the plugin *)

\* A new socket replaces the others, which stay in the set until they are closed.
\* And a hub that lets them be.
Spared == botSock
Terminated == [b \in BotSocks |-> IF b \in botSockets /\ botSock[b] = "open" THEN "closing" ELSE botSock[b]]

BotConnects(b) ==
    /\ botSock[b] = "unused"
    /\ botSock' = [Terminated EXCEPT ![b] = "open"]
    /\ botSockets' = botSockets \cup {b}
    /\ UNCHANGED <<uiVars, sender, wire, done, told>>

\* The plugin leaves, or says bot.unbound, upon which the hub closes its socket.
BotLeaves(b) ==
    /\ botSock[b] = "open" /\ botSock' = [botSock EXCEPT ![b] = "closing"]
    /\ UNCHANGED <<uiVars, botSockets, sender, wire, done, told>>

BotCloseEvent(b) ==
    /\ botSock[b] = "closing"
    /\ botSock' = [botSock EXCEPT ![b] = "closed"] /\ botSockets' = botSockets \ {b}
    /\ wire' = {x \in wire : x[2] # b}
    /\ UNCHANGED <<uiVars, sender, done, told>>

-----------------------------------------------------------------------------
(* Messages *)

\* forwardToBot: to every socket of the bot; FALSE only if there is none.
ForwardToBot(m) == wire' = wire \cup {<<m, b>> : b \in {c \in botSockets : botSock[c] = "open"}}

Tell(m, ws, what) == told' = told \cup {<<m, w, what>> : w \in {x \in ws : ui[x] = "open"}}

\* onUiMessage: an offer to a bot that is offline is dropped.
OnUiMessage(w, m) ==
    /\ ui[w] = "open" /\ sender[m] = {}
    /\ sender' = [sender EXCEPT ![m] = {w}]
    /\ ForwardToBot(m)
    /\ IF botSockets = {} /\ m \in Requests THEN Tell(m, {w}, "offline") ELSE UNCHANGED told
    /\ UNCHANGED <<uiVars, botVars, done>>

\* The plugin carries it out ...
Handle(m, b) ==
    /\ <<m, b>> \in wire /\ botSock[b] = "open"
    /\ wire' = wire \ {<<m, b>>} /\ done' = [done EXCEPT ![m] = @ + 1]
    /\ UNCHANGED <<uiVars, botVars, sender, told>>

\* ... and onBotMessage hands its answer on, to all or to one.
FindUiSocketByConnId(m) == sender[m]
Answer(m, b) ==
    /\ done[m] > 0 /\ botSock[b] = "open"
    /\ Tell(m, IF m \in Requests THEN Uis ELSE FindUiSocketByConnId(m), "res")
    /\ UNCHANGED <<uiVars, botVars, sender, wire, done>>

Next ==
    \/ \E t \in Tickets : CreateTicket(t) \/ Expire(t) \/ Prune(t)
    \/ \E w \in Uis : Upgrade(w) \/ SessionFound(w) \/ NoSession(w) \/ UiLeaves(w) \/ UiCloseEvent(w)
    \/ \E b \in BotSocks : BotConnects(b) \/ BotLeaves(b) \/ BotCloseEvent(b)
    \/ \E w \in Uis, m \in Messages : OnUiMessage(w, m)
    \/ \E m \in Messages, b \in BotSocks : Handle(m, b) \/ Answer(m, b)

Spec == Init /\ [][Next]_vars

-----------------------------------------------------------------------------
(* Properties *)

\* A ticket lets one socket in.
TicketOnce == \A x, y \in admitted : x[2] = y[2] => x = y

\* A request is carried out at most once, though it goes to every socket of the
\* bot; one that was refused as offline never is, and an offer is answered to the
\* tab it came from alone.
OnceOrRefused ==
    /\ \A m \in Messages : done[m] + Cardinality({x \in wire : x[1] = m /\ botSock[x[2]] = "open"}) <= 1
    /\ \A x \in told : x[3] = "offline" <=> done[x[1]] = 0
    /\ \A x \in told : x[1] \in Offers => x[2] \in sender[x[1]]

\* A message is lost without a word only with a socket of the plugin that closed.
LostOnlyByClosing ==
    \A m \in Messages :
        \/ sender[m] = {} \/ done[m] > 0 \/ \E x \in wire : x[1] = m
        \/ m \in Offers
        \/ \E x \in told : x[1] = m
        \/ \E b \in BotSocks : botSock[b] \in {"closing", "closed"}

RelayKept == TypeOK /\ TicketOnce /\ OnceOrRefused /\ LostOnlyByClosing
=============================================================================
