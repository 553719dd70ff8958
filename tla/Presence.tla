------------------------------ MODULE Presence ------------------------------
(***************************************************************************)
(* What the bot hub of the server promises about bot presence, without     *)
(* sockets, heartbeats or timers.                                          *)
(*                                                                         *)
(* A bot is present when listOnlineBotIds() returns it.  The emitter       *)
(* botStatusEmitter announces changes; "announced" is the value of the     *)
(* last 'status' event of a bot.  A bot whose row exists is announced      *)
(* online exactly when it is present, so a client that takes a snapshot    *)
(* and then follows the events never disagrees with a later snapshot.      *)
(* Only a bot whose row is gone may disappear silently.                    *)
(***************************************************************************)
CONSTANT Bots            \* the bots that ever exist

VARIABLES
    fresh,               \* the bots not created yet
    bound,               \* the bots that have a row in the database
    present,             \* the bots listOnlineBotIds() returns
    announced            \* the bots whose last 'status' event said online

presenceVars == <<fresh, bound, present, announced>>

PresenceTypeOK ==
    /\ fresh \subseteq Bots
    /\ bound \subseteq Bots
    /\ present \subseteq Bots
    /\ announced \subseteq Bots

PresenceInit ==
    /\ fresh \in SUBSET Bots
    /\ bound = Bots \ fresh
    /\ present = {}
    /\ announced = {}

\* A bot is bound: its row is created.
Bind(b) ==
    /\ b \in fresh
    /\ fresh' = fresh \ {b}
    /\ bound' = bound \cup {b}
    /\ UNCHANGED <<present, announced>>

\* A connection is accepted.  Its token was looked up earlier, so the row may
\* be gone by now.  A bot that is already present is announced again, which
\* changes nothing.
Appear(b) ==
    /\ b \notin fresh
    /\ present' = present \cup {b}
    /\ announced' = announced \cup {b}
    /\ UNCHANGED <<fresh, bound>>

\* The last connection is gone, for good or for longer than the grace period.
Disappear(b) ==
    /\ b \in present
    /\ present' = present \ {b}
    /\ announced' = announced \ {b}
    /\ UNCHANGED <<fresh, bound>>

\* The row is deleted.
Unbind(b) ==
    /\ b \in bound
    /\ bound' = bound \ {b}
    /\ UNCHANGED <<fresh, present, announced>>

\* The hub drops an unbound bot that has no connection, without an event.
Withdraw(b) ==
    /\ b \in present \ bound
    /\ present' = present \ {b}
    /\ UNCHANGED <<fresh, bound, announced>>

PresenceNext ==
    \E b \in Bots : Bind(b) \/ Appear(b) \/ Disappear(b) \/ Unbind(b) \/ Withdraw(b)

PresenceSpec == PresenceInit /\ [][PresenceNext]_presenceVars

=============================================================================
