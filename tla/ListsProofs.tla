----------------------------- MODULE ListsProofs -----------------------------
(***************************************************************************)
(* Proofs about what a tab lists, for any bots, streams, agents, topics,   *)
(* sessions and users and any number of changes.                           *)
(*                                                                         *)
(* TabAgrees speaks of settled states only.  It is inductive once it is    *)
(* said what holds while something is under way: the lookups of a bot that *)
(* is not unsure carry the truth, and the view of a bot without a lookup   *)
(* shows it.  ListsAgree needs the same of the answers that are under way  *)
(* to the tab: they carry what was heard when they were asked for.         *)
(* ChatShown compares what is shown with what is picked and grouped of     *)
(* sequences: the folds of the model are replaced by the functions of      *)
(* their intermediate results, and induction is over sets of numbers and   *)
(* of sequences (AllNumbers, AllSequences).                                *)
(***************************************************************************)
EXTENDS MCLists, SequencesExt, FiniteSetTheorems, SequenceTheorems, WellFoundedInduction, TLAPS

-----------------------------------------------------------------------------
(* The status stream: the inductive invariant *)

\* Only a handler that has come to its end has registered its response.
Registered == \A s \in sseClients : stream[s] = "streaming"

\* A response that closed before that is known to be early; one that closed
\* after it was unregistered.
Early == \A s \in closed : stream[s] = "streaming" \/ s \in early

\* Of a bot that is not created yet nobody has heard.
Unheard ==
    \A b \in fresh :
        /\ b \notin bound \cup present \cup telling /\ view[b] = "absent"
        /\ \A s \in Streams : b \notin rows[s]
        /\ \A e \in lookups : e.bot # b

\* Of a bot that was created and whose tab is still to be told there is no more
\* to show than that it is there.
New ==
    \A b \in telling \cap bound :
        /\ b \notin present /\ (view[b] = "online" => b \in kept)
        /\ \A e \in lookups : e.bot # b

\* The lookups of a bot that is not unsure will tell the truth.
LookupsTrue ==
    \A e \in lookups : e.bot \in bound \ unsure => e.online = (e.bot \in present)

\* The tab lists the bots that are bound, but for those it is still to be told
\* of and those it has missed.
Listed ==
    Reached => \A b \in Bots \ (telling \cup missed) : view[b] = "absent" <=> b \notin bound

\* It shows whether they are online, but for those whose lookup is under way,
\* that are unsure, or that the last snapshot left online.
Shows ==
    Reached => \A b \in bound \ (telling \cup missed \cup unsure \cup kept) :
        (\A e \in lookups : e.bot # b) => (view[b] = "online" <=> b \in present)

\* Those are shown online, and are bound or about to be taken off the list.
KeptOnline == \A b \in kept : view[b] = "online"

StreamInv ==
    /\ TypeOK /\ DeadClientOnlyByRace
    /\ Registered /\ Early /\ Unheard /\ New /\ LookupsTrue /\ Listed /\ Shows /\ KeptOnline

\* The invariant holds at the start.
LEMMA StreamInit == Init => StreamInv
  BY StreamAssumption
  DEF Init, PresenceInit, StreamInv, TypeOK, PresenceTypeOK, Phases, Seen, Event,
      DeadClientOnlyByRace, Registered, Early, Unheard, New, LookupsTrue, Listed, Shows, KeptOnline, Reached

-----------------------------------------------------------------------------
(* The status stream: every step keeps the invariant *)

\* A bot comes online: if the tab is reached, a lookup carries that.
LEMMA BotAppearsStep ==
  ASSUME StreamInv, NEW b \in Bots, BotAppears(b) PROVE StreamInv'
<1> DEFINE new == [bot |-> b, online |-> TRUE, hadRow |-> b \in bound]
<1>. USE DEF BotAppears, Appear, presenceVars, streamVars, tabVars
<1>1. /\ lookups' = IF sseClients = {} THEN lookups ELSE lookups \cup {new}
      /\ unsure' = IF \E e \in lookups : e.bot = b THEN unsure \cup {b} ELSE unsure \ {b}
      /\ new \in Event /\ new.bot = b /\ new.online = TRUE
  BY DEF Emit, Event
<1>. HIDE DEF new
<1>2. TypeOK'
  BY <1>1, StreamAssumption DEF Change, StreamInv, TypeOK, PresenceTypeOK
<1>3. (DeadClientOnlyByRace /\ Registered /\ Early)'
  BY DEF StreamInv, DeadClientOnlyByRace, Registered, Early
<1>4. Unheard' /\ New'
  BY <1>1 DEF StreamInv, Unheard, New
<1>5. LookupsTrue'
  <2> SUFFICES ASSUME NEW e \in lookups', e.bot \in bound' \ unsure'
               PROVE  e.online = (e.bot \in present')
    BY DEF LookupsTrue
  <2>1. CASE e.bot = b
    BY <1>1, <2>1
  <2>2. CASE e.bot # b
    BY <1>1, <2>2 DEF StreamInv, LookupsTrue
  <2>. QED BY <2>1, <2>2
<1>6. Listed' /\ (Reached' => Reached)
  BY DEF StreamInv, Listed, Reached
<1>7. Shows'
  <2> SUFFICES ASSUME Reached', NEW c \in bound' \ (telling' \cup missed' \cup unsure' \cup kept'),
                      \A e \in lookups' : e.bot # c
               PROVE  view'[c] = "online" <=> c \in present'
    BY DEF Shows
  <2>1. c # b
    BY <1>1, <1>6 DEF Reached
  <2>2. c \notin unsure /\ \A e \in lookups : e.bot # c
    BY <1>1, <2>1
  <2>. QED BY <1>6, <2>1, <2>2 DEF StreamInv, Shows
<1>8. KeptOnline'
  BY DEF StreamInv, KeptOnline
<1>. QED BY <1>2, <1>3, <1>4, <1>5, <1>6, <1>7, <1>8 DEF StreamInv

\* A bot goes offline.
LEMMA BotDisappearsStep ==
  ASSUME StreamInv, NEW b \in Bots, BotDisappears(b) PROVE StreamInv'
<1> DEFINE new == [bot |-> b, online |-> FALSE, hadRow |-> b \in bound]
<1>. USE DEF BotDisappears, Disappear, presenceVars, streamVars, tabVars
<1>1. /\ lookups' = IF sseClients = {} THEN lookups ELSE lookups \cup {new}
      /\ unsure' = IF \E e \in lookups : e.bot = b THEN unsure \cup {b} ELSE unsure \ {b}
      /\ new \in Event /\ new.bot = b /\ new.online = FALSE
  BY DEF Emit, Event
<1>. HIDE DEF new
<1>2. TypeOK'
  BY <1>1, StreamAssumption DEF Change, StreamInv, TypeOK, PresenceTypeOK
<1>3. (DeadClientOnlyByRace /\ Registered /\ Early)'
  BY DEF StreamInv, DeadClientOnlyByRace, Registered, Early
<1>4. Unheard' /\ New'
  BY <1>1 DEF StreamInv, Unheard, New
<1>5. LookupsTrue'
  <2> SUFFICES ASSUME NEW e \in lookups', e.bot \in bound' \ unsure'
               PROVE  e.online = (e.bot \in present')
    BY DEF LookupsTrue
  <2>1. CASE e.bot = b
    <3>1. e = new /\ b \notin present'
      BY <1>1, <2>1
    <3>2. (b \in present') = FALSE
      BY <3>1
    <3>. QED BY <1>1, <2>1, <3>1, <3>2
  <2>2. CASE e.bot # b
    BY <1>1, <2>2 DEF StreamInv, LookupsTrue
  <2>. QED BY <2>1, <2>2
<1>6. Listed' /\ (Reached' => Reached)
  BY DEF StreamInv, Listed, Reached
<1>7. Shows'
  <2> SUFFICES ASSUME Reached', NEW c \in bound' \ (telling' \cup missed' \cup unsure' \cup kept'),
                      \A e \in lookups' : e.bot # c
               PROVE  view'[c] = "online" <=> c \in present'
    BY DEF Shows
  <2>1. c # b
    BY <1>1, <1>6 DEF Reached
  <2>2. c \notin unsure /\ \A e \in lookups : e.bot # c
    BY <1>1, <2>1
  <2>. QED BY <1>6, <2>1, <2>2 DEF StreamInv, Shows
<1>8. KeptOnline'
  BY DEF StreamInv, KeptOnline
<1>. QED BY <1>2, <1>3, <1>4, <1>5, <1>6, <1>7, <1>8 DEF StreamInv

\* A bot that is gone is dropped without an event; it is not listed.
LEMMA BotWithdrawnStep ==
  ASSUME StreamInv, NEW b \in Bots, BotWithdrawn(b) PROVE StreamInv'
  BY StreamAssumption DEF BotWithdrawn, Withdraw,
      presenceVars, streamVars, tabVars, ghostVars,
      StreamInv, TypeOK, PresenceTypeOK, Phases, Seen, Event,
      DeadClientOnlyByRace, Registered, Early, Unheard, New, LookupsTrue, Listed, Shows, KeptOnline, Reached

\* A bot is bound: it is new.
LEMMA CreateRowStep ==
  ASSUME StreamInv, NEW b \in Bots, CreateRow(b) PROVE StreamInv'
  BY StreamAssumption DEF CreateRow, Change, Bind,
      presenceVars, streamVars, tabVars, ghostVars,
      StreamInv, TypeOK, PresenceTypeOK, Phases, Seen, Event,
      DeadClientOnlyByRace, Registered, Early, Unheard, New, LookupsTrue, Listed, Shows, KeptOnline, Reached

\* A bot is unbound.
LEMMA DeleteRowStep ==
  ASSUME StreamInv, NEW b \in Bots, DeleteRow(b) PROVE StreamInv'
  BY StreamAssumption DEF DeleteRow, Change, Unbind,
      presenceVars, streamVars, tabVars, ghostVars,
      StreamInv, TypeOK, PresenceTypeOK, Phases, Seen, Event,
      DeadClientOnlyByRace, Registered, Early, Unheard, New, LookupsTrue, Listed, Shows, KeptOnline, Reached

\* The tab is told of a binding.
LEMMA TellUserStep ==
  ASSUME StreamInv, NEW b \in Bots, TellUser(b) PROVE StreamInv'
  BY StreamAssumption DEF TellUser,
      presenceVars, streamVars, tabVars, ghostVars,
      StreamInv, TypeOK, PresenceTypeOK, Phases, Seen, Event,
      DeadClientOnlyByRace, Registered, Early, Unheard, New, LookupsTrue, Listed, Shows, KeptOnline, Reached

\* A lookup ends and the tab is told what it carries.
LEMMA FinishLookupStep ==
  ASSUME StreamInv, NEW e \in lookups, FinishLookup(e) PROVE StreamInv'
  BY StreamAssumption DEF FinishLookup, Shown,
      presenceVars, streamVars, tabVars, ghostVars,
      StreamInv, TypeOK, PresenceTypeOK, Phases, Seen, Event,
      DeadClientOnlyByRace, Registered, Early, Unheard, New, LookupsTrue, Listed, Shows, KeptOnline, Reached

\* A lookup fails: its bot is unsure, or gone.
LEMMA DropLookupStep ==
  ASSUME StreamInv, NEW e \in lookups, DropLookup(e) PROVE StreamInv'
  BY StreamAssumption DEF DropLookup,
      presenceVars, streamVars, tabVars, ghostVars,
      StreamInv, TypeOK, PresenceTypeOK, Phases, Seen, Event,
      DeadClientOnlyByRace, Registered, Early, Unheard, New, LookupsTrue, Listed, Shows, KeptOnline, Reached

\* The tab asks for a new stream, which is not registered yet.
LEMMA TabConnectsStep ==
  ASSUME StreamInv, NEW s \in Streams, TabConnects(s) PROVE StreamInv'
  BY StreamAssumption DEF TabConnects, Unregister,
      presenceVars, streamVars, tabVars, ghostVars,
      StreamInv, TypeOK, PresenceTypeOK, Phases, Seen, Event,
      DeadClientOnlyByRace, Registered, Early, Unheard, New, LookupsTrue, Listed, Shows, KeptOnline, Reached

\* The stream breaks.
LEMMA StreamBreaksStep ==
  ASSUME StreamInv, StreamBreaks PROVE StreamInv'
  BY StreamAssumption DEF StreamBreaks, Unregister,
      presenceVars, streamVars, tabVars, ghostVars,
      StreamInv, TypeOK, PresenceTypeOK, Phases, Seen, Event,
      DeadClientOnlyByRace, Registered, Early, Unheard, New, LookupsTrue, Listed, Shows, KeptOnline, Reached

\* The handler has read the table.
LEMMA ReadRowsStep ==
  ASSUME StreamInv, NEW s \in Streams, ReadRows(s) PROVE StreamInv'
  BY StreamAssumption DEF ReadRows,
      presenceVars, streamVars, tabVars, ghostVars,
      StreamInv, TypeOK, PresenceTypeOK, Phases, Seen, Event,
      DeadClientOnlyByRace, Registered, Early, Unheard, New, LookupsTrue, Listed, Shows, KeptOnline, Reached

\* The tab gets a snapshot; who is unsure or missed is found anew.
LEMMA SnapshotAndRegisterStep ==
  ASSUME StreamInv, NEW s \in Streams, SnapshotAndRegister(s) PROVE StreamInv'
  BY StreamAssumption DEF SnapshotAndRegister, Snapshot, Kept,
      presenceVars, streamVars, tabVars, ghostVars,
      StreamInv, TypeOK, PresenceTypeOK, Phases, Seen, Event,
      DeadClientOnlyByRace, Registered, Early, Unheard, New, LookupsTrue, Listed, Shows, KeptOnline, Reached

\* The snapshot has failed: everything is missed.
LEMMA RegisterOnlyStep ==
  ASSUME StreamInv, NEW s \in Streams, RegisterOnly(s) PROVE StreamInv'
  BY StreamAssumption DEF RegisterOnly,
      presenceVars, streamVars, tabVars, ghostVars,
      StreamInv, TypeOK, PresenceTypeOK, Phases, Seen, Event,
      DeadClientOnlyByRace, Registered, Early, Unheard, New, LookupsTrue, Listed, Shows, KeptOnline, Reached

\* Every step keeps the invariant.
LEMMA StreamNext == StreamInv /\ [Next]_vars => StreamInv'
<1> SUFFICES ASSUME StreamInv, [Next]_vars PROVE StreamInv'
  OBVIOUS
<1>1. CASE UNCHANGED vars
  BY <1>1 DEF vars, presenceVars, streamVars, tabVars, ghostVars,
      StreamInv, TypeOK, PresenceTypeOK, DeadClientOnlyByRace, Registered, Early,
      Unheard, New, LookupsTrue, Listed, Shows, KeptOnline, Reached
<1>. QED
  BY <1>1, BotAppearsStep, BotDisappearsStep, BotWithdrawnStep, CreateRowStep, DeleteRowStep,
     TellUserStep, FinishLookupStep, DropLookupStep, TabConnectsStep, StreamBreaksStep,
     ReadRowsStep, SnapshotAndRegisterStep, RegisterOnlyStep DEF Next

\* The invariant holds in every reachable state of the stream.
THEOREM StreamInvariance == Spec => []StreamInv
  BY StreamInit, StreamNext, PTL DEF Spec

\* A settled tab shows every bot as it is, but for those whose status events
\* overtook each other or were dropped, those bound or unbound while the
\* snapshot was built, and those a snapshot left online.
THEOREM SettledTabAgrees == Spec => []TabAgrees
<1>1. StreamInv => TabAgrees
  BY DEF StreamInv, TypeOK, PresenceTypeOK, Seen, Listed, Shows, KeptOnline, TabAgrees, Settled, Truth
<1>. QED BY <1>1, StreamInvariance, PTL

\* A closed response is written to only if it closed while its snapshot was
\* built.
THEOREM DeadClients == Spec => []DeadClientOnlyByRace
<1>1. StreamInv => DeadClientOnlyByRace
  BY DEF StreamInv
<1>. QED BY <1>1, StreamInvariance, PTL

-----------------------------------------------------------------------------
(* Agents and the dashboard *)

\* An orphan, too, leaves an entry alone that is not loading.
LEMMA AgentsNext ==
  ASSUME Agents!NeverStuck, Agents!Next PROVE Agents!NeverStuck'
<1>. USE DEF Agents!NeverStuck, Agents!TypeOK, Agents!Entry, Agents!NoEntry
<1>0. /\ Agents!NoEntry \in Agents!Entry
      /\ \A e \in Agents!Entry : Agents!Loading(e) \in Agents!Entry
  BY DEF Agents!Loading
<1>1. CASE Agents!LoadAgents
  BY <1>1 DEF Agents!LoadAgents, Agents!Loading
<1>2. CASE Agents!AgentsAnswered \/ Agents!AgentsFail
  <2>1. PICK is \in {"none", "empty", "error", "filled"} : Agents!AgentsEnd(is)
    BY <1>2 DEF Agents!AgentsAnswered, Agents!AgentsFail
  <2>2. /\ \A d \in x5 : [d EXCEPT !.step = "rpc"] \in [step : {"agents", "rpc"}, own : BOOLEAN]
        /\ \A d \in x5 : [d EXCEPT !.step = "rpc"].own = d.own
    OBVIOUS
  <2>3. Agents!TypeOK'
    <3>1. x5' \subseteq [step : {"agents", "rpc"}, own : BOOLEAN]
      BY <2>1, <2>2 DEF Agents!AgentsEnd, Agents!GoOn
    <3>. QED BY <2>1, <3>1 DEF Agents!AgentsEnd, Agents!Finally
  <2>4. (x2.loading => x3 = "own")'
    BY <2>1 DEF Agents!AgentsEnd, Agents!Finally
  <2>5. (x4.loading => \E d \in x5 : d.own)'
    <3>1. SUFFICES ASSUME x4.loading PROVE \E d \in x5' : d.own
      BY <2>1 DEF Agents!AgentsEnd
    <3>2. PICK d \in x5 : d.own
      BY <3>1
    <3>. DEFINE on == [d EXCEPT !.step = "rpc"]
    <3>3. on \in x5'
      BY <2>1 DEF Agents!AgentsEnd, Agents!GoOn
    <3>4. on.own
      BY <2>2, <3>2
    <3>. HIDE DEF on
    <3>. QED BY <3>3, <3>4
  <2>. QED BY <2>3, <2>4, <2>5
<1>3. CASE Agents!LoadDashboard
  <2>. DEFINE new == [step |-> IF x2.is = "filled" THEN "rpc" ELSE "agents", own |-> TRUE]
  <2>1. new \in [step : {"agents", "rpc"}, own : BOOLEAN] /\ new.own
    OBVIOUS
  <2>2. x5' = x5 \cup {new}
    BY <1>3 DEF Agents!LoadDashboard
  <2>3. x4' \in Agents!Entry
    BY <1>3 DEF Agents!LoadDashboard, Agents!Loading
  <2>. HIDE DEF new
  <2>4. x1' = x1 /\ (\/ x2' = x2 /\ x3' = x3
                     \/ x2' = Agents!Loading(x2) /\ x3' = "own")
    BY <1>3 DEF Agents!LoadDashboard
  <2>9. x2' \in Agents!Entry
    BY <1>0, <2>4
  <2>7. x1' \in BOOLEAN /\ x2' \in Agents!Entry /\ x3' \in {"none", "own", "orphan"}
    BY <2>4, <2>9
  <2>8. (x2.loading => x3 = "own")'
    BY <2>4
  <2>5. x5' \subseteq [step : {"agents", "rpc"}, own : BOOLEAN]
    BY <2>1, <2>2
  <2>6. \E d \in x5' : d.own
    BY <2>1, <2>2
  <2>. QED BY <2>3, <2>5, <2>6, <2>7, <2>8
<1>4. ASSUME NEW d \in x5, Agents!DashboardEnds(d) PROVE Agents!NeverStuck'
  BY <1>4 DEF Agents!DashboardEnds, Agents!Finally
<1>5. CASE Agents!ChannelReady \/ Agents!ChannelLost
  BY <1>5 DEF Agents!ChannelReady, Agents!ChannelLost
<1>6. CASE Agents!Offline \/ Agents!RemoveBot
  <2>1. \A d \in x5 : [d EXCEPT !.own = FALSE] \in [step : {"agents", "rpc"}, own : BOOLEAN]
    OBVIOUS
  <2>2. Agents!DropDash /\ x1' = FALSE
    BY <1>6 DEF Agents!Offline, Agents!RemoveBot
  <2>3. x5' \subseteq [step : {"agents", "rpc"}, own : BOOLEAN] /\ x4' = Agents!NoEntry
    BY <2>1, <2>2 DEF Agents!DropDash
  <2>4. \/ x2' = x2 /\ x3' = x3
        \/ x2' = Agents!NoEntry /\ x3' \in {"none", "own", "orphan"}
    BY <1>6 DEF Agents!Offline, Agents!RemoveBot
  <2>7. x2' \in Agents!Entry
    BY <1>0, <2>4
  <2>5. x2' \in Agents!Entry /\ x3' \in {"none", "own", "orphan"}
    BY <2>4, <2>7
  <2>6. (x2.loading => x3 = "own")'
    BY <2>4
  <2>. QED BY <2>2, <2>3, <2>5, <2>6
<1>. QED BY <1>1, <1>2, <1>3, <1>4, <1>5, <1>6 DEF Agents!Next

-----------------------------------------------------------------------------
(* Drafts *)

\* A refresh that ends under the user it was asked for finds drafts that are
\* that user's.
LEMMA DraftsNext ==
  ASSUME Drafts!DraftsOwn, Drafts!Next PROVE Drafts!DraftsOwn'
<1>. USE DEF Drafts!DraftsOwn, Drafts!TypeOK, Drafts!Someone, Drafts!Own, Drafts!NoRefresh,
        Drafts!Persisted, Drafts!RestoreOf
<1>1. CASE Drafts!Type \/ Drafts!Clear
  BY <1>1 DEF Drafts!Type, Drafts!Clear
<1>2. CASE Drafts!Hide
  BY <1>2 DEF Drafts!Hide
<1>3. CASE Drafts!Reload
  BY <1>3 DEF Drafts!Reload
<1>4. ASSUME NEW u \in Users, Drafts!Login(u) PROVE Drafts!DraftsOwn'
  BY <1>4 DEF Drafts!Login
<1>5. CASE Drafts!LoginFails
  BY <1>5 DEF Drafts!LoginFails
<1>6. CASE Drafts!Logout
  BY <1>6 DEF Drafts!Logout
<1>7. ASSUME NEW u \in Drafts!Someone, Drafts!Refresh(u) PROVE Drafts!DraftsOwn'
  BY <1>7 DEF Drafts!Refresh
<1>8. CASE Drafts!Refreshed
  BY <1>8 DEF Drafts!Refreshed
<1>9. CASE Drafts!RefreshFails
  BY <1>9 DEF Drafts!RefreshFails
<1>. QED BY <1>1, <1>2, <1>3, <1>4, <1>5, <1>6, <1>7, <1>8, <1>9 DEF Drafts!Next

-----------------------------------------------------------------------------
(* Topics and sessions: the inductive invariant *)

\* What a load has of a topic is what was last heard of it, unless that has
\* overtaken it.
CarriesHeard ==
    \A t \in ListTopics :
        OwnerOf[t] \in x4.load.got => x4.snap[t] = x7[t] \/ t \in x8

\* The topics' part of the invariant, and that of bots and sessions: only bots
\* that were asked answer or fail, and only a listed bot is asked.
TopicsInv ==
    /\ x2 \in [ListTopics -> Lists!What \cup {"deleted"}]
    /\ x3 \in [ListTopics -> Lists!What] /\ x7 \in [ListTopics -> Lists!What]
    /\ x4 \in [load : Lists!Load, snap : [ListTopics -> Lists!What]]
    /\ x8 \subseteq ListTopics
    /\ \A t \in ListTopics : x3[t] = x7[t] \/ OwnerOf[t] \in x4.load.got \/ t \in x8
    /\ CarriesHeard
    /\ x4.load.got \subseteq x4.load.asked /\ x4.load.failed \subseteq x4.load.asked
SessionsInv ==
    /\ x1 \in [listed : SUBSET ListBots, ready : SUBSET ListBots]
    /\ x5 \subseteq ListBots /\ x6 \in Lists!Load /\ x9 \subseteq ListBots
    /\ x5 \subseteq x1.listed \cup x9
    /\ x6.got \subseteq x6.asked /\ x6.asked \subseteq x1.listed \cup x9
    /\ x1.ready \subseteq x1.listed
ListsInv == TopicsInv /\ SessionsInv

\* The invariant implies the property.
LEMMA ListsImplied == ListsInv => Lists!ListedAsHeard
  BY DEF ListsInv, TopicsInv, SessionsInv, Lists!ListedAsHeard, Lists!TypeOK

\* The invariant holds at the start.
LEMMA ListsInit == Lists!Init => ListsInv
  BY DEF Lists!Init, ListsInv, TopicsInv, SessionsInv, CarriesHeard,
      Lists!Load, Lists!NoLoad, Lists!Nothing, Lists!What

-----------------------------------------------------------------------------
(* Topics and sessions: every step keeps the invariant *)

\* A load is a load when bots are added to those that have answered or failed.
LEMMA LoadTypes ==
  /\ Lists!NoLoad \in Lists!Load
  /\ Lists!NoLoad.asked = {} /\ Lists!NoLoad.got = {} /\ Lists!NoLoad.failed = {}
  /\ \A l \in Lists!Load, b \in ListBots :
       LET n == [l EXCEPT !.got = @ \cup {b}]
       IN n \in Lists!Load /\ n.asked = l.asked /\ n.got = l.got \cup {b} /\ n.failed = l.failed
  /\ \A l \in Lists!Load, lost \in SUBSET ListBots :
       /\ Lists!Fail(l, lost) \in Lists!Load
       /\ Lists!Fail(l, lost).asked = l.asked /\ Lists!Fail(l, lost).got = l.got
       /\ Lists!Fail(l, lost).failed = l.failed \cup ((l.asked \ (l.got \cup l.failed)) \cap lost)
  BY DEF Lists!NoLoad, Lists!Load, Lists!Fail, Lists!Asks

\* What a load leaves when a bot has answered or failed.
LEMMA TopicsAreSettled ==
  ASSUME NEW l \in Lists!Load, NEW snap \in [ListTopics -> Lists!What],
         NEW old \in [ListTopics -> Lists!What], NEW listed \in SUBSET ListBots,
         l.got \subseteq l.asked,
         Lists!TopicsSettled(l, snap, old, listed)
  PROVE  /\ x3' \in [ListTopics -> Lists!What]
         /\ x4' \in [load : Lists!Load, snap : [ListTopics -> Lists!What]]
         /\ Lists!Ended(l) => /\ x4'.load = Lists!NoLoad
                              /\ \A t \in ListTopics :
                                   x3'[t] = IF OwnerOf[t] \in l.got THEN snap[t]
                                            ELSE IF OwnerOf[t] \notin listed THEN "no" ELSE old[t]
         /\ ~Lists!Ended(l) => x3' = old /\ x4'.load = l /\ x4'.snap = snap
<1>0. /\ [load |-> l, snap |-> snap] \in [load : Lists!Load, snap : [ListTopics -> Lists!What]]
      /\ [load |-> Lists!NoLoad, snap |-> Lists!Nothing] \in [load : Lists!Load, snap : [ListTopics -> Lists!What]]
  BY LoadTypes DEF Lists!Nothing, Lists!What
<1>1. CASE Lists!Ended(l)
  <2>1. x3' = Lists!Merged(l, snap, old, listed) /\ x4' = [load |-> Lists!NoLoad, snap |-> Lists!Nothing]
    BY <1>1 DEF Lists!TopicsSettled
  <2>2. \A t \in ListTopics :
          x3'[t] = IF OwnerOf[t] \in l.got THEN snap[t]
                   ELSE IF OwnerOf[t] \notin listed THEN "no" ELSE old[t]
    BY <2>1 DEF Lists!Merged, Lists!Replaced
  <2>3. x3' \in [ListTopics -> Lists!What]
    BY <2>1 DEF Lists!Merged, Lists!What
  <2>4. x4'.load = Lists!NoLoad
    BY <2>1
  <2>. QED BY <1>0, <1>1, <2>1, <2>2, <2>3, <2>4
<1>2. CASE ~Lists!Ended(l)
  <2>1. x3' = old /\ x4' = [load |-> l, snap |-> snap]
    BY <1>2 DEF Lists!TopicsSettled
  <2>2. x4'.load = l /\ x4'.snap = snap
    BY <2>1
  <2>. QED BY <1>0, <1>2, <2>1, <2>2
<1>. QED BY <1>1, <1>2

\* The invariant for the topics from what a load leaves of them.
LEMMA SettledKeeps ==
  ASSUME TopicsInv, NEW l \in Lists!Load, NEW snap \in [ListTopics -> Lists!What],
         NEW old \in [ListTopics -> Lists!What],
         l.got \subseteq l.asked, l.failed \subseteq l.asked,
         Lists!TopicsSettled(l, snap, old, x1'.listed),
         x1' \in [listed : SUBSET ListBots, ready : SUBSET ListBots],
         x2' = x2, x7' \in [ListTopics -> Lists!What], x8' \subseteq x8,
         \A t \in ListTopics : OwnerOf[t] \in l.got => snap[t] = x7'[t] \/ t \in x8',
         \A t \in ListTopics :
            OwnerOf[t] \notin l.got =>
               \/ x7'[t] = IF Lists!Ended(l) /\ OwnerOf[t] \notin x1'.listed THEN "no" ELSE old[t]
               \/ t \in x8'
  PROVE  TopicsInv'
<1>1. x1'.listed \in SUBSET ListBots
  OBVIOUS
<1>2. /\ x3' \in [ListTopics -> Lists!What]
      /\ x4' \in [load : Lists!Load, snap : [ListTopics -> Lists!What]]
      /\ Lists!Ended(l) => /\ x4'.load = Lists!NoLoad
                           /\ \A t \in ListTopics :
                                x3'[t] = IF OwnerOf[t] \in l.got THEN snap[t]
                                         ELSE IF OwnerOf[t] \notin x1'.listed THEN "no" ELSE old[t]
      /\ ~Lists!Ended(l) => x3' = old /\ x4'.load = l /\ x4'.snap = snap
  BY <1>1, TopicsAreSettled
<1>3. x8 \subseteq ListTopics
  BY DEF TopicsInv
<1>4. CASE Lists!Ended(l)
  BY <1>2, <1>3, <1>4, LoadTypes DEF CarriesHeard, TopicsInv
<1>5. CASE ~Lists!Ended(l)
  BY <1>2, <1>3, <1>5 DEF CarriesHeard, TopicsInv
<1>. QED BY <1>4, <1>5

\* Topics are asked for, or there is no bot.
LEMMA LoadTopicsKeeps ==
  ASSUME TopicsInv, SessionsInv, Lists!LoadTopics \/ Lists!LoadTopicsOfNone
  PROVE  TopicsInv' /\ SessionsInv'
<1>1. x4.load = Lists!NoLoad /\ UNCHANGED <<x1, x2, x5, x6, x9>>
  BY DEF Lists!LoadTopics, Lists!LoadTopicsOfNone, Lists!others
<1>2. SessionsInv'
  BY <1>1 DEF SessionsInv
<1>3. CASE Lists!LoadTopics
  <2>1. /\ x4' = [x4 EXCEPT !.load.asked = x1.ready]
        /\ UNCHANGED <<x3, x7, x8>>
    BY <1>3 DEF Lists!LoadTopics, Lists!others
  <2>. DEFINE new == [x4.load EXCEPT !.asked = x1.ready]
  <2>2. x4' = [x4 EXCEPT !.load = new]
    BY <2>1 DEF TopicsInv
  <2>3. new \in Lists!Load /\ new.got = {} /\ new.failed = {}
    BY <1>1, LoadTypes DEF TopicsInv, SessionsInv, Lists!Load
  <2>. HIDE DEF new
  <2>4. /\ x4' \in [load : Lists!Load, snap : [ListTopics -> Lists!What]]
        /\ x4'.load = new /\ x4'.snap = x4.snap
    BY <2>2, <2>3 DEF TopicsInv
  <2>5. TopicsInv'
    BY <1>1, <2>1, <2>3, <2>4, LoadTypes DEF TopicsInv, CarriesHeard
  <2>. QED BY <1>2, <2>5
<1>4. CASE Lists!LoadTopicsOfNone
  <2>1. x3' = Lists!Nothing /\ x7' = Lists!Nothing /\ x8' = {} /\ x4' = x4
    BY <1>4 DEF Lists!LoadTopicsOfNone
  <2>2. Lists!Nothing \in [ListTopics -> Lists!What]
    BY DEF Lists!Nothing, Lists!What
  <2>3. TopicsInv'
    BY <1>1, <2>1, <2>2, LoadTypes DEF TopicsInv, CarriesHeard
  <2>. QED BY <1>2, <2>3
<1>. QED BY <1>3, <1>4

\* A bot tells what topics it has.
LEMMA TopicsAnsweredKeeps ==
  ASSUME TopicsInv, SessionsInv, NEW b \in ListBots, Lists!TopicsAnswered(b)
  PROVE  TopicsInv' /\ SessionsInv'
<1> DEFINE l == [x4.load EXCEPT !.got = @ \cup {b}]
           mine == {t \in ListTopics : OwnerOf[t] = b}
           snap == [t \in ListTopics |-> IF t \in mine THEN Lists!There(t) ELSE x4.snap[t]]
<1>1. /\ b \in Lists!Asks(x4.load)
      /\ Lists!TopicsSettled(l, snap, x3, x1.listed)
      /\ x7' = [t \in ListTopics |-> IF t \in mine THEN Lists!There(t)
                                     ELSE Lists!Unheard(l, x1.listed)[t]]
      /\ x8' = x8 \ mine
      /\ UNCHANGED <<x1, x2, x5, x6, x9>>
  BY DEF Lists!TopicsAnswered, Lists!others
<1>2. SessionsInv'
  BY <1>1 DEF SessionsInv
<1>3. x4.load \in Lists!Load /\ x4.snap \in [ListTopics -> Lists!What] /\ b \in x4.load.asked
  BY <1>1 DEF TopicsInv, Lists!Asks
<1>4. l \in Lists!Load /\ l.asked = x4.load.asked /\ l.got = x4.load.got \cup {b} /\ l.failed = x4.load.failed
  BY <1>3, LoadTypes
<1>5. \A t \in ListTopics : Lists!There(t) \in Lists!What
  BY DEF Lists!There, Lists!What, TopicsInv
<1>6. snap \in [ListTopics -> Lists!What]
  BY <1>3, <1>5
<1>7. \A t \in ListTopics :
        /\ t \in mine <=> OwnerOf[t] = b
        /\ t \in mine => snap[t] = Lists!There(t)
        /\ t \notin mine => snap[t] = x4.snap[t]
  OBVIOUS
<1>. HIDE DEF l, mine, snap
<1>8. \A t \in ListTopics :
        /\ t \in mine => x7'[t] = Lists!There(t)
        /\ t \notin mine =>
             x7'[t] = IF Lists!Ended(l) /\ OwnerOf[t] \notin x1.listed \cup l.got THEN "no" ELSE x7[t]
  BY <1>1 DEF Lists!Unheard
<1>9. x7' \in [ListTopics -> Lists!What]
  <2>1. x7' = [t \in ListTopics |-> x7'[t]]
    BY <1>1
  <2>2. \A t \in ListTopics : x7'[t] \in Lists!What
    BY <1>5, <1>8 DEF TopicsInv, Lists!What
  <2>. QED BY <2>1, <2>2
<1>10. \A t \in ListTopics : OwnerOf[t] \in l.got => snap[t] = x7'[t] \/ t \in x8'
  BY <1>1, <1>4, <1>7, <1>8 DEF TopicsInv, CarriesHeard
<1>11. \A t \in ListTopics :
         OwnerOf[t] \notin l.got =>
            \/ x7'[t] = IF Lists!Ended(l) /\ OwnerOf[t] \notin x1'.listed THEN "no" ELSE x3[t]
            \/ t \in x8'
  BY <1>1, <1>4, <1>7, <1>8 DEF TopicsInv
<1>12. l.got \subseteq l.asked /\ l.failed \subseteq l.asked
  BY <1>3, <1>4 DEF TopicsInv
<1>13. /\ Lists!TopicsSettled(l, snap, x3, x1'.listed) /\ x3 \in [ListTopics -> Lists!What]
       /\ x1' \in [listed : SUBSET ListBots, ready : SUBSET ListBots]
       /\ x2' = x2 /\ x8' \subseteq x8
  BY <1>1 DEF TopicsInv, SessionsInv
<1>14. TopicsInv'
  BY <1>4, <1>6, <1>9, <1>10, <1>11, <1>12, <1>13, SettledKeeps
<1>. QED BY <1>2, <1>14

\* A bot does not tell.
LEMMA TopicsRefusedKeeps ==
  ASSUME TopicsInv, SessionsInv, NEW b \in ListBots, Lists!TopicsRefused(b)
  PROVE  TopicsInv' /\ SessionsInv'
<1> DEFINE l == Lists!Fail(x4.load, {b})
<1>1. /\ Lists!TopicsSettled(l, x4.snap, x3, x1.listed)
      /\ x7' = Lists!Unheard(l, x1.listed)
      /\ UNCHANGED <<x1, x2, x5, x6, x8, x9>>
  BY DEF Lists!TopicsRefused, Lists!others
<1>2. SessionsInv'
  BY <1>1 DEF SessionsInv
<1>3. x4.load \in Lists!Load /\ x4.snap \in [ListTopics -> Lists!What] /\ {b} \in SUBSET ListBots
  BY DEF TopicsInv
<1>4. /\ l \in Lists!Load /\ l.asked = x4.load.asked /\ l.got = x4.load.got
      /\ l.failed \subseteq x4.load.failed \cup x4.load.asked
  <2>1. l.failed = x4.load.failed \cup ((x4.load.asked \ (x4.load.got \cup x4.load.failed)) \cap {b})
    BY <1>3, LoadTypes
  <2>. QED BY <1>3, <2>1, LoadTypes
<1>. HIDE DEF l
<1>5. \A t \in ListTopics :
        x7'[t] = IF Lists!Ended(l) /\ OwnerOf[t] \notin x1.listed \cup l.got THEN "no" ELSE x7[t]
  BY <1>1 DEF Lists!Unheard
<1>6. x7' \in [ListTopics -> Lists!What]
  <2>1. x7' = [t \in ListTopics |-> x7'[t]]
    BY <1>1 DEF Lists!Unheard
  <2>2. \A t \in ListTopics : x7'[t] \in Lists!What
    BY <1>5 DEF TopicsInv, Lists!What
  <2>. QED BY <2>1, <2>2
<1>7. \A t \in ListTopics : OwnerOf[t] \in l.got => x4.snap[t] = x7'[t] \/ t \in x8'
  BY <1>1, <1>4, <1>5 DEF TopicsInv, CarriesHeard
<1>8. \A t \in ListTopics :
        OwnerOf[t] \notin l.got =>
           \/ x7'[t] = IF Lists!Ended(l) /\ OwnerOf[t] \notin x1'.listed THEN "no" ELSE x3[t]
           \/ t \in x8'
  BY <1>1, <1>4, <1>5 DEF TopicsInv
<1>9. l.got \subseteq l.asked /\ l.failed \subseteq l.asked
  BY <1>4 DEF TopicsInv
<1>10. /\ Lists!TopicsSettled(l, x4.snap, x3, x1'.listed) /\ x3 \in [ListTopics -> Lists!What]
       /\ x1' \in [listed : SUBSET ListBots, ready : SUBSET ListBots]
       /\ x2' = x2 /\ x8' \subseteq x8
  BY <1>1 DEF TopicsInv, SessionsInv
<1>11. TopicsInv'
  BY <1>3, <1>4, <1>6, <1>7, <1>8, <1>9, <1>10, SettledKeeps
<1>. QED BY <1>2, <1>11

\* A topic is made, deleted or named, here or elsewhere.
LEMMA ChangeKeeps ==
  ASSUME TopicsInv, SessionsInv, NEW t \in ListTopics, NEW now \in {"plain", "titled", "deleted"},
         NEW here \in BOOLEAN, Lists!Change(t, now, here)
  PROVE  TopicsInv' /\ SessionsInv'
<1>1. x2' = [x2 EXCEPT ![t] = now] /\ UNCHANGED <<x1, x4, x5, x6, x9>>
  BY DEF Lists!Change, Lists!others
<1>2. SessionsInv'
  BY <1>1 DEF SessionsInv
<1>3. x2' \in [ListTopics -> Lists!What \cup {"deleted"}]
  BY <1>1 DEF TopicsInv, Lists!What
<1>4. CASE ~here
  BY <1>1, <1>2, <1>3, <1>4 DEF Lists!Change, TopicsInv, CarriesHeard
<1>5. CASE here
  <2>. DEFINE there == Lists!There(t)'
  <2>1. there \in Lists!What
    BY <1>3 DEF Lists!There, Lists!What
  <2>2. /\ x3' = [x3 EXCEPT ![t] = there] /\ x7' = [x7 EXCEPT ![t] = there]
        /\ x8' = IF OwnerOf[t] \in x4.load.got THEN x8 \cup {t} ELSE x8 \ {t}
    BY <1>5 DEF Lists!Change
  <2>. HIDE DEF there
  <2>3. /\ x3' \in [ListTopics -> Lists!What] /\ x7' \in [ListTopics -> Lists!What]
        /\ x8' \subseteq ListTopics
        /\ x3'[t] = there /\ x7'[t] = there
        /\ \A s \in ListTopics \ {t} :
              x3'[s] = x3[s] /\ x7'[s] = x7[s] /\ (s \in x8' <=> s \in x8)
    BY <2>1, <2>2 DEF TopicsInv
  <2>. QED
    BY <1>1, <1>2, <1>3, <2>2, <2>3 DEF TopicsInv, CarriesHeard
<1>. QED BY <1>4, <1>5

\* Sessions are asked for, or there is no bot, or a bot has answered.
LEMMA SessionsKeep ==
  ASSUME TopicsInv, SessionsInv,
         \/ Lists!LoadSessions \/ Lists!LoadSessionsOfNone
         \/ \E b \in ListBots : Lists!SessionsAnswered(b)
  PROVE  TopicsInv' /\ SessionsInv'
<1>1. UNCHANGED <<x1, x2, x3, x4, x7, x8, x9>>
  BY DEF Lists!LoadSessions, Lists!LoadSessionsOfNone, Lists!SessionsAnswered, Lists!listing
<1>2. TopicsInv'
  BY <1>1 DEF TopicsInv, CarriesHeard
<1>3. CASE Lists!LoadSessions
  <2>. DEFINE new == [Lists!NoLoad EXCEPT !.asked = x1.ready]
  <2>1. new \in Lists!Load /\ new.got = {} /\ new.asked = x1.ready
    BY DEF Lists!NoLoad, Lists!Load, SessionsInv
  <2>2. x6' = new /\ x5' = x5
    BY <1>3 DEF Lists!LoadSessions
  <2>. HIDE DEF new
  <2>. QED BY <1>1, <1>2, <2>1, <2>2 DEF SessionsInv
<1>4. CASE Lists!LoadSessionsOfNone
  BY <1>1, <1>2, <1>4 DEF Lists!LoadSessionsOfNone, SessionsInv
<1>5. ASSUME NEW b \in ListBots, Lists!SessionsAnswered(b) PROVE SessionsInv'
  <2>1. PICK l \in Lists!Load :
          /\ l.asked = x6.asked /\ l.got \subseteq l.asked
          /\ Lists!SessionsSettled(l, x5, x1.listed)
    <3>1. b \in x6.asked /\ {b} \in SUBSET ListBots
      BY <1>5 DEF Lists!SessionsAnswered, Lists!Asks
    <3>2. CASE Lists!SessionsSettled([x6 EXCEPT !.got = @ \cup {b}], x5, x1.listed)
      <4>. DEFINE l == [x6 EXCEPT !.got = @ \cup {b}]
      <4>1. l \in Lists!Load /\ l.asked = x6.asked /\ l.got = x6.got \cup {b}
        BY LoadTypes DEF SessionsInv
      <4>2. Lists!SessionsSettled(l, x5, x1.listed)
        BY <3>2
      <4>. HIDE DEF l
      <4>. QED BY <3>1, <4>1, <4>2 DEF SessionsInv
    <3>3. CASE Lists!SessionsSettled(Lists!Fail(x6, {b}), x5, x1.listed)
      <4>1. /\ Lists!Fail(x6, {b}) \in Lists!Load /\ Lists!Fail(x6, {b}).asked = x6.asked
            /\ Lists!Fail(x6, {b}).got = x6.got
        BY <3>1, LoadTypes DEF SessionsInv
      <4>. QED BY <3>3, <4>1 DEF SessionsInv
    <3>. QED BY <1>5, <3>2, <3>3 DEF Lists!SessionsAnswered
  <2>2. CASE Lists!Ended(l)
    BY <1>1, <2>1, <2>2, LoadTypes DEF Lists!SessionsSettled, SessionsInv, Lists!Load
  <2>3. CASE ~Lists!Ended(l)
    BY <1>1, <2>1, <2>3 DEF Lists!SessionsSettled, SessionsInv
  <2>. QED BY <2>2, <2>3
<1>. QED BY <1>2, <1>3, <1>4, <1>5

\* Bots come and go.
LEMMA BotsKeep ==
  ASSUME TopicsInv, SessionsInv, NEW b \in ListBots,
         Lists!BotListed(b) \/ Lists!ChannelReady(b) \/ Lists!ChannelLost(b) \/ Lists!BotGone(b)
  PROVE  TopicsInv' /\ SessionsInv'
<1>1. UNCHANGED <<x2, x3, x4, x6, x7, x8>>
  BY DEF Lists!BotListed, Lists!ChannelReady, Lists!ChannelLost, Lists!BotGone, Lists!listing, Lists!others
<1>2. TopicsInv'
  BY <1>1 DEF TopicsInv, CarriesHeard
<1>3. /\ x1' \in [listed : SUBSET ListBots, ready : SUBSET ListBots]
      /\ \/ /\ x1'.listed = x1.listed \cup {b} /\ x1'.ready = x1.ready
            /\ x9' = x9 \ {b} /\ x5' = x5
         \/ /\ x1'.listed = x1.listed /\ x1'.ready = x1.ready \cup {b} /\ b \in x1.listed
            /\ x9' = x9 /\ x5' = x5
         \/ /\ x1'.listed = x1.listed /\ x1'.ready = x1.ready \ {b}
            /\ x9' = x9 /\ x5' = x5
         \/ /\ x1'.listed = x1.listed \ {b} /\ x1'.ready = x1.ready \ {b}
            /\ x9' = x9 \cup ({b} \cap x6.asked) /\ x5' = x5 \ {b}
  <2>1. CASE Lists!BotListed(b)
    BY <2>1 DEF Lists!BotListed, SessionsInv
  <2>2. CASE Lists!ChannelReady(b)
    BY <2>2 DEF Lists!ChannelReady, Lists!others, SessionsInv
  <2>3. CASE Lists!ChannelLost(b)
    BY <2>3 DEF Lists!ChannelLost, Lists!others, SessionsInv
  <2>4. CASE Lists!BotGone(b)
    <3>. DEFINE new == [listed |-> x1.listed \ {b}, ready |-> x1.ready \ {b}]
    <3>1. /\ new \in [listed : SUBSET ListBots, ready : SUBSET ListBots]
          /\ new.listed = x1.listed \ {b} /\ new.ready = x1.ready \ {b}
      BY DEF SessionsInv
    <3>2. x1' = new /\ x5' = x5 \ {b} /\ x9' = x9 \cup ({b} \cap x6.asked)
      BY <2>4 DEF Lists!BotGone
    <3>. HIDE DEF new
    <3>. QED BY <3>1, <3>2
  <2>. QED BY <2>1, <2>2, <2>3, <2>4
<1>4. x5' \subseteq ListBots /\ x9' \subseteq ListBots /\ x6' \in Lists!Load
  BY <1>1, <1>3 DEF SessionsInv
<1>5. /\ x5' \subseteq x1'.listed \cup x9' /\ x6'.got \subseteq x6'.asked
      /\ x6'.asked \subseteq x1'.listed \cup x9' /\ x1'.ready \subseteq x1'.listed
  BY <1>1, <1>3 DEF SessionsInv
<1>. QED BY <1>2, <1>3, <1>4, <1>5 DEF SessionsInv

\* Whoever logs out leaves nothing, but what a bot has told before.
LEMMA LogoutKeeps ==
  ASSUME TopicsInv, SessionsInv, Lists!Logout
  PROVE  TopicsInv' /\ SessionsInv'
<1> DEFINE l == Lists!Fail(x4.load, ListBots)
           m == Lists!Fail(x6, ListBots)
           gone == [listed |-> {}, ready |-> {}]
<1>1. /\ x1' = gone
      /\ Lists!TopicsSettled(l, x4.snap, Lists!Nothing, {})
      /\ x7' = [t \in ListTopics |-> IF OwnerOf[t] \in x4.load.got THEN x7[t] ELSE "no"]
      /\ Lists!SessionsSettled(m, {}, {})
      /\ x9' = x9 \cup x6.asked
      /\ x2' = x2 /\ x8' = x8
  BY DEF Lists!Logout
<1>2. gone \in [listed : SUBSET ListBots, ready : SUBSET ListBots] /\ gone.listed = {} /\ gone.ready = {}
  OBVIOUS
<1>3. x4.load \in Lists!Load /\ x6 \in Lists!Load /\ x4.snap \in [ListTopics -> Lists!What]
  BY DEF TopicsInv, SessionsInv
<1>4. l \in Lists!Load /\ l.asked = x4.load.asked /\ l.got = x4.load.got
  BY <1>3, LoadTypes
<1>5. l.failed \subseteq x4.load.failed \cup x4.load.asked
  <2>1. l.failed = x4.load.failed \cup ((x4.load.asked \ (x4.load.got \cup x4.load.failed)) \cap ListBots)
    BY <1>3, LoadTypes
  <2>. QED BY <2>1
<1>6. m \in Lists!Load /\ m.asked = x6.asked /\ m.got = x6.got
  BY <1>3, LoadTypes
<1>. HIDE DEF l, m, gone
<1>7. SessionsInv'
  <2>1. CASE Lists!Ended(m)
    BY <1>1, <1>2, <1>6, <2>1, LoadTypes DEF Lists!SessionsSettled, SessionsInv, Lists!Load
  <2>2. CASE ~Lists!Ended(m)
    BY <1>1, <1>2, <1>6, <2>2 DEF Lists!SessionsSettled, SessionsInv, Lists!Load
  <2>. QED BY <2>1, <2>2
<1>8. Lists!Nothing \in [ListTopics -> Lists!What] /\ \A t \in ListTopics : Lists!Nothing[t] = "no"
  BY DEF Lists!Nothing, Lists!What
<1>9. x7' \in [ListTopics -> Lists!What]
  BY <1>1 DEF TopicsInv, Lists!What
<1>10. \A t \in ListTopics : OwnerOf[t] \in l.got => x4.snap[t] = x7'[t] \/ t \in x8'
  BY <1>1, <1>4 DEF TopicsInv, CarriesHeard
<1>11. \A t \in ListTopics :
        OwnerOf[t] \notin l.got =>
           \/ x7'[t] = IF Lists!Ended(l) /\ OwnerOf[t] \notin x1'.listed THEN "no" ELSE Lists!Nothing[t]
           \/ t \in x8'
  BY <1>1, <1>4, <1>8
<1>12. l.got \subseteq l.asked /\ l.failed \subseteq l.asked
  BY <1>4, <1>5 DEF TopicsInv
<1>13. /\ Lists!TopicsSettled(l, x4.snap, Lists!Nothing, x1'.listed)
       /\ x1' \in [listed : SUBSET ListBots, ready : SUBSET ListBots]
       /\ x2' = x2 /\ x8' \subseteq x8
  BY <1>1, <1>2
<1>14. TopicsInv'
  BY <1>3, <1>4, <1>8, <1>9, <1>10, <1>11, <1>12, <1>13, SettledKeeps
<1>. QED BY <1>7, <1>14

\* Every step keeps the invariant.
LEMMA ListsNext ==
  ASSUME ListsInv, Lists!Next PROVE ListsInv'
<1>. USE DEF ListsInv
<1>1. ASSUME NEW t \in ListTopics, NEW here \in BOOLEAN,
             Lists!Create(t, here) \/ Lists!Delete(t, here) \/ Lists!Update(t, here)
      PROVE  ListsInv'
  <2>1. PICK now \in {"plain", "titled", "deleted"} : Lists!Change(t, now, here)
    BY <1>1 DEF Lists!Create, Lists!Delete, Lists!Update
  <2>. QED BY <2>1, ChangeKeeps
<1>. QED
  BY <1>1, LoadTopicsKeeps, TopicsAnsweredKeeps, TopicsRefusedKeeps, SessionsKeep, BotsKeep, LogoutKeeps
  DEF Lists!Next

Only(q, S) == FoldLeft(LAMBDA r, x : IF x \in S THEN Append(r, x) ELSE r, <<>>, q)

-----------------------------------------------------------------------------
(* Induction, of a set of numbers *)

Before == {ss \in Nat \X Nat : ss[1] < ss[2]}
LEMMA Smallest ==
  ASSUME NEW S \in SUBSET Nat, S # {}
  PROVE  \E x \in S : \A y \in S : x <= y
<1>1. IsWellFoundedOn(Before, Nat)
  BY NatLessThanWellFounded DEF OpToRel, Before
<1>2. PICK x \in S : \A y \in S : ~(<<y, x>> \in Before)
  BY <1>1, WFMin
<1>3. ASSUME NEW y \in S PROVE x <= y
  <2>1. y < x => <<y, x>> \in Before
    BY DEF Before
  <2>. QED BY <1>2, <2>1
<1>. QED BY <1>3

LEMMA AllNumbers ==
  ASSUME NEW S, 0 \in S, \A n \in Nat : n \in S => n + 1 \in S
  PROVE  \A n \in Nat : n \in S
<1> SUFFICES ASSUME Nat \ S # {} PROVE FALSE
  OBVIOUS
<1>1. IsWellFoundedOn(Before, Nat)
  BY NatLessThanWellFounded DEF OpToRel, Before
<1>2. PICK x \in Nat \ S : \A y \in Nat \ S : ~(<<y, x>> \in Before)
  BY <1>1, WFMin
<1> DEFINE y == x - 1
<1>3. x # 0 /\ y \in Nat /\ y + 1 = x
  OBVIOUS
<1> HIDE DEF y
<1>4. <<y, x>> \in Before
  BY <1>3 DEF Before
<1>5. y \in S
  BY <1>2, <1>3, <1>4
<1>. QED BY <1>3, <1>5

-----------------------------------------------------------------------------
(* Folds *)

LEMMA TopOf == ASSUME NEW n \in Nat, NEW s \in SUBSET (1..n), n \in s PROVE Max(s) = n
<1>1. n \in s /\ \A y \in s : n >= y
  OBVIOUS
<1>2. \A x \in s : (\A y \in s : x >= y) => x = n
  OBVIOUS
<1>3. Max(s) \in s /\ \A y \in s : Max(s) >= y
  BY <1>1 DEF Max
<1>. QED BY <1>2, <1>3

LEMMA MaxIn ==
  ASSUME NEW n \in Nat, NEW s \in SUBSET (1..n), s # {} PROVE Max(s) \in s
<1> DEFINE S == {m \in Nat : \A t \in SUBSET (1..m) : t # {} => Max(t) \in t}
<1>1. 0 \in S
  <2>1. SUBSET (1..0) = {{}}
    OBVIOUS
  <2>. QED BY <2>1
<1>2. ASSUME NEW m \in Nat, m \in S PROVE m + 1 \in S
  <2> SUFFICES ASSUME NEW t \in SUBSET (1..m + 1), t # {} PROVE Max(t) \in t
    OBVIOUS
  <2>1. CASE m + 1 \in t
    BY <2>1, TopOf
  <2>2. CASE m + 1 \notin t
    <3>1. t \in SUBSET (1..m)
      BY <2>2
    <3>. QED BY <1>2, <3>1
  <2>. QED BY <2>1, <2>2
<1>3. \A m \in Nat : m \in S
  <2> HIDE DEF S
  <2>. QED BY <1>1, <1>2, AllNumbers
<1>. QED BY <1>3

Folds(h, base, g, n) ==
    h = [s \in SUBSET (1..n) |-> IF s = {} THEN base ELSE g[<<Max(s), h[s \ {Max(s)}]>>]]
LEMMA FoldExists ==
  ASSUME NEW V, NEW base \in V, NEW n \in Nat, NEW g \in [(1..n) \X V -> V]
  PROVE  \E h \in [SUBSET (1..n) -> V] : Folds(h, base, g, n)
<1> DEFINE P(m) == m <= n => \E h \in [SUBSET (1..m) -> V] : Folds(h, base, g, m)
           S == {m \in Nat : P(m)}
<1>1. P(0)
  <2> DEFINE h == [s \in SUBSET (1..0) |-> base]
  <2>1. 1..0 = {} /\ SUBSET (1..0) = {{}}
    OBVIOUS
  <2>2. h \in [SUBSET (1..0) -> V] /\ Folds(h, base, g, 0)
    BY <2>1 DEF Folds
  <2>. QED BY <2>2
<1>2. ASSUME NEW m \in Nat, P(m) PROVE P(m + 1)
  <2> SUFFICES ASSUME m + 1 <= n PROVE \E h \in [SUBSET (1..m + 1) -> V] : Folds(h, base, g, m + 1)
    OBVIOUS
  <2>0. m <= n
    OBVIOUS
  <2>1. PICK h \in [SUBSET (1..m) -> V] : Folds(h, base, g, m)
    BY <1>2, <2>0, Zenon
  <2> DEFINE k == [s \in SUBSET (1..m + 1) |-> IF m + 1 \in s THEN g[<<m + 1, h[s \ {m + 1}]>>] ELSE h[s]]
             K == [s \in SUBSET (1..m + 1) |-> IF s = {} THEN base ELSE g[<<Max(s), k[s \ {Max(s)}]>>]]
  <2>2. ASSUME NEW s \in SUBSET (1..m + 1), m + 1 \in s PROVE k[s] \in V /\ k[s] = K[s]
    <3>1. Max(s) = m + 1 /\ s # {}
      BY <2>2, TopOf
    <3>2. s \ {m + 1} \in SUBSET (1..m) /\ s \ {m + 1} \in SUBSET (1..m + 1) /\ m + 1 \notin s \ {m + 1}
      OBVIOUS
    <3>3. k[s \ {m + 1}] = h[s \ {m + 1}] /\ h[s \ {m + 1}] \in V
      BY <3>2
    <3>4. k[s] = g[<<m + 1, h[s \ {m + 1}]>>]
      BY <2>2
    <3>5. K[s] = g[<<Max(s), k[s \ {Max(s)}]>>]
      BY <2>2
    <3>6. g[<<m + 1, h[s \ {m + 1}]>>] \in V
      BY <3>3
    <3> HIDE DEF k, K
    <3>. QED BY <3>1, <3>3, <3>4, <3>5, <3>6
  <2>3. ASSUME NEW s \in SUBSET (1..m + 1), m + 1 \notin s PROVE k[s] \in V /\ k[s] = K[s]
    <3>0. s \in SUBSET (1..m)
      BY <2>3
    <3>1. /\ s \in SUBSET (1..m) /\ s \ {Max(s)} \in SUBSET (1..m) /\ s \ {Max(s)} \in SUBSET (1..m + 1)
          /\ m + 1 \notin s \ {Max(s)}
      <4> DEFINE top == Max(s)
      <4> HIDE DEF top
      <4>. QED BY <3>0, <2>3 DEF top
    <3>2. k[s] = h[s] /\ k[s \ {Max(s)}] = h[s \ {Max(s)}] /\ h[s] \in V
      BY <3>1, <2>3
    <3>3. h[s] = IF s = {} THEN base ELSE g[<<Max(s), h[s \ {Max(s)}]>>]
      BY <2>1, <3>1 DEF Folds
    <3>4. K[s] = IF s = {} THEN base ELSE g[<<Max(s), k[s \ {Max(s)}]>>]
      OBVIOUS
    <3> HIDE DEF k, K
    <3>. QED BY <3>2, <3>3, <3>4
  <2>4. k = K /\ k \in [SUBSET (1..m + 1) -> V]
    <3>1. \A s \in SUBSET (1..m + 1) : k[s] \in V /\ k[s] = K[s]
      BY <2>2, <2>3
    <3>. QED BY <3>1
  <2>5. Folds(k, base, g, m + 1)
    BY <2>4 DEF Folds
  <2>. QED BY <2>4, <2>5
<1> HIDE DEF P
<1>3. 0 \in S /\ \A m \in Nat : m \in S => m + 1 \in S
  BY <1>1, <1>2
<1>4. P(n)
  <2>1. \A m \in Nat : m \in S
    <3> HIDE DEF S
    <3>. QED BY <1>3, AllNumbers
  <2>. QED BY <2>1
<1>5. n <= n
  OBVIOUS
<1>. QED BY <1>4, <1>5, Zenon DEF P

\* From the left, step by step.
Picked(h, q, S) ==
    /\ h[0] = <<>> /\ h[Len(q)] = Only(q, S)
    /\ \A i \in 1..Len(q) : h[i] = IF q[i] \in S THEN Append(h[i - 1], q[i]) ELSE h[i - 1]
LEMMA OnlySteps ==
  ASSUME NEW T, NEW q \in Seq(T), NEW S
  PROVE  \E h \in [0..Len(q) -> Seq(T)] : Picked(h, q, S)
<1> DEFINE n == Len(q)
           g == [z \in (1..n) \X Seq(T) |-> IF q[z[1]] \in S THEN Append(z[2], q[z[1]]) ELSE z[2]]
           Is(h) == h = [s \in SUBSET (DOMAIN q) |->
                           IF s = {} THEN <<>>
                           ELSE IF q[Max(s)] \in S THEN Append(h[s \ {Max(s)}], q[Max(s)]) ELSE h[s \ {Max(s)}]]
           h == CHOOSE iter : Is(iter)
<1>1. n \in Nat /\ g \in [(1..n) \X Seq(T) -> Seq(T)] /\ <<>> \in Seq(T)
  OBVIOUS
<1>2. Only(q, S) = h[DOMAIN q]
  BY Zenon DEF Only, FoldLeft, MapThenFoldSet
<1>3. PICK f \in [SUBSET (1..n) -> Seq(T)] : Folds(f, <<>>, g, n)
  BY <1>1, FoldExists
<1>4. Is(f)
  <2>1. DOMAIN q = 1..n
    OBVIOUS
  <2>2. ASSUME NEW s \in SUBSET (1..n), s # {}
        PROVE  g[<<Max(s), f[s \ {Max(s)}]>>] =
                 IF q[Max(s)] \in S THEN Append(f[s \ {Max(s)}], q[Max(s)]) ELSE f[s \ {Max(s)}]
    <3>1. Max(s) \in 1..n
      <4>1. Max(s) \in s
        BY <1>1, <2>2, MaxIn
      <4>. QED BY <4>1
    <3> DEFINE m == Max(s)
    <3> HIDE DEF m
    <3>2. m \in 1..n /\ f[s \ {m}] \in Seq(T)
      BY <3>1 DEF m
    <3>3. g[<<m, f[s \ {m}]>>] = IF q[m] \in S THEN Append(f[s \ {m}], q[m]) ELSE f[s \ {m}]
      BY <3>2
    <3>. QED BY <3>3 DEF m
  <2> HIDE DEF g
  <2>. QED BY <1>3, <2>1, <2>2 DEF Folds
<1>5. Is(h)
  <2> HIDE DEF Is
  <2>. QED BY <1>4, Zenon
<1>6. h[1..0] = <<>>
  <2>1. 1..0 = {} /\ 1..0 \in SUBSET (DOMAIN q)
    OBVIOUS
  <2>. QED BY <1>5, <2>1
<1>7. ASSUME NEW i \in 1..n
      PROVE  h[1..i] = IF q[i] \in S THEN Append(h[1..i - 1], q[i]) ELSE h[1..i - 1]
  <2>1. i \in Nat /\ i \in 1..i /\ 1..i \in SUBSET (DOMAIN q) /\ (1..i) \ {i} = 1..i - 1
    OBVIOUS
  <2>2. Max(1..i) = i
    BY <2>1, TopOf
  <2>. QED BY <1>5, <2>1, <2>2
<1> HIDE DEF h
<1>8. \A i \in Nat : i <= n => h[1..i] \in Seq(T)
  <2> DEFINE N == {i \in Nat : i <= n => h[1..i] \in Seq(T)}
  <2>1. 0 \in N
    BY <1>1, <1>6
  <2>2. ASSUME NEW i \in Nat, i \in N PROVE i + 1 \in N
    <3> SUFFICES ASSUME i + 1 <= n PROVE h[1..i + 1] \in Seq(T)
      OBVIOUS
    <3>1. h[1..i] \in Seq(T) /\ i + 1 \in 1..n /\ i + 1 - 1 = i /\ q[i + 1] \in T
      BY <2>2
    <3> DEFINE j == i + 1
    <3>2. j \in 1..n /\ j - 1 = i
      BY <3>1
    <3> HIDE DEF j
    <3>3. h[1..j] = IF q[j] \in S THEN Append(h[1..i], q[j]) ELSE h[1..i]
      BY <1>7, <3>2
    <3>4. q[j] \in T
      BY <3>2
    <3>5. h[1..j] \in Seq(T)
      BY <3>1, <3>3, <3>4
    <3>. QED BY <3>5 DEF j
  <2>3. \A i \in Nat : i \in N
    <3> HIDE DEF N
    <3>. QED BY <2>1, <2>2, AllNumbers
  <2>. QED BY <2>3
<1> DEFINE k == [i \in 0..n |-> h[1..i]]
<1>9. k \in [0..n -> Seq(T)] /\ k[0] = <<>> /\ k[n] = Only(q, S)
  <2>1. DOMAIN q = 1..n /\ 0 \in 0..n /\ n \in 0..n /\ \A i \in 0..n : i \in Nat /\ i <= n
    BY <1>1
  <2>2. k[0] = h[1..0] /\ k[n] = h[1..n]
    BY <2>1
  <2>. QED BY <1>2, <1>6, <1>8, <2>1, <2>2
<1>10. \A i \in 1..n : k[i] = IF q[i] \in S THEN Append(k[i - 1], q[i]) ELSE k[i - 1]
  <2>1. \A i \in 1..n : k[i] = h[1..i] /\ k[i - 1] = h[1..i - 1]
    BY <1>1
  <2> HIDE DEF k
  <2>. QED BY <1>7, <2>1
<1> HIDE DEF k
<1>11. Picked(k, q, S)
  BY <1>9, <1>10 DEF Picked
<1>. QED BY <1>9, <1>11

LEMMA StoresOnly == ASSUME NEW q, NEW S PROVE Stores!Only(q, S) = Only(q, S)
  BY Zenon DEF Stores!Only, Only, FoldLeft, MapThenFoldSet, Stores!FoldLeft, Stores!MapThenFoldSet, Max, Stores!Max
LEMMA TurnOnly == ASSUME NEW q, NEW S PROVE Turn!Only(q, S) = Only(q, S)
  BY Zenon DEF Turn!Only, Only, FoldLeft, MapThenFoldSet, Turn!FoldLeft, Turn!MapThenFoldSet, Max, Turn!Max

-----------------------------------------------------------------------------
(* Sequences, from the left *)

\* A set that has the empty sequence, and with a sequence each longer one, has all.
LEMMA AllSequences ==
  ASSUME NEW T, NEW S, <<>> \in S, \A q \in Seq(T), e \in T : q \in S => Append(q, e) \in S
  PROVE  \A q \in Seq(T) : q \in S
<1> DEFINE N == {n \in Nat : \A q \in Seq(T) : Len(q) = n => q \in S}
<1>1. 0 \in N
  <2>1. \A q \in Seq(T) : Len(q) = 0 => q = <<>>
    OBVIOUS
  <2>. QED BY <2>1
<1>2. ASSUME NEW n \in Nat, n \in N PROVE n + 1 \in N
  <2> SUFFICES ASSUME NEW q \in Seq(T), Len(q) = n + 1 PROVE q \in S
    OBVIOUS
  <2> DEFINE r == [i \in 1..n |-> q[i]]
  <2>1. r \in Seq(T) /\ Len(r) = n /\ q[n + 1] \in T
    OBVIOUS
  <2>2. q = Append(r, q[n + 1])
    OBVIOUS
  <2>3. r \in S
    BY <1>2, <2>1
  <2> HIDE DEF r
  <2>. QED BY <2>1, <2>2, <2>3
<1>3. \A n \in Nat : n \in N
  <2> HIDE DEF N
  <2>. QED BY <1>1, <1>2, AllNumbers
<1>. QED BY <1>3

LEMMA OnlyFits == ASSUME NEW T, NEW q \in Seq(T), NEW S PROVE Only(q, S) \in Seq(T)
<1>1. PICK h \in [0..Len(q) -> Seq(T)] : Picked(h, q, S)
  BY OnlySteps
<1>. QED BY <1>1 DEF Picked

LEMMA OnlyNone == ASSUME NEW S PROVE Only(<<>>, S) = <<>>
<1>1. <<>> \in Seq({}) /\ Len(<<>>) = 0
  OBVIOUS
<1>2. PICK h \in [0..Len(<<>>) -> Seq({})] : Picked(h, <<>>, S)
  BY <1>1, OnlySteps, Zenon
<1>. QED BY <1>1, <1>2 DEF Picked

LEMMA OnlyOneMore ==
  ASSUME NEW T, NEW q \in Seq(T), NEW e \in T, NEW S
  PROVE  Only(Append(q, e), S) = IF e \in S THEN Append(Only(q, S), e) ELSE Only(q, S)
<1> DEFINE r == Append(q, e)
           n == Len(q)
<1>1. n \in Nat /\ r \in Seq(T) /\ Len(r) = n + 1 /\ r[n + 1] = e /\ \A i \in 1..n : r[i] = q[i]
  OBVIOUS
<1> HIDE DEF r
<1>2. PICK h \in [0..n -> Seq(T)] : Picked(h, q, S)
  BY OnlySteps
<1>3. PICK k \in [0..n + 1 -> Seq(T)] : Picked(k, r, S)
  <2>1. \E k \in [0..Len(r) -> Seq(T)] : Picked(k, r, S)
    BY <1>1, OnlySteps, Zenon
  <2>. QED BY <1>1, <2>1
<1> DEFINE N == {i \in Nat : i <= n => h[i] = k[i]}
<1>4. 0 \in N
  BY <1>2, <1>3 DEF Picked
<1>5. ASSUME NEW i \in Nat, i \in N PROVE i + 1 \in N
  <2> SUFFICES ASSUME i + 1 <= n PROVE h[i + 1] = k[i + 1]
    OBVIOUS
  <2> DEFINE j == i + 1
  <2>1. j \in 1..n /\ j \in 1..n + 1 /\ j - 1 = i /\ h[i] = k[i]
    BY <1>1, <1>5
  <2> HIDE DEF j, N
  <2>2. h[j] = k[j]
    BY <1>1, <1>2, <1>3, <2>1 DEF Picked
  <2>. QED BY <2>2 DEF j
<1>6. n \in N
  <2> HIDE DEF N, n
  <2>. QED BY <1>1, <1>4, <1>5, AllNumbers
<1>7. h[n] = k[n]
  BY <1>1, <1>6
<1> DEFINE m == n + 1
<1>8. m \in 1..n + 1 /\ m - 1 = n /\ r[m] = e
  BY <1>1
<1> HIDE DEF m, n, N
<1>9. k[m] = IF r[m] \in S THEN Append(k[m - 1], r[m]) ELSE k[m - 1]
  BY <1>1, <1>3, <1>8 DEF m, n, Picked
<1>10. k[m] = Only(r, S) /\ h[n] = Only(q, S)
  BY <1>1, <1>2, <1>3 DEF m, n, Picked
<1>. QED BY <1>7, <1>8, <1>9, <1>10 DEF r

Has(q) == {q[i] : i \in 1..Len(q)}
Apart(q) == \A i, j \in 1..Len(q) : q[i] = q[j] => i = j
\* What is left is of the set, is shorter if something was dropped, and begins with
\* what is first of the set.
LEMMA OnlyShort ==
  ASSUME NEW T, NEW S, NEW q \in Seq(T)
  PROVE  /\ Only(q, S) \in Seq(T) /\ Has(Only(q, S)) = Has(q) \cap S /\ Len(Only(q, S)) <= Len(q)
         /\ ~(Has(q) \subseteq S) => Len(Only(q, S)) < Len(q)
         /\ Apart(q) => Apart(Only(q, S))
         /\ Len(Only(q, S)) > 0 => \E i \in 1..Len(q) : Only(q, S)[1] = q[i] /\ \A j \in 1..i - 1 : q[j] \notin S
<1> DEFINE P(u) == /\ Has(Only(u, S)) = Has(u) \cap S /\ Len(Only(u, S)) <= Len(u)
                   /\ ~(Has(u) \subseteq S) => Len(Only(u, S)) < Len(u)
                   /\ Apart(u) => Apart(Only(u, S))
                   /\ Len(Only(u, S)) > 0 => \E i \in 1..Len(u) : Only(u, S)[1] = u[i] /\ \A j \in 1..i - 1 : u[j] \notin S
           A == {u \in Seq(T) : P(u)}
<1>1. <<>> \in A
  BY OnlyNone DEF Has, Apart
<1>2. ASSUME NEW u \in Seq(T), NEW e \in T, u \in A PROVE Append(u, e) \in A
  <2> DEFINE v == Append(u, e)
             ou == Only(u, S)
             ov == Only(v, S)
  <2>1. /\ v \in Seq(T) /\ Len(v) = Len(u) + 1 /\ v[Len(u) + 1] = e /\ Len(u) \in Nat
        /\ \A i \in 1..Len(u) : v[i] = u[i]
    OBVIOUS
  <2>2. ov = IF e \in S THEN Append(ou, e) ELSE ou
    BY OnlyOneMore
  <2>3. ou \in Seq(T) /\ Len(ou) \in Nat
    BY OnlyFits
  <2>4. /\ Has(ou) = Has(u) \cap S /\ Len(ou) <= Len(u)
        /\ ~(Has(u) \subseteq S) => Len(ou) < Len(u)
        /\ Apart(u) => Apart(ou)
        /\ Len(ou) > 0 => \E i \in 1..Len(u) : ou[1] = u[i] /\ \A j \in 1..i - 1 : u[j] \notin S
    BY <1>2
  <2> HIDE DEF v, ou, ov
  <2>5. Has(v) = Has(u) \cup {e}
    BY <2>1 DEF Has
  <2>6. Apart(v) => Apart(u) /\ e \notin Has(u)
    BY <2>1 DEF Apart, Has
  <2>7. CASE e \in S
    <3>1. /\ ov \in Seq(T) /\ Len(ov) = Len(ou) + 1 /\ ov[Len(ou) + 1] = e /\ \A i \in 1..Len(ou) : ov[i] = ou[i]
      BY <2>2, <2>3, <2>7
    <3>2. Has(ov) = Has(ou) \cup {e}
      <4>1. 1..Len(ov) = 1..Len(ou) \cup {Len(ou) + 1}
        BY <2>3, <3>1
      <4>. QED BY <3>1, <4>1 DEF Has
    <3>3. Has(ov) = Has(v) \cap S /\ Len(ov) <= Len(v)
      BY <2>1, <2>3, <2>4, <2>5, <2>7, <3>1, <3>2
    <3>4. ~(Has(v) \subseteq S) => Len(ov) < Len(v)
      BY <2>1, <2>3, <2>4, <2>5, <2>7, <3>1
    <3>5. Apart(v) => Apart(ov)
      <4> SUFFICES ASSUME Apart(v), NEW i \in 1..Len(ov), NEW j \in 1..Len(ov), ov[i] = ov[j] PROVE i = j
        BY DEF Apart
      <4>1. Apart(ou) /\ e \notin Has(ou)
        BY <2>4, <2>6
      <4>2. \A l \in 1..Len(ou) : ou[l] # e
        BY <4>1 DEF Has
      <4>. QED BY <2>3, <3>1, <4>1, <4>2 DEF Apart
    <3>6. Len(ov) > 0 => \E i \in 1..Len(v) : ov[1] = v[i] /\ \A j \in 1..i - 1 : v[j] \notin S
      <4>1. CASE Len(ou) > 0
        <5>1. PICK i \in 1..Len(u) : ou[1] = u[i] /\ \A j \in 1..i - 1 : u[j] \notin S
          BY <2>4, <4>1
        <5>2. i \in 1..Len(v) /\ v[i] = u[i] /\ \A j \in 1..i - 1 : v[j] \notin S
          BY <2>1, <5>1
        <5>3. 1 \in 1..Len(ou)
          BY <2>3, <4>1
        <5>4. ov[1] = v[i]
          BY <3>1, <5>1, <5>2, <5>3
        <5>. QED BY <5>2, <5>4
      <4>2. CASE Len(ou) = 0
        <5>1. Has(u) \cap S = {}
          BY <2>4, <4>2 DEF Has
        <5>2. Len(u) + 1 \in 1..Len(v) /\ ov[1] = v[Len(u) + 1]
          BY <2>1, <3>1, <4>2
        <5>3. \A j \in 1..(Len(u) + 1) - 1 : v[j] \notin S
          BY <2>1, <5>1 DEF Has
        <5>. QED BY <5>2, <5>3
      <4>. QED BY <2>3, <4>1, <4>2
    <3>. QED BY <2>1, <3>3, <3>4, <3>5, <3>6 DEF v, ov
  <2>8. CASE e \notin S
    <3>1. ov = ou
      BY <2>2, <2>8
    <3>2. Has(ov) = Has(v) \cap S /\ Len(ov) <= Len(v) /\ Len(ov) < Len(v)
      BY <2>1, <2>3, <2>4, <2>5, <2>8, <3>1
    <3>3. Apart(v) => Apart(ov)
      BY <2>4, <2>6, <3>1
    <3>4. Len(ov) > 0 => \E i \in 1..Len(v) : ov[1] = v[i] /\ \A j \in 1..i - 1 : v[j] \notin S
      <4> SUFFICES ASSUME Len(ou) > 0 PROVE \E i \in 1..Len(v) : ov[1] = v[i] /\ \A j \in 1..i - 1 : v[j] \notin S
        BY <3>1
      <4>1. PICK i \in 1..Len(u) : ou[1] = u[i] /\ \A j \in 1..i - 1 : u[j] \notin S
        BY <2>4
      <4>2. i \in 1..Len(v) /\ ov[1] = v[i] /\ \A j \in 1..i - 1 : v[j] \notin S
        BY <2>1, <3>1, <4>1
      <4>. QED BY <4>2
    <3>. QED BY <2>1, <3>2, <3>3, <3>4 DEF v, ov
  <2>. QED BY <2>7, <2>8
<1>3. q \in A
  <2>1. \A u \in Seq(T), e \in T : u \in A => Append(u, e) \in A
    BY <1>2
  <2> HIDE DEF A
  <2>. QED BY <1>1, <2>1, AllSequences
<1>. QED BY <1>3, OnlyFits

LEMMA OnlyHas ==
  ASSUME NEW T, NEW S, NEW q \in Seq(T)
  PROVE  /\ Only(q, S) \in Seq(T) /\ Has(Only(q, S)) = Has(q) \cap S /\ Len(Only(q, S)) <= Len(q)
  BY OnlyShort

-----------------------------------------------------------------------------
(* What is picked of sequences put together *)

LEMMA HasMore ==
  ASSUME NEW T, NEW q \in Seq(T), NEW e \in T
  PROVE  Has(Append(q, e)) = Has(q) \cup {e}
<1>1. /\ Len(q) \in Nat /\ Len(Append(q, e)) = Len(q) + 1 /\ Append(q, e)[Len(q) + 1] = e
      /\ \A i \in 1..Len(q) : Append(q, e)[i] = q[i]
  OBVIOUS
<1>2. 1..Len(q) + 1 = 1..Len(q) \cup {Len(q) + 1}
  BY <1>1
<1>. QED BY <1>1, <1>2 DEF Has

LEMMA HasBoth ==
  ASSUME NEW T, NEW q \in Seq(T), NEW r \in Seq(T)
  PROVE  Has(q \o r) = Has(q) \cup Has(r)
<1> DEFINE u == q \o r
<1>1. /\ Len(q) \in Nat /\ Len(r) \in Nat /\ Len(u) = Len(q) + Len(r)
      /\ \A i \in 1..Len(q) : u[i] = q[i]
      /\ \A i \in 1..Len(r) : u[Len(q) + i] = r[i]
  OBVIOUS
<1> HIDE DEF u
<1>2. ASSUME NEW i \in 1..Len(u) PROVE u[i] \in Has(q) \cup Has(r)
  <2>1. CASE i <= Len(q)
    BY <1>1, <2>1 DEF Has
  <2>2. CASE ~(i <= Len(q))
    <3> DEFINE j == i - Len(q)
    <3>1. j \in 1..Len(r) /\ i = Len(q) + j
      BY <1>1, <2>2
    <3> HIDE DEF j
    <3>. QED BY <1>1, <3>1 DEF Has
  <2>. QED BY <2>1, <2>2
<1>3. ASSUME NEW i \in 1..Len(r) PROVE r[i] \in Has(u)
  <2>1. Len(q) + i \in 1..Len(u) /\ u[Len(q) + i] = r[i]
    BY <1>1
  <2>. QED BY <2>1 DEF Has
<1>4. ASSUME NEW i \in 1..Len(q) PROVE q[i] \in Has(u)
  BY <1>1 DEF Has
<1>5. Has(u) = Has(q) \cup Has(r)
  BY <1>2, <1>3, <1>4 DEF Has
<1>. QED BY <1>5 DEF u

LEMMA BothMore ==
  ASSUME NEW T, NEW q \in Seq(T), NEW r \in Seq(T), NEW e \in T
  PROVE  q \o Append(r, e) = Append(q \o r, e) /\ q \o r \in Seq(T) /\ q \o <<>> = q /\ <<>> \o q = q
  OBVIOUS

LEMMA OnlyBoth ==
  ASSUME NEW T, NEW S, NEW q \in Seq(T), NEW r \in Seq(T)
  PROVE  Only(q \o r, S) = Only(q, S) \o Only(r, S)
<1> DEFINE A == {u \in Seq(T) : Only(q \o u, S) = Only(q, S) \o Only(u, S)}
<1>1. <<>> \in A
  <2>1. q \o <<>> = q /\ Only(q, S) \o <<>> = Only(q, S)
    BY OnlyFits
  <2>2. Only(q \o <<>>, S) = Only(q, S) \o Only(<<>>, S)
    BY <2>1, OnlyNone, Zenon
  <2>. QED BY <2>2
<1>2. ASSUME NEW u \in Seq(T), NEW e \in T, u \in A PROVE Append(u, e) \in A
  <2> DEFINE v == Append(u, e)
             oq == Only(q, S)
             ou == Only(u, S)
  <2>1. v \in Seq(T) /\ q \o v = Append(q \o u, e) /\ q \o u \in Seq(T)
    OBVIOUS
  <2>2. Only(q \o u, S) = oq \o ou /\ oq \in Seq(T) /\ ou \in Seq(T)
    BY <1>2, OnlyFits
  <2>3. Only(q \o v, S) = IF e \in S THEN Append(Only(q \o u, S), e) ELSE Only(q \o u, S)
    BY <2>1, OnlyOneMore
  <2>4. Only(v, S) = IF e \in S THEN Append(ou, e) ELSE ou
    BY OnlyOneMore
  <2> HIDE DEF v, oq, ou
  <2>5. oq \o Append(ou, e) = Append(oq \o ou, e)
    BY <2>2
  <2>6. Only(q \o v, S) = oq \o Only(v, S)
    BY <2>2, <2>3, <2>4, <2>5
  <2>. QED BY <2>1, <2>6 DEF v, oq
<1>3. \A u \in Seq(T) : u \in A
  <2>1. \A u \in Seq(T), e \in T : u \in A => Append(u, e) \in A
    BY <1>2
  <2> HIDE DEF A
  <2>. QED BY <1>1, <2>1, AllSequences
<1>. QED BY <1>3

\* It depends on the set no further than on what of the sequence is in it.
LEMMA OnlySame ==
  ASSUME NEW T, NEW S, NEW R, NEW q \in Seq(T), \A x \in Has(q) : x \in S <=> x \in R
  PROVE  Only(q, S) = Only(q, R)
<1> DEFINE A == {u \in Seq(T) : (\A x \in Has(u) : x \in S <=> x \in R) => Only(u, S) = Only(u, R)}
<1>1. <<>> \in A
  BY OnlyNone
<1>2. ASSUME NEW u \in Seq(T), NEW e \in T, u \in A PROVE Append(u, e) \in A
  <2> SUFFICES ASSUME \A x \in Has(Append(u, e)) : x \in S <=> x \in R
               PROVE  Only(Append(u, e), S) = Only(Append(u, e), R)
    OBVIOUS
  <2>1. Has(Append(u, e)) = Has(u) \cup {e}
    BY HasMore
  <2>2. Only(u, S) = Only(u, R) /\ (e \in S <=> e \in R)
    BY <1>2, <2>1
  <2>3. Only(Append(u, e), S) = IF e \in S THEN Append(Only(u, S), e) ELSE Only(u, S)
    BY OnlyOneMore
  <2>4. Only(Append(u, e), R) = IF e \in R THEN Append(Only(u, R), e) ELSE Only(u, R)
    BY OnlyOneMore
  <2>. QED BY <2>2, <2>3, <2>4
<1>3. \A u \in Seq(T) : u \in A
  <2>1. \A u \in Seq(T), e \in T : u \in A => Append(u, e) \in A
    BY <1>2
  <2> HIDE DEF A
  <2>. QED BY <1>1, <2>1, AllSequences
<1>. QED BY <1>3

LEMMA OnlyAll ==
  ASSUME NEW T, NEW S, NEW q \in Seq(T), Has(q) \subseteq S
  PROVE  Only(q, S) = q
<1> DEFINE A == {u \in Seq(T) : Has(u) \subseteq S => Only(u, S) = u}
<1>1. <<>> \in A
  BY OnlyNone
<1>2. ASSUME NEW u \in Seq(T), NEW e \in T, u \in A PROVE Append(u, e) \in A
  <2>1. Has(Append(u, e)) = Has(u) \cup {e}
    BY HasMore
  <2>2. Only(Append(u, e), S) = IF e \in S THEN Append(Only(u, S), e) ELSE Only(u, S)
    BY OnlyOneMore
  <2>. QED BY <1>2, <2>1, <2>2
<1>3. \A u \in Seq(T) : u \in A
  <2>1. \A u \in Seq(T), e \in T : u \in A => Append(u, e) \in A
    BY <1>2
  <2> HIDE DEF A
  <2>. QED BY <1>1, <2>1, AllSequences
<1>. QED BY <1>3

LEMMA OnlyNothing ==
  ASSUME NEW T, NEW S, NEW q \in Seq(T), Has(q) \cap S = {}
  PROVE  Only(q, S) = <<>>
<1>1. Only(q, S) = Only(q, {})
  BY OnlySame
<1> DEFINE A == {u \in Seq(T) : Only(u, {}) = <<>>}
<1>2. <<>> \in A
  BY OnlyNone
<1>3. ASSUME NEW u \in Seq(T), NEW e \in T, u \in A PROVE Append(u, e) \in A
  <2>1. Only(Append(u, e), {}) = IF e \in {} THEN Append(Only(u, {}), e) ELSE Only(u, {})
    BY OnlyOneMore
  <2>. QED BY <1>3, <2>1
<1>4. \A u \in Seq(T) : u \in A
  <2>1. \A u \in Seq(T), e \in T : u \in A => Append(u, e) \in A
    BY <1>3
  <2> HIDE DEF A
  <2>. QED BY <1>2, <2>1, AllSequences
<1>. QED BY <1>1, <1>4

LEMMA OnlyTwice ==
  ASSUME NEW T, NEW S, NEW R, NEW q \in Seq(T)
  PROVE  Only(Only(q, S), R) = Only(q, S \cap R)
<1> DEFINE A == {u \in Seq(T) : Only(Only(u, S), R) = Only(u, S \cap R)}
<1>1. <<>> \in A
  BY OnlyNone
<1>2. ASSUME NEW u \in Seq(T), NEW e \in T, u \in A PROVE Append(u, e) \in A
  <2>0. Only(u, S) \in Seq(T)
    BY OnlyFits
  <2>1. Only(Append(u, e), S) = IF e \in S THEN Append(Only(u, S), e) ELSE Only(u, S)
    BY OnlyOneMore
  <2>2. Only(Append(u, e), S \cap R) = IF e \in S \cap R THEN Append(Only(u, S \cap R), e) ELSE Only(u, S \cap R)
    BY OnlyOneMore
  <2>3. Only(Append(Only(u, S), e), R) = IF e \in R THEN Append(Only(Only(u, S), R), e) ELSE Only(Only(u, S), R)
    BY <2>0, OnlyOneMore
  <2>4. Only(Only(u, S), R) = Only(u, S \cap R) /\ Append(u, e) \in Seq(T)
    BY <1>2
  <2>5. CASE e \in S /\ e \in R
    BY <2>1, <2>2, <2>3, <2>4, <2>5
  <2>6. CASE e \in S /\ e \notin R
    BY <2>1, <2>2, <2>3, <2>4, <2>6
  <2>7. CASE e \notin S
    BY <2>1, <2>2, <2>4, <2>7
  <2>. QED BY <2>5, <2>6, <2>7
<1>3. \A u \in Seq(T) : u \in A
  <2>1. \A u \in Seq(T), e \in T : u \in A => Append(u, e) \in A
    BY <1>2
  <2> HIDE DEF A
  <2>. QED BY <1>1, <2>1, AllSequences
<1>. QED BY <1>3

-----------------------------------------------------------------------------
(* The stores of the topics *)

\* As long as no store was made while too few others were idle, the page has what
\* the manager has, and its topic was the last one asked for if no other is prepared.
StoresInv ==
    /\ Stores!TypeOK /\ Apart(x2) /\ (Len(x2) > MaxTopic => x9)
    /\ Has(x2) = {t \in Topics : x1[t] # 0} /\ x3 \ Has(x2) = x10
    /\ ~x7 => Stores!Held(x4) /\ Stores!Held(x5)
    /\ ~x7 /\ x5 = Stores!Nothing /\ x4 # Stores!Nothing => Len(x2) > 0 /\ x2[Len(x2)] = x4.topic

LEMMA StoresTypes ==
  ASSUME StoresInv
  PROVE  /\ MaxTopic \in Nat /\ MaxStore \in Nat /\ 0 \notin Topics
         /\ x1 \in [Topics -> 0..MaxStore] /\ x2 \in Seq(Topics) /\ x3 \subseteq Topics
         /\ x4 \in Stores!Place /\ x5 \in Stores!Place /\ x6 \in 0..MaxStore /\ x7 \in BOOLEAN
         /\ x8 \subseteq Topics /\ x9 \in BOOLEAN /\ x10 \subseteq Topics
  BY TabAssumption DEF StoresInv, Stores!TypeOK

\* A place that is not empty is of a topic and has a store.
LEMMA PlaceIs ==
  ASSUME NEW p \in Stores!Place, p # Stores!Nothing
  PROVE  p.topic \in Topics /\ p.store \in 1..MaxStore
  BY DEF Stores!Place

LEMMA StoresInit == ASSUME Stores!Init PROVE StoresInv
<1>1. /\ x1 = [t \in Topics |-> 0] /\ x2 = <<>> /\ x3 = {} /\ x4 = Stores!Nothing /\ x5 = Stores!Nothing
      /\ x6 = 0 /\ x7 = FALSE /\ x8 = {} /\ x9 = FALSE /\ x10 = {} /\ MaxTopic \in Nat /\ MaxStore \in Nat
  BY TabAssumption DEF Stores!Init
<1>2. Stores!TypeOK
  <2>1. <<>> \in Seq(Topics) /\ Stores!Nothing \in Stores!Place /\ 0 \in 0..MaxStore
    BY <1>1 DEF Stores!Place
  <2>. QED BY <1>1, <2>1 DEF Stores!TypeOK
<1>. QED BY <1>1, <1>2 DEF StoresInv, Has, Apart, Stores!Held

\* Every element is picked by a set or by its complement.
LEMMA OnlyParts ==
  ASSUME NEW T, NEW S, NEW q \in Seq(T)
  PROVE  Len(q) = Len(Only(q, S)) + Len(Only(q, T \ S))
<1> DEFINE A == {u \in Seq(T) : Len(u) = Len(Only(u, S)) + Len(Only(u, T \ S))}
<1>1. <<>> \in A
  BY OnlyNone
<1>2. ASSUME NEW u \in Seq(T), NEW e \in T, u \in A PROVE Append(u, e) \in A
  <2>1. Only(Append(u, e), S) = IF e \in S THEN Append(Only(u, S), e) ELSE Only(u, S)
    BY OnlyOneMore
  <2>2. Only(Append(u, e), T \ S) = IF e \in T \ S THEN Append(Only(u, T \ S), e) ELSE Only(u, T \ S)
    BY OnlyOneMore
  <2>3. Only(u, S) \in Seq(T) /\ Only(u, T \ S) \in Seq(T)
    BY OnlyFits
  <2>. QED BY <1>2, <2>1, <2>2, <2>3
<1>3. \A u \in Seq(T) : u \in A
  <2>1. \A u \in Seq(T), e \in T : u \in A => Append(u, e) \in A
    BY <1>2
  <2> HIDE DEF A
  <2>. QED BY <1>1, <2>1, AllSequences
<1>. QED BY <1>3

\* A sequence without the first k of those that a set picks is shorter by k.
LEMMA FirstGone ==
  ASSUME NEW T, NEW U \in SUBSET T, NEW q \in Seq(T), NEW k \in Nat, k <= Len(Only(q, U))
  PROVE  Len(Only(q, T \ {Only(q, U)[i] : i \in 1..k})) <= Len(q) - k
<1> DEFINE p == Only(q, U)
           gone == {p[i] : i \in 1..k}
           pre == [i \in 1..k |-> p[i]]
           post == [i \in 1..Len(p) - k |-> p[k + i]]
<1>1. p \in Seq(T) /\ Has(p) = Has(q) \cap U /\ Len(p) \in Nat /\ k <= Len(p)
  BY OnlyHas
<1>2. Only(p, gone) = Only(q, U \cap gone)
  BY OnlyTwice
<1>3. gone \subseteq Has(p)
  <2> HIDE DEF p
  <2>. QED BY <1>1 DEF Has
<1>4. U \cap gone = gone /\ gone \subseteq T
  BY <1>1, <1>3
<1>5. /\ pre \in Seq(T) /\ post \in Seq(T) /\ Len(pre) = k /\ \A i \in 1..k : pre[i] = p[i]
      /\ p = pre \o post
  <2> HIDE DEF p
  <2>1. pre \in Seq(T) /\ post \in Seq(T) /\ Len(pre) = k /\ Len(post) = Len(p) - k
    BY <1>1
  <2>2. \A i \in 1..Len(p) : p[i] = (pre \o post)[i]
    BY <1>1, <2>1
  <2>3. pre \o post \in Seq(T) /\ Len(pre \o post) = Len(p)
    BY <1>1, <2>1
  <2> DEFINE both == pre \o post
  <2> HIDE DEF pre, post, both
  <2>4. p = both
    <3>1. both \in Seq(T) /\ Len(both) = Len(p) /\ \A i \in 1..Len(p) : p[i] = both[i]
      BY <2>2, <2>3 DEF both
    <3>2. p = [i \in 1..Len(p) |-> p[i]] /\ both = [i \in 1..Len(p) |-> both[i]]
      BY <1>1, <3>1
    <3>. QED BY <3>1, <3>2
  <2>. QED BY <1>1, <2>1, <2>4 DEF pre, both
<1> HIDE DEF p, gone, pre, post
<1>6. Has(pre) \subseteq gone
  BY <1>5 DEF Has, gone
<1>7. Only(pre, gone) = pre
  BY <1>5, <1>6, OnlyAll
<1>8. Only(p, gone) = pre \o Only(post, gone) /\ Only(post, gone) \in Seq(T)
  <2>1. Only(pre \o post, gone) = Only(pre, gone) \o Only(post, gone)
    BY <1>5, OnlyBoth
  <2>2. Only(post, gone) \in Seq(T)
    BY <1>5, OnlyFits
  <2>. QED BY <1>5, <1>7, <2>1, <2>2
<1>9. Len(Only(p, gone)) >= k /\ Len(Only(p, gone)) \in Nat
  BY <1>5, <1>8
<1>10. Len(q) = Len(Only(q, gone)) + Len(Only(q, T \ gone))
  BY OnlyParts
<1>11. Only(q, gone) = Only(p, gone) /\ Only(q, T \ gone) \in Seq(T)
  BY <1>2, <1>4, OnlyFits
<1>12. Len(Only(q, T \ gone)) <= Len(q) - k
  BY <1>9, <1>10, <1>11
<1>. QED BY <1>12 DEF gone, p

\* Which topics go when a store is made: as many of the idle ones as are too many,
\* the first of them, or all.
GoneIs(lru, gone, k) ==
    LET idle == Only(lru, Topics \ x3)
    IN  /\ k \in Nat /\ k <= Len(idle) /\ gone = {idle[i] : i \in 1..k}
        /\ k <= Stores!Over(lru) /\ (k < Stores!Over(lru) => k = Len(idle))
LEMMA EvictedIs ==
  ASSUME StoresInv, NEW lru \in Seq(Topics)
  PROVE  /\ \E k \in Nat : GoneIs(lru, Stores!Evicted(lru), k)
         /\ Stores!Over(lru) \in Nat /\ Len(lru) <= MaxTopic + Stores!Over(lru)
<1> DEFINE idle == Only(lru, Topics \ x3)
           over == Stores!Over(lru)
           k == IF over < Len(idle) THEN over ELSE Len(idle)
<1>1. idle \in Seq(Topics) /\ Len(idle) \in Nat /\ Len(lru) \in Nat /\ MaxTopic \in Nat
  BY OnlyFits, TabAssumption
<1>2. over \in Nat /\ Len(lru) <= MaxTopic + over
  BY <1>1 DEF Stores!Over
<1>3. Stores!Evicted(lru) = {idle[i] : i \in 1..k}
  BY StoresOnly DEF Stores!Evicted, Stores!Idle
<1> HIDE DEF idle, over
<1>4. k \in Nat /\ k <= Len(idle) /\ k <= over /\ (k < over => k = Len(idle))
  BY <1>1, <1>2
<1> HIDE DEF k
<1>5. GoneIs(lru, Stores!Evicted(lru), k)
  BY <1>3, <1>4 DEF GoneIs, idle, over
<1>. QED BY <1>2, <1>4, <1>5 DEF over

\* What asking for a store of a topic does.
StoreIs(t) ==
    /\ x1' \in [Topics -> 0..MaxStore] /\ x2' \in Seq(Topics) /\ x6' \in 0..MaxStore /\ x7' \in BOOLEAN
    /\ x9' \in BOOLEAN /\ x10' \subseteq Topics
    /\ Stores!Result(t) \in 1..MaxStore
    /\ x7 => x7'
    /\ Apart(x2') /\ (Len(x2') > MaxTopic => x9')
    /\ Has(x2') = {c \in Topics : x1'[c] # 0} /\ x3 \ Has(x2') = x10'
    /\ ~x7' => x1'[t] = Stores!Result(t) /\ Len(x2') > 0 /\ x2'[Len(x2')] = t

\* A store is made; what goes does not run, and neither what is asked for nor what
\* was asked for last goes if there are enough others.
LEMMA StoreMade ==
  ASSUME StoresInv, NEW t \in Topics, x1[t] = 0, Stores!Get(t)
  PROVE  /\ StoreIs(t)
         /\ ~x7' /\ x4 # Stores!Nothing /\ x5 = Stores!Nothing => x1'[x4.topic] = x1[x4.topic] \/ x4.topic = t
<1> DEFINE lru == Append(x2, t)
           gone == Stores!Evicted(lru)
           over == Stores!Over(lru)
           U == Topics \ x3
           idle == Only(lru, U)
           others == Only(x2, Topics \ (x3 \cup {x4.topic}))
<1>1. /\ x6 < MaxStore /\ x6' = x6 + 1
      /\ x2' = Only(lru, Topics \ gone)
      /\ x1' = [c \in Topics |-> IF c \in gone THEN 0 ELSE IF c = t THEN x6 + 1 ELSE x1[c]]
      /\ x7' = (x7 \/ over > Len(others))
      /\ x9' = (Stores!ToSet(x2') \subseteq x3) /\ x10' = x10 \ {t}
      /\ Stores!Result(t) = x6 + 1
  <2>1. Stores!Result(t) = x6 + 1
    BY DEF Stores!Result
  <2>. QED BY <2>1, StoresOnly DEF Stores!Get
<1>2. /\ MaxTopic \in Nat /\ MaxStore \in Nat /\ x1 \in [Topics -> 0..MaxStore] /\ x2 \in Seq(Topics)
      /\ x3 \subseteq Topics /\ x6 \in Nat /\ x7 \in BOOLEAN /\ x10 \subseteq Topics /\ Len(x2) \in Nat /\ Apart(x2)
      /\ Has(x2) = {c \in Topics : x1[c] # 0} /\ x3 \ Has(x2) = x10 /\ t \notin Has(x2)
  BY StoresTypes DEF StoresInv
<1>3. /\ lru \in Seq(Topics) /\ Len(lru) = Len(x2) + 1 /\ lru[Len(x2) + 1] = t
      /\ \A i \in 1..Len(x2) : lru[i] = x2[i]
  BY <1>2
<1>4. PICK k \in Nat : GoneIs(lru, gone, k)
  BY <1>3, EvictedIs
<1>5. over \in Nat /\ Len(lru) <= MaxTopic + over
  BY <1>3, EvictedIs
<1>6. k <= Len(idle) /\ gone = {idle[i] : i \in 1..k} /\ k <= over /\ (k < over => k = Len(idle))
  BY <1>4 DEF GoneIs
<1> HIDE DEF gone, over
<1>7. idle \in Seq(Topics) /\ Has(idle) = Has(lru) \cap U /\ Len(idle) \in Nat
  <2>1. lru \in Seq(Topics)
    BY <1>3
  <2> HIDE DEF lru, U
  <2>. QED BY <2>1, OnlyHas
<1>8. Has(lru) = Has(x2) \cup {t} /\ Apart(lru) /\ Has(lru) \subseteq Topics
  <2>1. Has(lru) = Has(x2) \cup {t}
    BY <1>2, HasMore
  <2>2. \A i \in 1..Len(x2) : lru[i] # t
    BY <1>2, <1>3 DEF Has
  <2>3. \A i, j \in 1..Len(x2) : lru[i] = lru[j] => i = j
    BY <1>2, <1>3 DEF Apart
  <2>4. 1..Len(lru) = 1..Len(x2) \cup {Len(x2) + 1}
    BY <1>2, <1>3
  <2>. QED BY <1>2, <1>3, <2>1, <2>2, <2>3, <2>4 DEF Apart
<1>9. gone \subseteq Has(lru) \ x3 /\ gone \subseteq Topics
  <2>1. gone \subseteq Has(idle)
    <3> HIDE DEF idle
    <3>. QED BY <1>6, <1>7 DEF Has
  <2>. QED BY <1>7, <2>1
<1>10. /\ x2' \in Seq(Topics) /\ Has(x2') = Has(lru) \cap (Topics \ gone) /\ Apart(x2')
  <2> DEFINE W == Topics \ gone
  <2>1. Only(lru, W) \in Seq(Topics) /\ Has(Only(lru, W)) = Has(lru) \cap W /\ Apart(Only(lru, W))
    <3> HIDE DEF W, lru
    <3>. QED BY <1>3, <1>8, OnlyShort, Zenon
  <2>. QED BY <1>1, <2>1
<1>11. Len(x2') > MaxTopic => x9'
  <2>1. Len(x2') <= Len(lru) - k
    <3>1. Len(Only(lru, Topics \ {Only(lru, U)[i] : i \in 1..k})) <= Len(lru) - k
      <4>1. U \in SUBSET Topics /\ k <= Len(Only(lru, U))
        BY <1>6
      <4>2. lru \in Seq(Topics) /\ k \in Nat
        BY <1>3
      <4> HIDE DEF U, lru
      <4>. QED BY <4>1, <4>2, FirstGone, Zenon
    <3>. QED BY <1>1, <1>6, <3>1
  <2>2. CASE k = over
    <3>1. Len(x2') \in Nat /\ Len(lru) \in Nat
      BY <1>3, <1>10
    <3>2. Len(x2') <= MaxTopic
      <4> HIDE DEF lru
      <4>. QED BY <1>2, <1>5, <2>1, <2>2, <3>1
    <3>. QED BY <1>2, <3>1, <3>2
  <2>3. CASE k # over
    <3>1. k = Len(idle)
      BY <1>5, <1>6, <2>3
    <3>2. gone = Has(lru) \ x3
      <4> HIDE DEF idle
      <4>1. gone = Has(idle)
        BY <1>6, <3>1 DEF Has
      <4>. QED BY <1>7, <1>8, <4>1
    <3>3. Has(x2') \subseteq x3
      BY <1>8, <1>10, <3>2
    <3>4. Stores!ToSet(x2') = Has(x2')
      BY <1>10 DEF Stores!ToSet, Has
    <3>. QED BY <1>1, <3>3, <3>4
  <2>. QED BY <2>2, <2>3
<1>12. Has(x2') = {c \in Topics : x1'[c] # 0}
  <2>1. \A c \in Topics : x1'[c] # 0 <=> c \in Has(lru) /\ c \notin gone
    <3> HIDE DEF lru
    <3>. QED BY <1>1, <1>2, <1>8
  <2>. QED BY <1>8, <1>10, <2>1
<1>13. x3 \ Has(x2') = x10'
  BY <1>1, <1>2, <1>8, <1>9, <1>10
<1>14. x1' \in [Topics -> 0..MaxStore] /\ x6' \in 0..MaxStore /\ x7' \in BOOLEAN /\ x6 + 1 \in 1..MaxStore
       /\ x9' \in BOOLEAN /\ x10' \subseteq Topics
  <2>1. x6 + 1 \in 0..MaxStore /\ 0 \in 0..MaxStore /\ x6 + 1 \in 1..MaxStore
    BY <1>1, <1>2
  <2>. QED BY <1>1, <1>2, <2>1
<1>15. ASSUME ~x7', NEW q \in Seq(Topics), Len(others) <= Len(Only(q, U)),
              \A i \in 1..Len(Only(q, U)) : i \in 1..Len(idle) /\ idle[i] = Only(q, U)[i]
       PROVE  gone \subseteq Has(q)
  <2> DEFINE o == Only(q, U)
  <2>1. Len(others) \in Nat /\ Len(o) \in Nat /\ Has(o) = Has(q) \cap U
    BY <1>2, OnlyHas
  <2>2. over <= Len(others)
    <3>1. ~(over > Len(others))
      BY <1>1, <1>15, Zenon
    <3> HIDE DEF others
    <3>. QED BY <1>5, <2>1, <3>1
  <2>3. k <= Len(o)
    <3> HIDE DEF others, o
    <3>1. Len(others) <= Len(o)
      BY <1>15 DEF o
    <3>. QED BY <1>5, <1>6, <2>1, <2>2, <3>1
  <2>4. \A i \in 1..k : i \in 1..Len(o) /\ idle[i] = o[i]
    <3>1. \A i \in 1..Len(o) : idle[i] = o[i]
      BY <1>15
    <3> HIDE DEF idle, o
    <3>. QED BY <2>1, <2>3, <3>1
  <2>5. gone \subseteq Has(o)
    <3> HIDE DEF idle, o
    <3>. QED BY <1>6, <2>4 DEF Has
  <2>. QED BY <2>1, <2>5
<1>16. ASSUME ~x7' PROVE t \notin gone
  <2> DEFINE o == Only(x2, U)
  <2>1. idle = IF t \in U THEN Append(o, t) ELSE o
    BY <1>2, OnlyOneMore
  <2>2. o \in Seq(Topics) /\ Len(o) \in Nat
    BY <1>2, OnlyFits
  <2>3. Len(others) <= Len(o)
    <3>1. others = Only(o, Topics \ {x4.topic})
      <4>1. Only(o, Topics \ {x4.topic}) = Only(x2, U \cap (Topics \ {x4.topic}))
        BY <1>2, OnlyTwice
      <4>2. U \cap (Topics \ {x4.topic}) = Topics \ (x3 \cup {x4.topic})
        OBVIOUS
      <4>. QED BY <4>1, <4>2, Zenon
    <3> HIDE DEF o, others
    <3>2. Len(Only(o, Topics \ {x4.topic})) <= Len(o)
      BY <2>2, OnlyHas
    <3>. QED BY <3>1, <3>2
  <2>4. \A i \in 1..Len(o) : i \in 1..Len(idle) /\ idle[i] = o[i]
    <3> HIDE DEF o, idle, U
    <3>. QED BY <2>1, <2>2
  <2>5. gone \subseteq Has(x2)
    BY <1>2, <1>15, <1>16, <2>3, <2>4
  <2>. QED BY <1>2, <2>5
<1>17. ASSUME ~x7', x4 # Stores!Nothing, x5 = Stores!Nothing PROVE x4.topic \notin gone
  <2> DEFINE n == Len(x2)
             front == [i \in 1..n - 1 |-> x2[i]]
             o == Only(front, U)
  <2>1. n > 0 /\ x2[n] = x4.topic
    BY <1>1, <1>2, <1>17 DEF StoresInv
  <2>2. /\ front \in Seq(Topics) /\ x2 = Append(front, x4.topic) /\ x4.topic \in Topics
        /\ x4.topic \notin Has(front)
    <3>1. front \in Seq(Topics) /\ Len(front) = n - 1 /\ \A i \in 1..n - 1 : front[i] = x2[i]
      BY <1>2, <2>1
    <3>2. x2 = Append(front, x2[n]) /\ x2[n] \in Topics
      BY <1>2, <2>1
    <3>3. \A i \in 1..n - 1 : x2[i] # x2[n]
      BY <1>2, <2>1 DEF Apart
    <3> HIDE DEF front
    <3>. QED BY <2>1, <3>1, <3>2, <3>3 DEF Has
  <2> HIDE DEF front, n
  <2>3. o \in Seq(Topics) /\ Len(o) \in Nat
    BY <2>2, OnlyFits
  <2>4. others = o
    <3> DEFINE S == Topics \ (x3 \cup {x4.topic})
    <3>1. Only(x2, S) = Only(front, S)
      <4>1. Only(Append(front, x4.topic), S) = IF x4.topic \in S THEN Append(Only(front, S), x4.topic) ELSE Only(front, S)
        BY <2>2, OnlyOneMore
      <4>2. x4.topic \notin S
        OBVIOUS
      <4>. QED BY <2>2, <4>1, <4>2
    <3>2. \A x \in Has(front) : x \in S <=> x \in U
      BY <2>2
    <3>3. Only(front, S) = o
      BY <2>2, <3>2, OnlySame
    <3>. QED BY <3>1, <3>3
  <2>5. \A i \in 1..Len(o) : i \in 1..Len(idle) /\ idle[i] = o[i]
    <3> DEFINE m == Only(x2, U)
    <3>1. m = IF x4.topic \in U THEN Append(o, x4.topic) ELSE o
      <4>1. \A q \in Seq(Topics), e \in Topics :
              Only(Append(q, e), U) = IF e \in U THEN Append(Only(q, U), e) ELSE Only(q, U)
        BY OnlyOneMore
      <4>2. x2 = Append(front, x4.topic) /\ front \in Seq(Topics) /\ x4.topic \in Topics
        BY <2>2
      <4> HIDE DEF U
      <4>. QED BY <4>1, <4>2, Zenon
    <3>2. idle = IF t \in U THEN Append(m, t) ELSE m
      BY <1>2, OnlyOneMore
    <3> HIDE DEF o, idle, U, m
    <3>3. m \in Seq(Topics) /\ Len(m) \in Nat /\ Len(m) >= Len(o) /\ \A i \in 1..Len(o) : m[i] = o[i]
      BY <2>2, <2>3, <3>1
    <3>4. Len(idle) >= Len(m) /\ \A i \in 1..Len(m) : idle[i] = m[i]
      BY <3>2, <3>3
    <3>. QED BY <1>7, <2>3, <3>3, <3>4
  <2>6. Len(others) <= Len(o)
    <3> HIDE DEF o, others
    <3>. QED BY <2>3, <2>4
  <2>7. gone \subseteq Has(front)
    BY <1>15, <1>17, <2>2, <2>5, <2>6
  <2>. QED BY <2>2, <2>7
<1>18. ASSUME ~x7' PROVE Len(x2') > 0 /\ x2'[Len(x2')] = t
  <2>1. Only(lru, Topics \ gone) = Append(Only(x2, Topics \ gone), t)
    BY <1>2, <1>16, <1>18, OnlyOneMore DEF lru
  <2>2. Only(x2, Topics \ gone) \in Seq(Topics)
    BY <1>2, OnlyFits
  <2>. QED BY <1>1, <2>1, <2>2
<1>19. ASSUME ~x7', x4 # Stores!Nothing, x5 = Stores!Nothing PROVE x1'[x4.topic] = x1[x4.topic] \/ x4.topic = t
  <2>1. x4.topic \in Topics
    BY <1>19, StoresTypes, PlaceIs
  <2>. QED BY <1>1, <1>17, <1>19, <2>1
<1>20. ~x7' => x1'[t] = x6 + 1
  BY <1>1, <1>16
<1>21. Stores!Result(t) \in 1..MaxStore /\ (x7 => x7')
  BY <1>1, <1>2, <1>14
<1>. QED BY <1>1, <1>10, <1>11, <1>12, <1>13, <1>14, <1>18, <1>19, <1>20, <1>21 DEF StoreIs

\* A store that there is is asked for again.
LEMMA StoreAsked ==
  ASSUME StoresInv, NEW t \in Topics, x1[t] # 0, Stores!Get(t)
  PROVE  /\ UNCHANGED <<x1, x6, x7, x9, x10>> /\ x2' \in Seq(Topics) /\ Apart(x2') /\ Len(x2') <= Len(x2)
         /\ Has(x2') = Has(x2) /\ Len(x2') > 0 /\ x2'[Len(x2')] = t
         /\ Stores!Result(t) = x1[t] /\ x1[t] \in 1..MaxStore
<1> DEFINE rest == Only(x2, Topics \ {t})
<1>1. x2' = Append(rest, t) /\ UNCHANGED <<x1, x6, x7, x9, x10>> /\ Stores!Result(t) = x1[t]
  BY StoresOnly DEF Stores!Get, Stores!TouchTopic, Stores!Result, Stores!ghosts
<1>2. /\ MaxTopic \in Nat /\ MaxStore \in Nat /\ x1 \in [Topics -> 0..MaxStore] /\ x2 \in Seq(Topics)
      /\ Len(x2) \in Nat /\ Apart(x2) /\ t \in Has(x2) /\ Has(x2) \subseteq Topics
  BY StoresTypes DEF StoresInv
<1>3. /\ rest \in Seq(Topics) /\ Has(rest) = Has(x2) \cap (Topics \ {t}) /\ Len(rest) < Len(x2) /\ Apart(rest)
      /\ Len(rest) \in Nat
  BY <1>2, OnlyShort, OnlyFits
<1> HIDE DEF rest
<1>4. /\ x2' \in Seq(Topics) /\ Len(x2') = Len(rest) + 1 /\ x2'[Len(rest) + 1] = t
      /\ \A i \in 1..Len(rest) : x2'[i] = rest[i]
  BY <1>1, <1>3
<1>5. Has(x2') = Has(rest) \cup {t}
  <2>1. 1..Len(x2') = 1..Len(rest) \cup {Len(rest) + 1}
    BY <1>3, <1>4
  <2>. QED BY <1>4, <2>1 DEF Has
<1>6. Apart(x2')
  <2>1. \A i \in 1..Len(rest) : rest[i] # t
    BY <1>3 DEF Has
  <2>. QED BY <1>3, <1>4, <2>1 DEF Apart
<1>7. Has(x2') = Has(x2)
  BY <1>2, <1>3, <1>5
<1>8. x1[t] \in 1..MaxStore
  BY <1>2
<1>. QED BY <1>1, <1>2, <1>3, <1>4, <1>6, <1>7, <1>8

\* Whether a topic is at hand or made, what the page gets is held.
LEMMA StoreGot ==
  ASSUME StoresInv, NEW t \in Topics, Stores!Get(t)
  PROVE  StoreIs(t)
<1>1. CASE x1[t] = 0
  BY <1>1, StoreMade
<1>2. CASE x1[t] # 0
  <2>1. Len(x2') \in Nat /\ Len(x2) \in Nat /\ Len(x2') <= Len(x2)
    BY <1>2, StoreAsked, StoresTypes
  <2>2. Len(x2') > MaxTopic => x9'
    BY <1>2, <2>1, StoreAsked, StoresTypes DEF StoresInv
  <2>. QED BY <1>2, <2>2, StoreAsked, StoresTypes DEF StoresInv, StoreIs
<1>. QED BY <1>1, <1>2

LEMMA PlaceMade ==
  ASSUME NEW t \in Topics, NEW s \in 1..MaxStore
  PROVE  /\ [topic |-> t, store |-> s] \in Stores!Place /\ [topic |-> t, store |-> s] # Stores!Nothing
         /\ [topic |-> t, store |-> s].topic = t /\ [topic |-> t, store |-> s].store = s
<1>1. [topic |-> t, store |-> s].topic # Stores!Nothing.topic
  BY TabAssumption DEF Stores!Nothing
<1>. QED BY <1>1 DEF Stores!Place

LEMMA StoresStep == StoresInv /\ Stores!Next => StoresInv'
<1> SUFFICES ASSUME StoresInv, Stores!Next PROVE StoresInv'
  OBVIOUS
<1>0. /\ MaxTopic \in Nat /\ MaxStore \in Nat /\ 0 \notin Topics
      /\ x1 \in [Topics -> 0..MaxStore] /\ x2 \in Seq(Topics) /\ x3 \subseteq Topics
      /\ x4 \in Stores!Place /\ x5 \in Stores!Place /\ x6 \in 0..MaxStore /\ x7 \in BOOLEAN
      /\ x8 \subseteq Topics /\ x9 \in BOOLEAN /\ x10 \subseteq Topics
  BY StoresTypes
<1>1. ASSUME NEW t \in Topics, Stores!ChatStore(t), UNCHANGED <<x3, x8>>, x5' = Stores!Nothing PROVE StoresInv'
  <2>1. Stores!Get(t) /\ x4' = [topic |-> t, store |-> Stores!Result(t)]
    BY <1>1 DEF Stores!ChatStore
  <2>2. StoreIs(t)
    BY <2>1, StoreGot, Zenon
  <2>3. x4' \in Stores!Place /\ x4' # Stores!Nothing /\ x4'.topic = t /\ x4'.store = Stores!Result(t)
    <3>1. Stores!Result(t) \in 1..MaxStore
      BY <2>2 DEF StoreIs
    <3>. QED BY <2>1, <3>1, PlaceMade, Zenon
  <2>4. Stores!TypeOK'
    BY <1>0, <1>1, <2>2, <2>3 DEF Stores!TypeOK, Stores!Place, StoreIs
  <2>. QED BY <1>1, <2>2, <2>3, <2>4 DEF StoresInv, Stores!Held, StoreIs
<1>2. ASSUME NEW t \in Topics, Stores!NewTopic(t) PROVE StoresInv'
  <2>1. /\ Stores!Get(t) /\ x5' = [topic |-> t, store |-> Stores!Result(t)] /\ x1[t] = 0 /\ x5 = Stores!Nothing
        /\ t # x4.topic /\ UNCHANGED <<x3, x4, x8>>
    BY <1>2 DEF Stores!NewTopic
  <2>2. /\ StoreIs(t)
        /\ ~x7' /\ x4 # Stores!Nothing => x1'[x4.topic] = x1[x4.topic]
    BY <2>1, StoreMade
  <2>3. x5' \in Stores!Place /\ x5' # Stores!Nothing /\ x5'.topic = t /\ x5'.store = Stores!Result(t)
    <3>1. Stores!Result(t) \in 1..MaxStore
      BY <2>2 DEF StoreIs
    <3>. QED BY <2>1, <3>1, PlaceMade, Zenon
  <2>4. Stores!TypeOK'
    BY <1>0, <2>1, <2>2, <2>3 DEF Stores!TypeOK, Stores!Place, StoreIs
  <2>5. ASSUME ~x7' PROVE x4 = Stores!Nothing \/ x1'[x4.topic] = x4.store
    <3>1. ~x7
      BY <2>2, <2>5 DEF StoreIs
    <3>2. x4 = Stores!Nothing \/ x1[x4.topic] = x4.store
      BY <3>1 DEF StoresInv, Stores!Held
    <3>3. x4 # Stores!Nothing => x1'[x4.topic] = x1[x4.topic]
      BY <2>2, <2>5
    <3>. QED BY <3>2, <3>3
  <2>. QED BY <2>1, <2>2, <2>3, <2>4, <2>5 DEF StoresInv, Stores!Held, StoreIs
<1>3. CASE Stores!Send
  <2>1. /\ x4 # Stores!Nothing /\ x8' = x8 \cup {x4.topic}
        /\ UNCHANGED <<x1, x2, x3, x4, x5, x6, x7, x9, x10>>
    BY <1>3 DEF Stores!Send, Stores!ghosts
  <2>2. x4.topic \in Topics
    BY <1>0, <2>1, PlaceIs
  <2>. QED BY <1>0, <2>1, <2>2 DEF StoresInv, Stores!TypeOK, Stores!Held, Has, Apart, Stores!Place
<1>4. ASSUME NEW t \in Topics, Stores!RunEnds(t) \/ Stores!Accepted(t) PROVE StoresInv'
  <2>1. UNCHANGED <<x1, x2, x4, x5, x6, x7, x8, x9>>
    BY <1>4 DEF Stores!RunEnds, Stores!Accepted
  <2>2. x3' \subseteq Topics /\ x10' \subseteq Topics
    BY <1>0, <1>4 DEF Stores!RunEnds, Stores!Accepted
  <2>3. x3' \ Has(x2) = x10'
    <3>1. x3 \ Has(x2) = x10 /\ (t \in Has(x2) <=> x1[t] # 0)
      BY DEF StoresInv
    <3>. QED BY <1>4, <3>1 DEF Stores!RunEnds, Stores!Accepted
  <2>. QED BY <1>0, <2>1, <2>2, <2>3 DEF StoresInv, Stores!TypeOK, Stores!Held, Has, Apart, Stores!Place
<1>5. ASSUME NEW t \in Topics, Stores!Open(t) PROVE StoresInv'
  BY <1>1, <1>5 DEF Stores!Open
<1>6. CASE Stores!Replaced
  <2>1. x5 # Stores!Nothing /\ Stores!ChatStore(x5.topic) /\ x5' = Stores!Nothing /\ UNCHANGED <<x3, x8>>
    BY <1>6 DEF Stores!Replaced
  <2>2. x5.topic \in Topics
    BY <1>0, <2>1, PlaceIs
  <2>. QED BY <1>1, <2>1, <2>2
<1>. QED BY <1>2, <1>3, <1>4, <1>5, <1>6 DEF Stores!Next

LEMMA StoresStay == StoresInv => Stores!StoresKept
<1> SUFFICES ASSUME StoresInv PROVE Stores!StoresKept
  OBVIOUS
<1>1. x2 \in Seq(Topics)
  BY StoresTypes
<1>2. Stores!ToSet(x2) = Has(x2)
  BY <1>1 DEF Stores!ToSet, Has
<1>. QED BY <1>2 DEF StoresInv, Stores!StoresKept

-----------------------------------------------------------------------------
(* A turn: what is grouped *)

AnyBlock == [kind : {"thinking", "text", "toolCall", "toolResult"}, of : 1..MaxMessage,
             n : 1..(MaxBlock + MaxCall), grown : {"part", "full", "silent"}]
Entry == [role : {"user", "assistant", "toolResult"}, content : Seq(AnyBlock), stop : {"", "stop", "toolUse"}]
Task == [steps : Seq(AnyBlock), result : Seq(AnyBlock)]
Grown(task, e) ==
    CASE e.role = "user" -> Turn!NewTask
      [] e.role = "assistant" -> Turn!ProcessAssistant(task, e)
      [] e.role = "toolResult" -> Turn!ProcessToolResult(task, e)

LEMMA NewTaskIs == Turn!NewTask \in Task /\ Turn!NewTask.steps = <<>> /\ Turn!NewTask.result = <<>>
<1>1. <<>> \in Seq(AnyBlock)
  OBVIOUS
<1>. QED BY <1>1 DEF Turn!NewTask, Task

LEMMA HushedIs ==
  ASSUME NEW s \in Seq(AnyBlock), NEW r \in Seq(AnyBlock)
  PROVE  /\ Turn!Hushed([steps |-> s, result |-> r]) \in Task
         /\ Turn!Hushed([steps |-> s, result |-> r]).steps = s
         /\ Turn!Hushed([steps |-> s, result |-> r]).result =
              IF Len(r) = 1 /\ r[1].grown = "silent" THEN <<>> ELSE r
<1> DEFINE t == [steps |-> s, result |-> r]
<1>1. t \in Task /\ t.steps = s /\ t.result = r /\ <<>> \in Seq(AnyBlock)
  BY DEF Task
<1>2. [t EXCEPT !.result = <<>>] \in Task /\ [t EXCEPT !.result = <<>>].steps = s /\ [t EXCEPT !.result = <<>>].result = <<>>
  <2>1. [t EXCEPT !.result = <<>>] = [steps |-> s, result |-> <<>>]
    OBVIOUS
  <2>2. <<>> \in Seq(AnyBlock)
    OBVIOUS
  <2> HIDE DEF t
  <2>. QED BY <2>1, <2>2 DEF Task
<1> HIDE DEF t
<1>3. Turn!Hushed(t) = IF Len(r) = 1 /\ r[1].grown = "silent" THEN [t EXCEPT !.result = <<>>] ELSE t
  BY <1>1, Zenon DEF Turn!Hushed
<1>. QED BY <1>1, <1>2, <1>3 DEF t

\* What a message adds to the steps, and to the result if it is the last one.
Said(r) == IF Len(r) = 1 /\ r[1].grown = "silent" THEN <<>> ELSE r
Texts == {b \in AnyBlock : b.kind = "text"}
LEMMA ProcessIs ==
  ASSUME NEW task \in Task, NEW e \in Entry
  PROVE  LET final == e.stop \notin {"", "toolUse"}
             S == {b \in Has(e.content) : final /\ b.kind = "text"}
             done == Turn!ProcessAssistant(task, e)
         IN  /\ done \in Task
             /\ done.steps = task.steps \o Only(e.content, Has(e.content) \ S)
             /\ done.result = Said(task.result \o Only(e.content, S))
<1> DEFINE S == {b \in Has(e.content) : e.stop \notin {"", "toolUse"} /\ b.kind = "text"}
           s == task.steps \o Only(e.content, Has(e.content) \ S)
           r == task.result \o Only(e.content, S)
<1>1. e.content \in Seq(AnyBlock) /\ task.steps \in Seq(AnyBlock) /\ task.result \in Seq(AnyBlock)
  BY DEF Task, Entry
<1>2. Turn!ToSet(e.content) = Has(e.content)
  BY <1>1 DEF Turn!ToSet, Has
<1>3. Turn!ProcessAssistant(task, e) = Turn!Hushed([steps |-> s, result |-> r])
  BY <1>2, TurnOnly, Zenon DEF Turn!ProcessAssistant, Turn!Final
<1>4. s \in Seq(AnyBlock) /\ r \in Seq(AnyBlock)
  <2>1. Only(e.content, Has(e.content) \ S) \in Seq(AnyBlock) /\ Only(e.content, S) \in Seq(AnyBlock)
    BY <1>1, OnlyFits
  <2>2. \A u, v \in Seq(AnyBlock) : u \o v \in Seq(AnyBlock)
    OBVIOUS
  <2> HIDE DEF S
  <2>. QED BY <1>1, <2>1, <2>2, Zenon
<1> HIDE DEF s, r
<1>5. /\ Turn!ProcessAssistant(task, e) \in Task
      /\ Turn!ProcessAssistant(task, e).steps = s
      /\ Turn!ProcessAssistant(task, e).result = Said(r)
  <2>1. /\ Turn!Hushed([steps |-> s, result |-> r]) \in Task
        /\ Turn!Hushed([steps |-> s, result |-> r]).steps = s
        /\ Turn!Hushed([steps |-> s, result |-> r]).result =
              IF Len(r) = 1 /\ r[1].grown = "silent" THEN <<>> ELSE r
    BY <1>4, HushedIs
  <2>. QED BY <1>3, <2>1, Zenon DEF Said
<1>. QED BY <1>5, Zenon DEF s, r

LEMMA GrownFits == ASSUME NEW task \in Task, NEW e \in Entry PROVE Grown(task, e) \in Task
<1>1. CASE e.role = "user"
  BY <1>1, NewTaskIs DEF Grown
<1>2. CASE e.role = "assistant"
  BY <1>2, ProcessIs DEF Grown
<1>3. CASE e.role = "toolResult"
  <2>1. e.content \in Seq(AnyBlock) /\ task.steps \in Seq(AnyBlock)
    BY DEF Entry, Task
  <2>2. task.steps \o e.content \in Seq(AnyBlock)
    BY <2>1
  <2>. QED BY <1>3, <2>2 DEF Grown, Turn!ProcessToolResult, Task
<1>. QED BY <1>1, <1>2, <1>3 DEF Entry

Grouped(h, q) ==
    /\ h[0] = Turn!NewTask /\ h[Len(q)] = Turn!Group(q)
    /\ \A i \in 1..Len(q) : h[i] = Grown(h[i - 1], q[i])
LEMMA GroupSteps ==
  ASSUME NEW q \in Seq(Entry)
  PROVE  \E h \in [0..Len(q) -> Task] : Grouped(h, q)
<1> DEFINE n == Len(q)
           g == [z \in (1..n) \X Task |-> Grown(z[2], q[z[1]])]
           Is(h) == h = [s \in SUBSET (DOMAIN q) |->
                           IF s = {} THEN Turn!NewTask ELSE Grown(h[s \ {Max(s)}], q[Max(s)])]
           h == CHOOSE iter : Is(iter)
<1>1. n \in Nat /\ g \in [(1..n) \X Task -> Task] /\ Turn!NewTask \in Task
  <2>1. \A i \in 1..n, t \in Task : Grown(t, q[i]) \in Task
    BY GrownFits
  <2>. QED BY <2>1, NewTaskIs
<1>2. Turn!Group(q) = h[DOMAIN q]
  BY Zenon DEF Turn!Group, Grown, Turn!FoldLeft, Turn!MapThenFoldSet, Turn!Max, Max
<1>3. PICK f \in [SUBSET (1..n) -> Task] : Folds(f, Turn!NewTask, g, n)
  BY <1>1, FoldExists
<1>4. Is(f)
  <2>1. DOMAIN q = 1..n
    OBVIOUS
  <2>2. ASSUME NEW s \in SUBSET (1..n), s # {}
        PROVE  g[<<Max(s), f[s \ {Max(s)}]>>] = Grown(f[s \ {Max(s)}], q[Max(s)])
    <3>1. Max(s) \in 1..n
      <4>1. Max(s) \in s
        BY <1>1, <2>2, MaxIn
      <4>. QED BY <4>1
    <3> DEFINE m == Max(s)
    <3> HIDE DEF m
    <3>2. m \in 1..n /\ f[s \ {m}] \in Task
      BY <3>1 DEF m
    <3>3. g[<<m, f[s \ {m}]>>] = Grown(f[s \ {m}], q[m])
      BY <3>2
    <3>. QED BY <3>3 DEF m
  <2> HIDE DEF g
  <2>. QED BY <1>3, <2>1, <2>2 DEF Folds
<1>5. Is(h)
  <2> HIDE DEF Is
  <2>. QED BY <1>4, Zenon
<1>6. h[1..0] = Turn!NewTask
  <2>1. 1..0 = {} /\ 1..0 \in SUBSET (DOMAIN q)
    OBVIOUS
  <2>. QED BY <1>5, <2>1
<1>7. ASSUME NEW i \in 1..n PROVE h[1..i] = Grown(h[1..i - 1], q[i])
  <2>1. i \in Nat /\ i \in 1..i /\ 1..i \in SUBSET (DOMAIN q) /\ (1..i) \ {i} = 1..i - 1
    OBVIOUS
  <2>2. Max(1..i) = i
    BY <2>1, TopOf
  <2>. QED BY <1>5, <2>1, <2>2
<1> HIDE DEF h
<1>8. \A i \in Nat : i <= n => h[1..i] \in Task
  <2> DEFINE N == {i \in Nat : i <= n => h[1..i] \in Task}
  <2>1. 0 \in N
    BY <1>1, <1>6
  <2>2. ASSUME NEW i \in Nat, i \in N PROVE i + 1 \in N
    <3> SUFFICES ASSUME i + 1 <= n PROVE h[1..i + 1] \in Task
      OBVIOUS
    <3>1. h[1..i] \in Task /\ i + 1 \in 1..n /\ i + 1 - 1 = i
      BY <2>2
    <3> DEFINE j == i + 1
    <3>2. j \in 1..n /\ j - 1 = i
      BY <3>1
    <3> HIDE DEF j
    <3>3. h[1..j] = Grown(h[1..i], q[j])
      BY <1>7, <3>2
    <3>4. q[j] \in Entry
      BY <3>2
    <3>5. h[1..j] \in Task
      BY <3>1, <3>3, <3>4, GrownFits
    <3>. QED BY <3>5 DEF j
  <2>3. \A i \in Nat : i \in N
    <3> HIDE DEF N
    <3>. QED BY <2>1, <2>2, AllNumbers
  <2>. QED BY <2>3
<1> DEFINE k == [i \in 0..n |-> h[1..i]]
<1>9. k \in [0..n -> Task] /\ k[0] = Turn!NewTask /\ k[n] = Turn!Group(q)
  <2>1. DOMAIN q = 1..n /\ 0 \in 0..n /\ n \in 0..n /\ \A i \in 0..n : i \in Nat /\ i <= n
    BY <1>1
  <2>2. k[0] = h[1..0] /\ k[n] = h[1..n]
    BY <2>1
  <2>. QED BY <1>2, <1>6, <1>8, <2>1, <2>2
<1>10. \A i \in 1..n : k[i] = Grown(k[i - 1], q[i])
  <2>1. \A i \in 1..n : k[i] = h[1..i] /\ k[i - 1] = h[1..i - 1]
    BY <1>1
  <2> HIDE DEF k
  <2>. QED BY <1>7, <2>1
<1> HIDE DEF k
<1>. QED BY <1>9, <1>10 DEF Grouped

LEMMA GroupNone == Turn!Group(<<>>) = Turn!NewTask
<1>1. <<>> \in Seq(Entry) /\ Len(<<>>) = 0
  OBVIOUS
<1>2. PICK h \in [0..Len(<<>>) -> Task] : Grouped(h, <<>>)
  BY <1>1, GroupSteps, Zenon
<1>. QED BY <1>1, <1>2 DEF Grouped

LEMMA GroupMore ==
  ASSUME NEW q \in Seq(Entry), NEW e \in Entry
  PROVE  Turn!Group(q) \in Task /\ Turn!Group(Append(q, e)) = Grown(Turn!Group(q), e)
<1> DEFINE r == Append(q, e)
           n == Len(q)
<1>1. n \in Nat /\ r \in Seq(Entry) /\ Len(r) = n + 1 /\ r[n + 1] = e /\ \A i \in 1..n : r[i] = q[i]
  OBVIOUS
<1> HIDE DEF r
<1>2. PICK h \in [0..n -> Task] : Grouped(h, q)
  BY GroupSteps
<1>3. PICK k \in [0..n + 1 -> Task] : Grouped(k, r)
  <2>1. \E k \in [0..Len(r) -> Task] : Grouped(k, r)
    BY <1>1, GroupSteps, Zenon
  <2>. QED BY <1>1, <2>1
<1> DEFINE N == {i \in Nat : i <= n => h[i] = k[i]}
<1>4. 0 \in N
  BY <1>2, <1>3 DEF Grouped
<1>5. ASSUME NEW i \in Nat, i \in N PROVE i + 1 \in N
  <2> SUFFICES ASSUME i + 1 <= n PROVE h[i + 1] = k[i + 1]
    OBVIOUS
  <2> DEFINE j == i + 1
  <2>1. j \in 1..n /\ j \in 1..n + 1 /\ j - 1 = i /\ h[i] = k[i]
    BY <1>1, <1>5
  <2> HIDE DEF j, N
  <2>2. h[j] = k[j]
    BY <1>1, <1>2, <1>3, <2>1 DEF Grouped
  <2>. QED BY <2>2 DEF j
<1>6. n \in N
  <2> HIDE DEF N, n
  <2>. QED BY <1>1, <1>4, <1>5, AllNumbers
<1>7. h[n] = k[n]
  BY <1>1, <1>6
<1> DEFINE m == n + 1
<1>8. m \in 1..n + 1 /\ m - 1 = n /\ r[m] = e
  BY <1>1
<1> HIDE DEF m, n, N
<1>9. k[m] = Grown(k[m - 1], r[m])
  BY <1>1, <1>3, <1>8 DEF m, n, Grouped
<1>10. k[m] = Turn!Group(r) /\ h[n] = Turn!Group(q) /\ h[n] \in Task
  BY <1>1, <1>2, <1>3 DEF m, n, Grouped
<1>. QED BY <1>7, <1>8, <1>9, <1>10 DEF r

-----------------------------------------------------------------------------
(* A turn: what a message is and what is shown of it *)

Plain == {b \in AnyBlock : b.kind # "toolResult"}
Thought(b, n, i) == b \in AnyBlock /\ b.kind = "thinking" /\ b.of = n /\ b.n = i /\ b.grown # "silent"
Text(b, n, i) == b \in AnyBlock /\ b.kind = "text" /\ b.of = n /\ b.n = i
Aloud(x) == IF x.grown = "silent" THEN <<>> ELSE <<x>>

\* There are at most a thought, a text and a thought.  A silent text is not shown,
\* and the thought after it takes the place of the one before.
JustThought(m, c, s, n, t) == Thought(t, n, 1) /\ m = <<t>> /\ c = <<t>> /\ s = ""
JustText(m, c, s, n, x) ==
    /\ Text(x, n, 1) /\ m = <<x>> /\ s = "stop"
    /\ c = IF x.grown = "silent" THEN <<>> ELSE <<x>>
ThoughtText(m, c, s, n, t, x) ==
    /\ Thought(t, n, 1) /\ Text(x, n, 2) /\ m = <<t, x>> /\ s = "stop"
    /\ c = IF x.grown = "silent" THEN <<t>> ELSE <<t, x>>
TextThought(m, c, s, n, x, t) ==
    /\ Text(x, n, 1) /\ Thought(t, n, 2) /\ m = <<x, t>> /\ s = "stop"
    /\ c = IF x.grown = "silent" THEN <<t>> ELSE <<x, t>>
AllThree(m, c, s, n, u, x, t) ==
    /\ Thought(u, n, 1) /\ Text(x, n, 2) /\ Thought(t, n, 3) /\ m = <<u, x, t>> /\ s = "stop"
    /\ c = IF x.grown = "silent" THEN <<t>> ELSE <<u, x, t>>
Spoken(m, c, s, n) ==
    \/ m = <<>> /\ c = <<>> /\ s = ""
    \/ \E t \in AnyBlock : JustThought(m, c, s, n, t)
    \/ \E x \in AnyBlock : JustText(m, c, s, n, x)
    \/ \E t, x \in AnyBlock : ThoughtText(m, c, s, n, t, x)
    \/ \E x, t \in AnyBlock : TextThought(m, c, s, n, x, t)
    \/ \E u, x, t \in AnyBlock : AllThree(m, c, s, n, u, x, t)

LEMMA FrontLast ==
  ASSUME NEW T, NEW q \in Seq(T), NEW e \in T
  PROVE  Front(Append(q, e)) = q /\ Last(Append(q, e)) = e /\ Append(q, e) # <<>> /\ Len(Append(q, e)) = Len(q) + 1
<1>1. Len(Append(q, e)) = Len(q) + 1 /\ Append(q, e)[Len(q) + 1] = e /\ Len(q) \in Nat
  OBVIOUS
<1>2. Front(Append(q, e)) = q
  <2>1. SubSeq(Append(q, e), 1, Len(q)) = q
    OBVIOUS
  <2>2. Len(Append(q, e)) - 1 = Len(q)
    BY <1>1
  <2>. QED BY <2>1, <2>2, Zenon DEF Front
<1>3. Last(Append(q, e)) = e
  BY <1>1, Zenon DEF Last
<1>. QED BY <1>1, <1>2, <1>3

LEMMA Tuples ==
  ASSUME NEW T, NEW a \in T, NEW b \in T, NEW c \in T
  PROVE  /\ <<>> \in Seq(T) /\ <<a>> \in Seq(T) /\ <<a, b>> \in Seq(T) /\ <<a, b, c>> \in Seq(T)
         /\ <<a>> = Append(<<>>, a) /\ <<a, b>> = Append(<<a>>, b) /\ <<a, b, c>> = Append(<<a, b>>, c)
         /\ <<a>> # <<>> /\ <<a, b>> # <<>> /\ <<a, b, c>> # <<>>
         /\ Len(<<>>) = 0 /\ Len(<<a>>) = 1 /\ Len(<<a, b>>) = 2 /\ Len(<<a, b, c>>) = 3
         /\ <<>> \o <<a>> = <<a>> /\ <<a>> \o <<b>> = <<a, b>> /\ <<a>> \o <<>> = <<a>> /\ <<a, b>> \o <<c>> = <<a, b, c>>
         /\ Has(<<>>) = {} /\ Has(<<a>>) = {a} /\ Has(<<a, b>>) = {a, b} /\ Has(<<a, b, c>>) = {a, b, c}
<1>0. \A q \in Seq(T) : \A e \in T : Has(Append(q, e)) = Has(q) \cup {e}
  BY HasMore
<1>1. <<>> \in Seq(T) /\ <<a>> \in Seq(T) /\ <<a, b>> \in Seq(T) /\ <<a, b, c>> \in Seq(T)
  OBVIOUS
<1>2. Len(<<>>) = 0 /\ Len(<<a>>) = 1 /\ Len(<<a, b>>) = 2 /\ Len(<<a, b, c>>) = 3
  OBVIOUS
<1>3. <<a>> = Append(<<>>, a)
  OBVIOUS
<1>4. <<a, b>> = Append(<<a>>, b)
  OBVIOUS
<1>5. <<a, b, c>> = Append(<<a, b>>, c)
  OBVIOUS
<1>6. <<>> \o <<a>> = <<a>> /\ <<a>> \o <<>> = <<a>>
  BY <1>1
<1>7. <<a>> \o <<b>> = <<a, b>>
  <2>1. <<a>> \o Append(<<>>, b) = Append(<<a>> \o <<>>, b)
    BY <1>1, BothMore
  <2>2. <<b>> = Append(<<>>, b)
    OBVIOUS
  <2>. QED BY <1>4, <1>6, <2>1, <2>2
<1>8. <<a, b>> \o <<c>> = <<a, b, c>>
  <2>1. <<a, b>> \o Append(<<>>, c) = Append(<<a, b>> \o <<>>, c)
    BY <1>1, BothMore
  <2>2. <<c>> = Append(<<>>, c)
    OBVIOUS
  <2>3. <<a, b>> \o <<>> = <<a, b>>
    BY <1>1, BothMore
  <2>. QED BY <1>5, <2>1, <2>2, <2>3
<1>9. <<a>> # <<>> /\ <<a, b>> # <<>> /\ <<a, b, c>> # <<>>
  BY <1>2
<1>10. Has(<<>>) = {}
  BY <1>2 DEF Has
<1>11. Has(<<a>>) = {a}
  <2>1. Has(Append(<<>>, a)) = Has(<<>>) \cup {a}
    BY <1>0, <1>1, Zenon
  <2>. QED BY <1>3, <1>10, <2>1
<1>12. Has(<<a, b>>) = {a, b}
  <2>1. Has(Append(<<a>>, b)) = Has(<<a>>) \cup {b}
    BY <1>0, <1>1, Zenon
  <2>. QED BY <1>4, <1>11, <2>1
<1>13. Has(<<a, b, c>>) = {a, b, c}
  <2>1. Has(Append(<<a, b>>, c)) = Has(<<a, b>>) \cup {c}
    BY <1>0, <1>1, Zenon
  <2>. QED BY <1>5, <1>12, <2>1
<1>. QED BY <1>1, <1>2, <1>3, <1>4, <1>5, <1>6, <1>7, <1>8, <1>9, <1>10, <1>11, <1>12, <1>13, Zenon
LEMMA AloudIs ==
  ASSUME NEW x \in AnyBlock
  PROVE  /\ Aloud(x) \in Seq(AnyBlock) /\ Has(Aloud(x)) \subseteq {x}
         /\ x.grown = "silent" => Aloud(x) = <<>>
         /\ x.grown # "silent" => Aloud(x) = <<x>>
  BY Tuples DEF Aloud

LEMMA Joined == \A a, b \in AnyBlock : <<a>> \o <<b>> = <<a, b>>
<1> SUFFICES ASSUME NEW a \in AnyBlock, NEW b \in AnyBlock PROVE <<a>> \o <<b>> = <<a, b>>
  OBVIOUS
<1>1. /\ <<>> \in Seq(AnyBlock) /\ <<a>> \in Seq(AnyBlock) /\ <<b>> = Append(<<>>, b)
      /\ <<a, b>> = Append(<<a>>, b) /\ <<a>> \o <<>> = <<a>>
  BY Tuples
<1>2. <<a>> \o Append(<<>>, b) = Append(<<a>> \o <<>>, b)
  BY <1>1, BothMore
<1>. QED BY <1>1, <1>2
\* What is shown of it, case by case.
LEMMA Cases ==
  ASSUME NEW x \in AnyBlock, NEW t \in AnyBlock
  PROVE  /\ x.grown = "silent" => <<t>> \o Aloud(x) = <<t>> /\ Aloud(x) \o <<t>> = <<t>>
         /\ x.grown # "silent" => <<t>> \o Aloud(x) = <<t, x>> /\ Aloud(x) \o <<t>> = <<x, t>>
<1>1. CASE x.grown = "silent"
  BY <1>1, AloudIs, Tuples
<1>2. CASE x.grown # "silent"
  <2>1. Aloud(x) = <<x>>
    BY <1>2, AloudIs
  <2>3. <<t>> \o <<x>> = <<t, x>> /\ <<x>> \o <<t>> = <<x, t>>
    BY Joined, Zenon
  <2>. QED BY <1>2, <2>1, <2>3
<1>. QED BY <1>1, <1>2

OfMessage(n) == {b \in AnyBlock : b.of = n /\ b.kind \in {"thinking", "text"}}
\* Sequences of at most three of them.
LEMMA Few ==
  ASSUME NEW n, NEW a \in OfMessage(n), NEW b \in OfMessage(n), NEW c \in OfMessage(n)
  PROVE  /\ <<>> \in Seq(OfMessage(n)) /\ <<a>> \in Seq(OfMessage(n)) /\ <<a, b>> \in Seq(OfMessage(n))
         /\ <<a, b, c>> \in Seq(OfMessage(n))
  OBVIOUS
LEMMA FewIs ==
  ASSUME NEW n, NEW q \in Seq(OfMessage(n))
  PROVE  q \in Seq(AnyBlock) /\ Has(q) \subseteq OfMessage(n)
<1>1. OfMessage(n) \subseteq AnyBlock
  BY DEF OfMessage
<1>2. q \in Seq(AnyBlock)
  BY <1>1
<1>3. Has(q) \subseteq OfMessage(n)
  BY DEF Has
<1>. QED BY <1>2, <1>3
LEMMA SpokenIs ==
  ASSUME NEW m, NEW c, NEW s, NEW n, Spoken(m, c, s, n)
  PROVE  /\ m \in Seq(AnyBlock) /\ c \in Seq(AnyBlock) /\ s \in {"", "stop"}
         /\ Has(m) \subseteq OfMessage(n) /\ Has(c) \subseteq OfMessage(n)
<1> DEFINE G == m \in Seq(OfMessage(n)) /\ c \in Seq(OfMessage(n)) /\ s \in {"", "stop"}
           O == OfMessage(n)
<1>0. \A b \in AnyBlock, i \in {1, 2, 3} : Thought(b, n, i) \/ Text(b, n, i) => b \in O
  BY DEF Thought, Text, OfMessage
<1>f. \A a, b, d \in O : <<>> \in Seq(O) /\ <<a>> \in Seq(O) /\ <<a, b>> \in Seq(O) /\ <<a, b, d>> \in Seq(O)
  BY Few
<1>1. m = <<>> /\ c = <<>> /\ s = "" => G
  <2>1. <<>> \in Seq(O)
    OBVIOUS
  <2> HIDE DEF O
  <2>. QED BY <2>1 DEF O
<1> HIDE DEF O
<1>2. ASSUME NEW t \in AnyBlock, JustThought(m, c, s, n, t) PROVE G
  BY <1>0, <1>2, <1>f DEF O, JustThought
<1>3. ASSUME NEW x \in AnyBlock, JustText(m, c, s, n, x) PROVE G
  BY <1>0, <1>3, <1>f DEF O, JustText
<1>4. ASSUME NEW t \in AnyBlock, NEW x \in AnyBlock, ThoughtText(m, c, s, n, t, x) PROVE G
  BY <1>0, <1>4, <1>f DEF O, ThoughtText
<1>5. ASSUME NEW x \in AnyBlock, NEW t \in AnyBlock, TextThought(m, c, s, n, x, t) PROVE G
  BY <1>0, <1>5, <1>f DEF O, TextThought
<1>6. ASSUME NEW u \in AnyBlock, NEW x \in AnyBlock, NEW t \in AnyBlock, AllThree(m, c, s, n, u, x, t) PROVE G
  BY <1>0, <1>6, <1>f DEF O, AllThree
<1> HIDE DEF G
<1>7. G
  BY <1>1, <1>2, <1>3, <1>4, <1>5, <1>6, Zenon DEF Spoken
<1>. QED BY <1>7, FewIs DEF G

LEMMA Ends ==
  ASSUME NEW T, NEW a \in T, NEW b \in T, NEW c \in T
  PROVE  /\ Last(<<a>>) = a /\ Last(<<a, b>>) = b /\ Last(<<a, b, c>>) = c
         /\ Front(<<a>>) = <<>> /\ Front(<<a, b>>) = <<a>> /\ Front(<<a, b, c>>) = <<a, b>>
<1>1. \A q \in Seq(T), e \in T : Front(Append(q, e)) = q /\ Last(Append(q, e)) = e
  BY FrontLast
<1>2. /\ <<>> \in Seq(T) /\ <<a>> \in Seq(T) /\ <<a, b>> \in Seq(T)
      /\ <<a>> = Append(<<>>, a) /\ <<a, b>> = Append(<<a>>, b) /\ <<a, b, c>> = Append(<<a, b>>, c)
  BY Tuples
<1>3. /\ Front(Append(<<>>, a)) = <<>> /\ Last(Append(<<>>, a)) = a
      /\ Front(Append(<<a>>, b)) = <<a>> /\ Last(Append(<<a>>, b)) = b
      /\ Front(Append(<<a, b>>, c)) = <<a, b>> /\ Last(Append(<<a, b>>, c)) = c
  BY <1>1, <1>2, Zenon
<1>. QED BY <1>2, <1>3

LEMMA ToSetIs == ASSUME NEW q PROVE Turn!ToSet(q) = {q[i] : i \in DOMAIN q}
  BY DEF Turn!ToSet
LEMMA HasIs == ASSUME NEW T, NEW q \in Seq(T) PROVE Turn!ToSet(q) = Has(q)
  BY DEF Turn!ToSet, Has
LEMMA NonTextIs ==
  ASSUME NEW q \in Seq(AnyBlock)
  PROVE  Turn!NonText(q) = Only(q, AnyBlock \ Texts)
<1>0. q \in Seq(AnyBlock) /\ Has(q) \subseteq AnyBlock
  BY DEF Has
<1> DEFINE S == {b \in Has(q) : b.kind # "text"}
           R == AnyBlock \ Texts
<1>1. Turn!NonText(q) = Only(q, S)
  BY HasIs, TurnOnly DEF Turn!NonText
<1>2. \A x \in Has(q) : x \in S <=> x \in R
  BY <1>0 DEF Texts
<1> HIDE DEF S, R
<1>3. Only(q, S) = Only(q, R)
  BY <1>2, OnlySame
<1>. QED BY <1>1, <1>3 DEF R

\* What the entry gets: a thought that grows, or the text as it is.
Heeds(c, b) == IF c # <<>> /\ Last(c).kind = "thinking" THEN Append(Front(c), b) ELSE Append(c, b)
Says(c, b) == Turn!NonText(c) \o Aloud(b)


LEMMA Longer ==
  /\ \A a \in AnyBlock : Append(<<>>, a) = <<a>> /\ Len(<<a>>) = 1 /\ <<a>> # <<>> /\ Last(<<a>>) = a /\ Front(<<a>>) = <<>>
  /\ \A a, b \in AnyBlock : /\ Append(<<a>>, b) = <<a, b>> /\ Len(<<a, b>>) = 2 /\ <<a, b>> # <<>>
                             /\ Last(<<a, b>>) = b /\ Front(<<a, b>>) = <<a>>
  /\ \A a, b, c \in AnyBlock : /\ Append(<<a, b>>, c) = <<a, b, c>> /\ Len(<<a, b, c>>) = 3 /\ <<a, b, c>> # <<>>
                                /\ Last(<<a, b, c>>) = c /\ Front(<<a, b, c>>) = <<a, b>>
<1> DEFINE T == AnyBlock
<1> HIDE DEF T
<1>1. \A a \in T : Append(<<>>, a) = <<a>> /\ Len(<<a>>) = 1 /\ <<a>> # <<>> /\ Last(<<a>>) = a /\ Front(<<a>>) = <<>>
  <2> SUFFICES ASSUME NEW a \in T
               PROVE  Append(<<>>, a) = <<a>> /\ Len(<<a>>) = 1 /\ <<a>> # <<>> /\ Last(<<a>>) = a /\ Front(<<a>>) = <<>>
    BY Zenon
  <2>1. <<a>> = Append(<<>>, a) /\ Len(<<a>>) = 1 /\ <<a>> # <<>>
    BY Tuples
  <2>2. Last(<<a>>) = a /\ Last(<<a, a>>) = a /\ Last(<<a, a, a>>) = a /\ Front(<<a>>) = <<>>
        /\ Front(<<a, a>>) = <<a>> /\ Front(<<a, a, a>>) = <<a, a>>
    BY Ends
  <2>. QED BY <2>1, <2>2, Zenon
<1>2. \A a, b \in T : /\ Append(<<a>>, b) = <<a, b>> /\ Len(<<a, b>>) = 2 /\ <<a, b>> # <<>>
                       /\ Last(<<a, b>>) = b /\ Front(<<a, b>>) = <<a>>
  <2> SUFFICES ASSUME NEW a \in T, NEW b \in T
               PROVE  /\ Append(<<a>>, b) = <<a, b>> /\ Len(<<a, b>>) = 2 /\ <<a, b>> # <<>>
                      /\ Last(<<a, b>>) = b /\ Front(<<a, b>>) = <<a>>
    BY Zenon
  <2>1. <<a, b>> = Append(<<a>>, b) /\ Len(<<a, b>>) = 2 /\ <<a, b>> # <<>>
    BY Tuples
  <2>2. Last(<<a>>) = a /\ Last(<<a, b>>) = b /\ Last(<<a, b, a>>) = a /\ Front(<<a>>) = <<>>
        /\ Front(<<a, b>>) = <<a>> /\ Front(<<a, b, a>>) = <<a, b>>
    BY Ends
  <2>. QED BY <2>1, <2>2, Zenon
<1>3. \A a, b, c \in T : /\ Append(<<a, b>>, c) = <<a, b, c>> /\ Len(<<a, b, c>>) = 3 /\ <<a, b, c>> # <<>>
                          /\ Last(<<a, b, c>>) = c /\ Front(<<a, b, c>>) = <<a, b>>
  <2> SUFFICES ASSUME NEW a \in T, NEW b \in T, NEW c \in T
               PROVE  /\ Append(<<a, b>>, c) = <<a, b, c>> /\ Len(<<a, b, c>>) = 3 /\ <<a, b, c>> # <<>>
                      /\ Last(<<a, b, c>>) = c /\ Front(<<a, b, c>>) = <<a, b>>
    BY Zenon
  <2>1. <<a, b, c>> = Append(<<a, b>>, c) /\ Len(<<a, b, c>>) = 3 /\ <<a, b, c>> # <<>>
    BY Tuples
  <2>2. Last(<<a>>) = a /\ Last(<<a, b>>) = b /\ Last(<<a, b, c>>) = c /\ Front(<<a>>) = <<>>
        /\ Front(<<a, b>>) = <<a>> /\ Front(<<a, b, c>>) = <<a, b>>
    BY Ends
  <2>. QED BY <2>1, <2>2, Zenon
<1>. QED BY <1>1, <1>2, <1>3, Zenon DEF T

LEMMA ThoughtBegins ==
  ASSUME NEW m, NEW c, NEW s, NEW n, NEW b \in AnyBlock, Spoken(m, c, s, n), Thought(b, n, Len(m) + 1),
         m # <<>> => Last(m).kind # "thinking"
  PROVE  Spoken(Append(m, b), Heeds(c, b), s, n)
<1> DEFINE G == Spoken(Append(m, b), Heeds(c, b), s, n)
<1>t. \A t \in AnyBlock, i \in {1, 2, 3} : Thought(t, n, i) => t.kind = "thinking" /\ t.grown # "silent"
  BY DEF Thought
<1>x. \A x \in AnyBlock, i \in {1, 2, 3} : Text(x, n, i) => x.kind = "text"
  BY DEF Text
<1>1. ASSUME m = <<>> /\ c = <<>> /\ s = "" PROVE G
  <2>0. Append(m, b) = <<b>> /\ Append(c, b) = <<b>> /\ Len(m) = 0
    BY <1>1, Longer
  <2>1. Append(m, b) = <<b>> /\ Heeds(c, b) = <<b>> /\ Len(m) = 0
    BY <1>1, <2>0 DEF Heeds
  <2>2. Thought(b, n, 1)
    BY <2>1 DEF Thought
  <2>3. JustThought(Append(m, b), Heeds(c, b), s, n, b)
    BY <1>1, <2>1, <2>2 DEF JustThought
  <2>. QED BY <2>3 DEF Spoken
<1>2. ASSUME NEW t \in AnyBlock, JustThought(m, c, s, n, t) PROVE G
  <2>1. Last(m) = t /\ m # <<>> /\ t.kind = "thinking"
    BY <1>2, <1>t, Longer DEF JustThought
  <2>. QED BY <2>1
<1>3. ASSUME NEW x \in AnyBlock, JustText(m, c, s, n, x) PROVE G
  <2>1. Append(m, b) = <<x, b>> /\ Len(m) = 1
    BY <1>3, Longer DEF JustText
  <2>2. CASE x.grown = "silent"
    <3>1. Heeds(c, b) = <<b>>
      BY <1>3, <2>2 DEF JustText, Heeds
    <3>2. TextThought(Append(m, b), Heeds(c, b), s, n, x, b)
      BY <1>3, <2>1, <2>2, <3>1 DEF TextThought, JustText
    <3>. QED BY <3>2 DEF Spoken
  <2>3. CASE x.grown # "silent"
    <3>1. Last(c) = x /\ x.kind = "text" /\ c = <<x>>
      BY <1>3, <1>x, <2>3, Longer DEF JustText
    <3>2. Heeds(c, b) = <<x, b>>
      BY <1>3, <3>1, <2>1 DEF JustText, Heeds
    <3>3. TextThought(Append(m, b), Heeds(c, b), s, n, x, b)
      BY <1>3, <2>1, <2>3, <3>2 DEF TextThought, JustText
    <3>. QED BY <3>3 DEF Spoken
  <2>. QED BY <2>2, <2>3
<1>4. ASSUME NEW t \in AnyBlock, NEW x \in AnyBlock, ThoughtText(m, c, s, n, t, x) PROVE G
  <2>1. Append(m, b) = <<t, x, b>> /\ Len(m) = 2 /\ x.kind = "text" /\ t.kind = "thinking"
    BY <1>4, <1>t, <1>x, Longer DEF ThoughtText
  <2>2. CASE x.grown = "silent"
    <3>1. Last(c) = t /\ c = <<t>> /\ Front(c) = <<>> /\ c # <<>>
      BY <1>4, <2>2, Longer DEF ThoughtText
    <3>2. Heeds(c, b) = <<b>>
      BY <3>1, <2>1 DEF Heeds
    <3>3. AllThree(Append(m, b), Heeds(c, b), s, n, t, x, b)
      BY <1>4, <2>1, <2>2, <3>2 DEF AllThree, ThoughtText
    <3>. QED BY <3>3 DEF Spoken
  <2>3. CASE x.grown # "silent"
    <3>1. Last(c) = x /\ c = m
      BY <1>4, <2>3, Longer DEF ThoughtText
    <3>2. Heeds(c, b) = <<t, x, b>>
      BY <3>1, <2>1 DEF Heeds
    <3>3. AllThree(Append(m, b), Heeds(c, b), s, n, t, x, b)
      BY <1>4, <2>1, <2>3, <3>2 DEF AllThree, ThoughtText
    <3>. QED BY <3>3 DEF Spoken
  <2>. QED BY <2>2, <2>3
<1>5. ASSUME NEW x \in AnyBlock, NEW t \in AnyBlock, TextThought(m, c, s, n, x, t) PROVE G
  <2>1. Last(m) = t /\ m # <<>> /\ t.kind = "thinking"
    BY <1>5, <1>t, Longer DEF TextThought
  <2>. QED BY <2>1
<1>6. ASSUME NEW u \in AnyBlock, NEW x \in AnyBlock, NEW t \in AnyBlock, AllThree(m, c, s, n, u, x, t) PROVE G
  <2>1. Last(m) = t /\ m # <<>> /\ t.kind = "thinking"
    BY <1>6, <1>t, Longer DEF AllThree
  <2>. QED BY <2>1
<1> HIDE DEF G
<1>7. G
  BY <1>1, <1>2, <1>3, <1>4, <1>5, <1>6, Zenon DEF Spoken
<1>. QED BY <1>7 DEF G

LEMMA Picks ==
  ASSUME NEW S
  PROVE  /\ \A a \in AnyBlock : Only(<<a>>, S) = IF a \in S THEN <<a>> ELSE <<>>
         /\ \A a, b \in AnyBlock : Only(<<a, b>>, S) = IF b \in S THEN Append(Only(<<a>>, S), b) ELSE Only(<<a>>, S)
         /\ \A a, b, c \in AnyBlock :
              Only(<<a, b, c>>, S) = IF c \in S THEN Append(Only(<<a, b>>, S), c) ELSE Only(<<a, b>>, S)
<1> DEFINE T == AnyBlock
<1> HIDE DEF T
<1>1. ASSUME NEW a \in T, NEW b \in T, NEW c \in T
      PROVE  /\ Only(<<a>>, S) = IF a \in S THEN <<a>> ELSE <<>>
             /\ Only(<<a, b>>, S) = IF b \in S THEN Append(Only(<<a>>, S), b) ELSE Only(<<a>>, S)
             /\ Only(<<a, b, c>>, S) = IF c \in S THEN Append(Only(<<a, b>>, S), c) ELSE Only(<<a, b>>, S)
  <2>1. /\ <<>> \in Seq(T) /\ <<a>> \in Seq(T) /\ <<a, b>> \in Seq(T)
        /\ <<a>> = Append(<<>>, a) /\ <<a, b>> = Append(<<a>>, b) /\ <<a, b, c>> = Append(<<a, b>>, c)
    BY Tuples
  <2>2. Only(Append(<<>>, a), S) = IF a \in S THEN Append(Only(<<>>, S), a) ELSE Only(<<>>, S)
    BY <2>1, OnlyOneMore
  <2>3. Only(Append(<<a>>, b), S) = IF b \in S THEN Append(Only(<<a>>, S), b) ELSE Only(<<a>>, S)
    BY <2>1, OnlyOneMore
  <2>4. Only(Append(<<a, b>>, c), S) = IF c \in S THEN Append(Only(<<a, b>>, S), c) ELSE Only(<<a, b>>, S)
    BY <2>1, OnlyOneMore
  <2>. QED BY <2>1, <2>2, <2>3, <2>4, OnlyNone, Zenon
<1>. QED BY <1>1, Zenon DEF T
LEMMA HasTuples ==
  /\ \A a \in AnyBlock : Has(<<a>>) = {a}
  /\ \A a, b \in AnyBlock : Has(<<a, b>>) = {a, b}
  /\ \A a, b, c \in AnyBlock : Has(<<a, b, c>>) = {a, b, c}
<1> DEFINE T == AnyBlock
<1> HIDE DEF T
<1>1. ASSUME NEW a \in T, NEW b \in T, NEW c \in T
      PROVE  Has(<<a>>) = {a} /\ Has(<<a, b>>) = {a, b} /\ Has(<<a, b, c>>) = {a, b, c}
  <2>1. Has(<<a>>) = {a}
    BY Tuples
  <2>2. Has(<<a, b>>) = {a, b}
    BY Tuples
  <2>3. Has(<<a, b, c>>) = {a, b, c}
    <3>1. <<a, b>> \in Seq(T) /\ <<a, b, c>> = Append(<<a, b>>, c)
      BY Tuples
    <3>2. Has(Append(<<a, b>>, c)) = Has(<<a, b>>) \cup {c}
      <4>1. \A q \in Seq(T) : \A e \in T : Has(Append(q, e)) = Has(q) \cup {e}
        BY HasMore
      <4>. QED BY <3>1, <4>1, Zenon
    <3>. QED BY <2>2, <3>1, <3>2
  <2>. QED BY <2>1, <2>2, <2>3
<1>. QED BY <1>1, Zenon DEF T
LEMMA NonTexts ==
  /\ Turn!NonText(<<>>) = <<>>
  /\ \A t \in AnyBlock : t.kind # "text" => Turn!NonText(<<t>>) = <<t>>
  /\ \A x \in AnyBlock : x.kind = "text" => Turn!NonText(<<x>>) = <<>>
  /\ \A t, x \in AnyBlock : t.kind # "text" /\ x.kind = "text" => Turn!NonText(<<t, x>>) = <<t>>
<1> DEFINE S == AnyBlock \ Texts
<1>0. \A b \in AnyBlock : b \in S <=> b.kind # "text"
  BY DEF Texts
<1> HIDE DEF S
<1>s. \A q \in Seq(AnyBlock) : Turn!NonText(q) = Only(q, S)
  BY NonTextIs DEF S
<1>1. Turn!NonText(<<>>) = <<>>
  <2>1. <<>> \in Seq(AnyBlock)
    OBVIOUS
  <2>. QED BY <1>s, <2>1, OnlyNone
<1>2. ASSUME NEW t \in AnyBlock PROVE Turn!NonText(<<t>>) = IF t \in S THEN <<t>> ELSE <<>>
  <2>1. <<t>> \in Seq(AnyBlock)
    OBVIOUS
  <2>2. Only(<<t>>, S) = IF t \in S THEN <<t>> ELSE <<>>
    BY Picks
  <2>. QED BY <1>s, <2>1, <2>2
<1>3. ASSUME NEW t \in AnyBlock, NEW x \in AnyBlock, t \in S, x \notin S PROVE Turn!NonText(<<t, x>>) = <<t>>
  <2>1. <<t, x>> \in Seq(AnyBlock)
    OBVIOUS
  <2>2. Only(<<t, x>>, S) = IF x \in S THEN Append(Only(<<t>>, S), x) ELSE Only(<<t>>, S)
    BY Picks
  <2>3. Only(<<t>>, S) = IF t \in S THEN <<t>> ELSE <<>>
    BY Picks
  <2>. QED BY <1>s, <1>3, <2>1, <2>2, <2>3
<1>. QED BY <1>0, <1>1, <1>2, <1>3

LEMMA TextBegins ==
  ASSUME NEW m, NEW c, NEW s, NEW n, NEW b \in AnyBlock, Spoken(m, c, s, n), Text(b, n, Len(m) + 1),
         \A x \in Has(m) : x.kind # "text"
  PROVE  Spoken(Append(m, b), Says(c, b), "stop", n)
<1> DEFINE G == Spoken(Append(m, b), Says(c, b), "stop", n)
<1>t. \A t \in AnyBlock, i \in {1, 2, 3} : Thought(t, n, i) => t.kind # "text" /\ t.grown # "silent"
  BY DEF Thought
<1>x. \A x \in AnyBlock, i \in {1, 2, 3} : Text(x, n, i) => x.kind = "text"
  BY DEF Text
<1>h. /\ \A a, d \in AnyBlock : a \in Has(<<a>>) /\ a \in Has(<<a, d>>) /\ d \in Has(<<a, d>>)
      /\ \A a, d, e \in AnyBlock : d \in Has(<<a, d, e>>)
  BY HasTuples
<1>b. Aloud(b) = IF b.grown = "silent" THEN <<>> ELSE <<b>>
  BY DEF Aloud
<1>1. ASSUME m = <<>> /\ c = <<>> /\ s = "" PROVE G
  <2>0. Append(m, b) = <<b>> /\ Len(m) = 0
    BY <1>1, Longer
  <2>1. Says(c, b) = Aloud(b)
    <3>1. Aloud(b) \in Seq(AnyBlock)
      BY AloudIs
    <3>2. <<>> \o Aloud(b) = Aloud(b)
      BY <3>1
    <3>. QED BY <1>1, <3>2, NonTexts DEF Says
  <2>2. Text(b, n, 1)
    BY <2>0 DEF Text
  <2>3. JustText(Append(m, b), Says(c, b), "stop", n, b)
    BY <1>b, <2>0, <2>1, <2>2 DEF JustText
  <2>. QED BY <2>3 DEF Spoken
<1>2. ASSUME NEW t \in AnyBlock, JustThought(m, c, s, n, t) PROVE G
  <2>0. Append(m, b) = <<t, b>> /\ Len(m) = 1 /\ c = <<t>> /\ t.kind # "text"
    BY <1>2, <1>t, Longer DEF JustThought
  <2>1. Says(c, b) = IF b.grown = "silent" THEN <<t>> ELSE <<t, b>>
    <3>1. Turn!NonText(c) = <<t>>
      BY <2>0, NonTexts
    <3>. QED BY <3>1, Cases DEF Says
  <2>2. Text(b, n, 2)
    BY <2>0 DEF Text
  <2>3. ThoughtText(Append(m, b), Says(c, b), "stop", n, t, b)
    BY <1>2, <2>0, <2>1, <2>2 DEF ThoughtText, JustThought
  <2>. QED BY <2>3 DEF Spoken
<1>3. ASSUME NEW x \in AnyBlock, JustText(m, c, s, n, x) PROVE G
  BY <1>3, <1>x, <1>h DEF JustText
<1>4. ASSUME NEW t \in AnyBlock, NEW x \in AnyBlock, ThoughtText(m, c, s, n, t, x) PROVE G
  BY <1>4, <1>x, <1>h DEF ThoughtText
<1>5. ASSUME NEW x \in AnyBlock, NEW t \in AnyBlock, TextThought(m, c, s, n, x, t) PROVE G
  BY <1>5, <1>x, <1>h DEF TextThought
<1>6. ASSUME NEW u \in AnyBlock, NEW x \in AnyBlock, NEW t \in AnyBlock, AllThree(m, c, s, n, u, x, t) PROVE G
  BY <1>6, <1>x, <1>h DEF AllThree
<1> HIDE DEF G
<1>7. G
  BY <1>1, <1>2, <1>3, <1>4, <1>5, <1>6, Zenon DEF Spoken
<1>. QED BY <1>7 DEF G

LEMMA ThoughtGrows ==
  ASSUME NEW m, NEW c, NEW s, NEW n, NEW b \in AnyBlock, Spoken(m, c, s, n), Thought(b, n, Len(m)),
         m # <<>>, Last(m).kind = "thinking"
  PROVE  Spoken(Append(Front(m), b), Heeds(c, b), s, n)
<1> DEFINE G == Spoken(Append(Front(m), b), Heeds(c, b), s, n)
<1>t. \A t \in AnyBlock, i \in {1, 2, 3} : Thought(t, n, i) => t.kind = "thinking" /\ t.grown # "silent"
  BY DEF Thought
<1>x. \A x \in AnyBlock, i \in {1, 2, 3} : Text(x, n, i) => x.kind # "thinking"
  BY DEF Text
<1>2. ASSUME NEW t \in AnyBlock, JustThought(m, c, s, n, t) PROVE G
  <2>1. Append(Front(m), b) = <<b>> /\ Len(m) = 1 /\ Last(c) = t /\ Front(c) = <<>> /\ c # <<>> /\ t.kind = "thinking"
    BY <1>2, <1>t, Longer DEF JustThought
  <2>2. Heeds(c, b) = <<b>>
    BY <2>1, Longer DEF Heeds
  <2>3. JustThought(Append(Front(m), b), Heeds(c, b), s, n, b)
    BY <1>2, <2>1, <2>2 DEF JustThought
  <2>. QED BY <2>3 DEF Spoken
<1>3. ASSUME NEW x \in AnyBlock, JustText(m, c, s, n, x) PROVE G
  BY <1>3, <1>x, Longer DEF JustText
<1>4. ASSUME NEW t \in AnyBlock, NEW x \in AnyBlock, ThoughtText(m, c, s, n, t, x) PROVE G
  BY <1>4, <1>x, Longer DEF ThoughtText
<1>5. ASSUME NEW x \in AnyBlock, NEW t \in AnyBlock, TextThought(m, c, s, n, x, t) PROVE G
  <2>0. Front(m) = <<x>> /\ Len(m) = 2 /\ t.kind = "thinking"
    BY <1>5, <1>t, Longer DEF TextThought
  <2>1. Append(Front(m), b) = <<x, b>> /\ Len(m) = 2 /\ t.kind = "thinking"
    <3>1. Append(<<x>>, b) = <<x, b>>
      BY Longer, Zenon
    <3>. QED BY <2>0, <3>1
  <2>2. CASE x.grown = "silent"
    <3>1. c = <<t>> /\ Last(c) = t /\ Front(c) = <<>> /\ c # <<>>
      BY <1>5, <2>2, Longer DEF TextThought
    <3>2. Heeds(c, b) = <<b>>
      BY <2>1, <3>1, Longer DEF Heeds
    <3>3. TextThought(Append(Front(m), b), Heeds(c, b), s, n, x, b)
      BY <1>5, <2>1, <2>2, <3>2 DEF TextThought
    <3>. QED BY <3>3 DEF Spoken
  <2>3. CASE x.grown # "silent"
    <3>1. c = <<x, t>> /\ Last(c) = t /\ Front(c) = <<x>> /\ c # <<>>
      BY <1>5, <2>3, Longer DEF TextThought
    <3>c. Append(Front(c), b) = <<x, b>>
      <4>1. Append(<<x>>, b) = <<x, b>>
        BY Longer, Zenon
      <4>. QED BY <3>1, <4>1
    <3>2. Heeds(c, b) = <<x, b>>
      BY <2>1, <3>1, <3>c DEF Heeds
    <3>3. TextThought(Append(Front(m), b), Heeds(c, b), s, n, x, b)
      BY <1>5, <2>1, <2>3, <3>2 DEF TextThought
    <3>. QED BY <3>3 DEF Spoken
  <2>. QED BY <2>2, <2>3
<1>6. ASSUME NEW u \in AnyBlock, NEW x \in AnyBlock, NEW t \in AnyBlock, AllThree(m, c, s, n, u, x, t) PROVE G
  <2>0. Front(m) = <<u, x>> /\ Len(m) = 3 /\ t.kind = "thinking"
    BY <1>6, <1>t, Longer DEF AllThree
  <2>1. Append(Front(m), b) = <<u, x, b>> /\ Len(m) = 3 /\ t.kind = "thinking"
    <3>1. Append(<<u, x>>, b) = <<u, x, b>>
      BY Longer, Zenon
    <3>. QED BY <2>0, <3>1
  <2>2. CASE x.grown = "silent"
    <3>1. c = <<t>> /\ Last(c) = t /\ Front(c) = <<>> /\ c # <<>>
      BY <1>6, <2>2, Longer DEF AllThree
    <3>2. Heeds(c, b) = <<b>>
      BY <2>1, <3>1, Longer DEF Heeds
    <3>3. AllThree(Append(Front(m), b), Heeds(c, b), s, n, u, x, b)
      BY <1>6, <2>1, <2>2, <3>2 DEF AllThree
    <3>. QED BY <3>3 DEF Spoken
  <2>3. CASE x.grown # "silent"
    <3>1. c = <<u, x, t>> /\ Last(c) = t /\ Front(c) = <<u, x>> /\ c # <<>>
      BY <1>6, <2>3, Longer DEF AllThree
    <3>c. Append(Front(c), b) = <<u, x, b>>
      <4>1. Append(<<u, x>>, b) = <<u, x, b>>
        BY Longer, Zenon
      <4>. QED BY <3>1, <4>1
    <3>2. Heeds(c, b) = <<u, x, b>>
      BY <2>1, <3>1, <3>c DEF Heeds
    <3>3. AllThree(Append(Front(m), b), Heeds(c, b), s, n, u, x, b)
      BY <1>6, <2>1, <2>3, <3>2 DEF AllThree
    <3>. QED BY <3>3 DEF Spoken
  <2>. QED BY <2>2, <2>3
<1> HIDE DEF G
<1>7. G
  BY <1>2, <1>3, <1>4, <1>5, <1>6, Zenon DEF Spoken
<1>. QED BY <1>7 DEF G

LEMMA TextGrows ==
  ASSUME NEW m, NEW c, NEW s, NEW n, NEW b \in AnyBlock, Spoken(m, c, s, n), Text(b, n, Len(m)),
         m # <<>>, Last(m).kind = "text"
  PROVE  Spoken(Append(Front(m), b), Says(c, b), "stop", n)
<1> DEFINE G == Spoken(Append(Front(m), b), Says(c, b), "stop", n)
<1>t. \A t \in AnyBlock, i \in {1, 2, 3} : Thought(t, n, i) => t.kind # "text" /\ t.grown # "silent"
  BY DEF Thought
<1>x. \A x \in AnyBlock, i \in {1, 2, 3} : Text(x, n, i) => x.kind = "text"
  BY DEF Text
<1>b. Aloud(b) = IF b.grown = "silent" THEN <<>> ELSE <<b>>
  BY DEF Aloud
<1>2. ASSUME NEW t \in AnyBlock, JustThought(m, c, s, n, t) PROVE G
  BY <1>2, <1>t, Longer DEF JustThought
<1>3. ASSUME NEW x \in AnyBlock, JustText(m, c, s, n, x) PROVE G
  <2>0. Append(Front(m), b) = <<b>> /\ Len(m) = 1 /\ x.kind = "text" /\ (c = <<>> \/ c = <<x>>)
    BY <1>3, <1>x, Longer DEF JustText
  <2>1. Says(c, b) = Aloud(b)
    <3>1. Aloud(b) \in Seq(AnyBlock)
      BY AloudIs
    <3>2. <<>> \o Aloud(b) = Aloud(b)
      BY <3>1
    <3>. QED BY <2>0, <3>2, NonTexts DEF Says
  <2>2. JustText(Append(Front(m), b), Says(c, b), "stop", n, b)
    BY <1>b, <2>0, <2>1 DEF JustText
  <2>. QED BY <2>2 DEF Spoken
<1>4. ASSUME NEW t \in AnyBlock, NEW x \in AnyBlock, ThoughtText(m, c, s, n, t, x) PROVE G
  <2>f. Front(m) = <<t>> /\ Len(m) = 2 /\ x.kind = "text" /\ t.kind # "text" /\ (c = <<t>> \/ c = <<t, x>>)
    BY <1>4, <1>x, <1>t, Longer DEF ThoughtText
  <2>0. /\ Append(Front(m), b) = <<t, b>> /\ Len(m) = 2 /\ x.kind = "text" /\ t.kind # "text"
        /\ (c = <<t>> \/ c = <<t, x>>)
    <3>1. Append(<<t>>, b) = <<t, b>>
      BY Longer, Zenon
    <3>. QED BY <2>f, <3>1
  <2>1. Says(c, b) = IF b.grown = "silent" THEN <<t>> ELSE <<t, b>>
    <3>1. Turn!NonText(c) = <<t>>
      BY <2>0, NonTexts
    <3>. QED BY <3>1, Cases DEF Says
  <2>2. ThoughtText(Append(Front(m), b), Says(c, b), "stop", n, t, b)
    BY <1>4, <2>0, <2>1 DEF ThoughtText
  <2>. QED BY <2>2 DEF Spoken
<1>5. ASSUME NEW x \in AnyBlock, NEW t \in AnyBlock, TextThought(m, c, s, n, x, t) PROVE G
  BY <1>5, <1>t, Longer DEF TextThought
<1>6. ASSUME NEW u \in AnyBlock, NEW x \in AnyBlock, NEW t \in AnyBlock, AllThree(m, c, s, n, u, x, t) PROVE G
  BY <1>6, <1>t, Longer DEF AllThree
<1> HIDE DEF G
<1>7. G
  BY <1>2, <1>3, <1>4, <1>5, <1>6, Zenon DEF Spoken
<1>. QED BY <1>7 DEF G

\* The thoughts of a message that only a silent text sets apart from the next one
Lost(m) == {b \in AnyBlock : \E i \in 1..Len(m) - 2 :
              m[i] = b /\ b.kind = "thinking" /\ m[i + 1].grown = "silent" /\ m[i + 2].kind = "thinking"}
Heeded(m) == {b \in AnyBlock : b.grown # "silent" /\ b \notin Lost(m)}

LEMMA LostFew ==
  ASSUME NEW a \in AnyBlock, NEW b \in AnyBlock, NEW c \in AnyBlock
  PROVE  /\ Lost(<<>>) = {} /\ Lost(<<a>>) = {} /\ Lost(<<a, b>>) = {}
         /\ Lost(<<a, b, c>>) = IF a.kind = "thinking" /\ b.grown = "silent" /\ c.kind = "thinking" THEN {a} ELSE {}
<1>1. Lost(<<>>) = {}
  <2>1. 1..Len(<<>>) - 2 = {}
    OBVIOUS
  <2>. QED BY <2>1 DEF Lost
<1>2. Lost(<<a>>) = {}
  <2>1. 1..Len(<<a>>) - 2 = {}
    OBVIOUS
  <2>. QED BY <2>1 DEF Lost
<1>3. Lost(<<a, b>>) = {}
  <2>1. 1..Len(<<a, b>>) - 2 = {}
    OBVIOUS
  <2>. QED BY <2>1 DEF Lost
<1>4. Lost(<<a, b, c>>) = IF a.kind = "thinking" /\ b.grown = "silent" /\ c.kind = "thinking" THEN {a} ELSE {}
  <2> DEFINE q == <<a, b, c>>
  <2>1. 1..Len(q) - 2 = {1} /\ q[1] = a /\ q[1 + 1] = b /\ q[1 + 2] = c
    OBVIOUS
  <2> HIDE DEF q
  <2>2. Lost(q) = {d \in AnyBlock : a = d /\ d.kind = "thinking" /\ b.grown = "silent" /\ c.kind = "thinking"}
    BY <2>1 DEF Lost
  <2>. QED BY <2>2 DEF q
<1>. QED BY <1>1, <1>2, <1>3, <1>4, Zenon

LEMMA ShowsKept ==
  ASSUME NEW m, NEW c, NEW s, NEW n, Spoken(m, c, s, n)
  PROVE  Only(m, Heeded(m)) = c
<1> DEFINE K == Heeded(m)
           G == Only(m, K) = c
<1>t. \A t \in AnyBlock, i \in {1, 2, 3} : Thought(t, n, i) => t.kind = "thinking" /\ t.grown # "silent" /\ t.n = i
  BY DEF Thought
<1>x. \A x \in AnyBlock, i \in {1, 2, 3} : Text(x, n, i) => x.kind = "text" /\ x.n = i
  BY DEF Text
<1>l. /\ \A a \in AnyBlock : Lost(<<a>>) = {}
      /\ \A a, b \in AnyBlock : Lost(<<a, b>>) = {}
      /\ \A a, b, d \in AnyBlock : Lost(<<a, b, d>>) =
           IF a.kind = "thinking" /\ b.grown = "silent" /\ d.kind = "thinking" THEN {a} ELSE {}
  BY LostFew
<1>k. \A b \in AnyBlock : b \in K <=> b.grown # "silent" /\ b \notin Lost(m)
  BY DEF Heeded
<1> HIDE DEF K
<1>o. /\ \A a \in AnyBlock : Only(<<a>>, K) = IF a \in K THEN <<a>> ELSE <<>>
      /\ \A a, b \in AnyBlock : Only(<<a, b>>, K) = IF b \in K THEN Append(Only(<<a>>, K), b) ELSE Only(<<a>>, K)
      /\ \A a, b, d \in AnyBlock :
           Only(<<a, b, d>>, K) = IF d \in K THEN Append(Only(<<a, b>>, K), d) ELSE Only(<<a, b>>, K)
  BY Picks
<1>1. ASSUME m = <<>> /\ c = <<>> /\ s = "" PROVE G
  BY <1>1, OnlyNone
<1>2. ASSUME NEW t \in AnyBlock, JustThought(m, c, s, n, t) PROVE G
  <2>1. m = <<t>> /\ c = <<t>> /\ t \in K
    BY <1>2, <1>t, <1>l, <1>k DEF JustThought
  <2>. QED BY <2>1, <1>o
<1>3. ASSUME NEW x \in AnyBlock, JustText(m, c, s, n, x) PROVE G
  <2>1. m = <<x>> /\ c = (IF x.grown = "silent" THEN <<>> ELSE <<x>>) /\ (x \in K <=> x.grown # "silent")
    BY <1>3, <1>l, <1>k DEF JustText
  <2>. QED BY <2>1, <1>o
<1>4. ASSUME NEW t \in AnyBlock, NEW x \in AnyBlock, ThoughtText(m, c, s, n, t, x) PROVE G
  <2>1. m = <<t, x>> /\ (x \in K <=> x.grown # "silent") /\ t \in K /\ c = (IF x.grown = "silent" THEN <<t>> ELSE <<t, x>>)
    BY <1>4, <1>t, <1>l, <1>k DEF ThoughtText
  <2>2. Only(<<t>>, K) = <<t>> /\ Append(<<t>>, x) = <<t, x>>
    BY <2>1, <1>o, Longer
  <2>3. Only(<<t, x>>, K) = IF x \in K THEN Append(Only(<<t>>, K), x) ELSE Only(<<t>>, K)
    BY <1>o, Zenon
  <2>. QED BY <2>1, <2>2, <2>3
<1>5. ASSUME NEW x \in AnyBlock, NEW t \in AnyBlock, TextThought(m, c, s, n, x, t) PROVE G
  <2>1. m = <<x, t>> /\ (x \in K <=> x.grown # "silent") /\ t \in K /\ c = (IF x.grown = "silent" THEN <<t>> ELSE <<x, t>>)
    BY <1>5, <1>t, <1>l, <1>k DEF TextThought
  <2>2. /\ Only(<<x>>, K) = (IF x \in K THEN <<x>> ELSE <<>>)
        /\ Append(<<x>>, t) = <<x, t>> /\ Append(<<>>, t) = <<t>>
    BY <1>o, Longer
  <2>3. Only(<<x, t>>, K) = IF t \in K THEN Append(Only(<<x>>, K), t) ELSE Only(<<x>>, K)
    BY <1>o, Zenon
  <2>. QED BY <2>1, <2>2, <2>3
<1>6. ASSUME NEW u \in AnyBlock, NEW x \in AnyBlock, NEW t \in AnyBlock, AllThree(m, c, s, n, u, x, t) PROVE G
  <2>1. m = <<u, x, t>> /\ c = (IF x.grown = "silent" THEN <<t>> ELSE <<u, x, t>>)
    BY <1>6 DEF AllThree
  <2>2. u.kind = "thinking" /\ t.kind = "thinking" /\ u.n = 1 /\ x.n = 2 /\ t.n = 3 /\ u.grown # "silent" /\ t.grown # "silent"
    BY <1>6, <1>t, <1>x DEF AllThree
  <2>3. Lost(m) = IF x.grown = "silent" THEN {u} ELSE {}
    BY <1>l, <2>1, <2>2
  <2>4. t \in K /\ (x \in K <=> x.grown # "silent") /\ (u \in K <=> x.grown # "silent")
    BY <1>k, <2>2, <2>3
  <2>5. /\ Only(<<u>>, K) = (IF u \in K THEN <<u>> ELSE <<>>)
        /\ Append(<<u>>, x) = <<u, x>> /\ Append(<<>>, t) = <<t>> /\ Append(<<u, x>>, t) = <<u, x, t>>
    <3>1. Append(<<u>>, x) = <<u, x>> /\ Append(<<>>, t) = <<t>> /\ Append(<<u, x>>, t) = <<u, x, t>>
      BY Longer, Zenon
    <3>. QED BY <1>o, <3>1
  <2>6. Only(<<u, x>>, K) = IF x \in K THEN Append(Only(<<u>>, K), x) ELSE Only(<<u>>, K)
    BY <1>o, Zenon
  <2>7. Only(<<u, x, t>>, K) = IF t \in K THEN Append(Only(<<u, x>>, K), t) ELSE Only(<<u, x>>, K)
    BY <1>o, Zenon
  <2>. QED BY <2>1, <2>4, <2>5, <2>6, <2>7
<1> HIDE DEF G
<1>7. G
  BY <1>1, <1>2, <1>3, <1>4, <1>5, <1>6, Zenon DEF Spoken
<1>. QED BY <1>7 DEF G, K

LEMMA LostMore ==
  ASSUME NEW m \in Seq(AnyBlock), NEW k \in Seq(AnyBlock), \A b \in Has(k) : b.kind = "toolCall"
  PROVE  Lost(m \o k) = Lost(m)
<1> DEFINE q == m \o k
<1>1. /\ Len(q) = Len(m) + Len(k) /\ Len(m) \in Nat /\ Len(k) \in Nat
      /\ \A i \in 1..Len(m) : q[i] = m[i]
      /\ \A i \in 1..Len(q) : i > Len(m) => q[i] = k[i - Len(m)] /\ i - Len(m) \in 1..Len(k)
  OBVIOUS
<1> HIDE DEF q
<1>2. \A i \in 1..Len(q) : i > Len(m) => q[i].kind = "toolCall"
  BY <1>1 DEF Has
<1>3. ASSUME NEW b \in Lost(q) PROVE b \in Lost(m)
  <2>1. PICK i \in 1..Len(q) - 2 :
          q[i] = b /\ b.kind = "thinking" /\ q[i + 1].grown = "silent" /\ q[i + 2].kind = "thinking"
    BY DEF Lost
  <2>2. i + 2 \in 1..Len(q) /\ ~(i + 2 > Len(m))
    BY <1>1, <1>2, <2>1
  <2>3. i \in 1..Len(m) - 2 /\ i \in 1..Len(m) /\ i + 1 \in 1..Len(m) /\ i + 2 \in 1..Len(m)
    BY <1>1, <2>2
  <2>4. m[i] = q[i] /\ m[i + 1] = q[i + 1] /\ m[i + 2] = q[i + 2]
    BY <1>1, <2>3
  <2>. QED BY <2>1, <2>3, <2>4 DEF Lost
<1>4. ASSUME NEW b \in Lost(m) PROVE b \in Lost(q)
  <2>1. PICK i \in 1..Len(m) - 2 :
          m[i] = b /\ b.kind = "thinking" /\ m[i + 1].grown = "silent" /\ m[i + 2].kind = "thinking"
    BY DEF Lost
  <2>3. i \in 1..Len(q) - 2 /\ i \in 1..Len(m) /\ i + 1 \in 1..Len(m) /\ i + 2 \in 1..Len(m)
    BY <1>1
  <2>4. m[i] = q[i] /\ m[i + 1] = q[i + 1] /\ m[i + 2] = q[i + 2]
    BY <1>1, <2>3
  <2>. QED BY <2>1, <2>3, <2>4 DEF Lost
<1>. QED BY <1>3, <1>4 DEF q

LEMMA Answers ==
  ASSUME NEW m, NEW c, NEW s, NEW n, Spoken(m, c, s, n)
  PROVE  /\ Said(Only(m, Texts)) = Said(Only(c, Texts))
         /\ s = "" => Only(m, Texts) = <<>> /\ Only(c, Texts) = <<>>
         /\ c = Only(m, Heeded(m))
<1> DEFINE K == Texts
           G == Said(Only(m, K)) = Said(Only(c, K)) /\ (s = "" => Only(m, K) = <<>> /\ Only(c, K) = <<>>)
<1>t. \A t \in AnyBlock, i \in {1, 2, 3} : Thought(t, n, i) => t \notin K
  BY DEF Thought, Texts
<1>x. \A x \in AnyBlock, i \in {1, 2, 3} : Text(x, n, i) => x \in K
  BY DEF Text, Texts
<1> HIDE DEF K
<1>o. /\ \A a \in AnyBlock : Only(<<a>>, K) = IF a \in K THEN <<a>> ELSE <<>>
      /\ \A a, b \in AnyBlock : Only(<<a, b>>, K) = IF b \in K THEN Append(Only(<<a>>, K), b) ELSE Only(<<a>>, K)
      /\ \A a, b, d \in AnyBlock :
           Only(<<a, b, d>>, K) = IF d \in K THEN Append(Only(<<a, b>>, K), d) ELSE Only(<<a, b>>, K)
  BY Picks
<1>d. \A a, b, d \in AnyBlock :
        Only(<<a, b, d>>, K) = IF d \in K THEN Append(Only(<<a, b>>, K), d) ELSE Only(<<a, b>>, K)
  BY <1>o, Zenon
<1>s. Said(<<>>) = <<>> /\ \A x \in AnyBlock : x.grown = "silent" => Said(<<x>>) = <<>>
  BY DEF Said
<1>p. /\ \A t \in AnyBlock : t \notin K => Only(<<t>>, K) = <<>>
      /\ \A x \in AnyBlock : x \in K => Only(<<x>>, K) = <<x>>
  BY <1>o
<1>q. \A t, x \in AnyBlock : t \notin K /\ x \in K => Only(<<t, x>>, K) = <<x>> /\ Only(<<x, t>>, K) = <<x>>
  <2>1. \A x \in AnyBlock : Append(<<>>, x) = <<x>>
    BY Longer, Zenon
  <2>. QED BY <1>o, <1>p, <2>1
<1>r. \A u, x, t \in AnyBlock : u \notin K /\ x \in K /\ t \notin K => Only(<<u, x, t>>, K) = <<x>>
  <2> SUFFICES ASSUME NEW u \in AnyBlock, NEW x \in AnyBlock, NEW t \in AnyBlock, u \notin K, x \in K, t \notin K
               PROVE  Only(<<u, x, t>>, K) = <<x>>
    BY Zenon
  <2>1. Only(<<u, x, t>>, K) = IF t \in K THEN Append(Only(<<u, x>>, K), t) ELSE Only(<<u, x>>, K)
    BY <1>d, Zenon
  <2>2. Only(<<u, x>>, K) = <<x>>
    BY <1>q
  <2>. QED BY <2>1, <2>2
<1>n. Only(<<>>, K) = <<>>
  BY OnlyNone
<1>1. ASSUME m = <<>> /\ c = <<>> /\ s = "" PROVE G
  BY <1>1, <1>n, Zenon
<1>2. ASSUME NEW t \in AnyBlock, JustThought(m, c, s, n, t) PROVE G
  BY <1>2, <1>t, <1>p DEF JustThought
<1>3. ASSUME NEW x \in AnyBlock, JustText(m, c, s, n, x) PROVE G
  BY <1>3, <1>x, <1>p, <1>s, <1>n DEF JustText
<1>4. ASSUME NEW t \in AnyBlock, NEW x \in AnyBlock, ThoughtText(m, c, s, n, t, x) PROVE G
  BY <1>4, <1>x, <1>t, <1>p, <1>q, <1>s, <1>n DEF ThoughtText
<1>5. ASSUME NEW x \in AnyBlock, NEW t \in AnyBlock, TextThought(m, c, s, n, x, t) PROVE G
  BY <1>5, <1>x, <1>t, <1>p, <1>q, <1>s, <1>n DEF TextThought
<1>6. ASSUME NEW u \in AnyBlock, NEW x \in AnyBlock, NEW t \in AnyBlock, AllThree(m, c, s, n, u, x, t) PROVE G
  BY <1>6, <1>x, <1>t, <1>p, <1>r, <1>s, <1>n DEF AllThree
<1> HIDE DEF G
<1>7. G
  BY <1>1, <1>2, <1>3, <1>4, <1>5, <1>6, Zenon DEF Spoken
<1>. QED BY <1>7, ShowsKept DEF G, K

-----------------------------------------------------------------------------
(* A turn: what the tab shows (q), what is saved (r), the message (m) *)

Messages == [n : 1..MaxMessage, content : Seq(AnyBlock), calls : 0..MaxCall, started : 0..MaxCall,
             ended : SUBSET (1..MaxCall), over : BOOLEAN]
Result(n, i) == [kind |-> "toolResult", of |-> n, n |-> MaxBlock + i, grown |-> "full"]
Results(m) == {Result(m.n, i) : i \in m.ended}
Speaks(m) == ~m.over /\ m.calls = 0

\* The steps of what is shown, the calls still to be shown, the steps of what is
\* saved but for what is not to be shown
Live(q) == Turn!Group(Front(q)).steps \o Last(q).content
Rest(m) == [i \in 1..m.calls - m.started |-> Turn!Call(m.n, m.started + i)]
Silenced(r) == {b \in AnyBlock : \E e \in Has(r) : e.role = "assistant" /\ b \in Lost(e.content)}
Heard(r) == {b \in AnyBlock : b.grown # "silent" /\ b \notin Silenced(r)}
Told(r) == Only(Turn!Group(r).steps, Heard(r))
OneCall(r) ==
    \A e \in Has(r) : e.role = "assistant" => \A b, c \in Has(e.content) :
        b.kind = "toolCall" /\ c.kind = "toolCall" => b = c
Alike(l, p, one) == Only(l, Plain) = Only(p, Plain) /\ Has(l) = Has(p) /\ (one => l = p)

TurnTypes(q, r, m) ==
    /\ q \in Seq(Entry) /\ Len(q) > 0 /\ Last(q).role = "assistant" /\ r \in Seq(Entry)
    /\ m \in Messages /\ m.ended \subseteq 1..m.started /\ m.started <= m.calls
    /\ m.over => m.calls = 0
    /\ m.calls > 0 => m.n < MaxMessage
Owned(q) == \A e \in Has(q) : e.role = "assistant" => Has(e.content) \subseteq Turn!Block
Ago(b, m) == b.of < m.n \/ (b.of = m.n /\ ~Speaks(m))
Dated(r, m) ==
    /\ \A e \in Has(r) : e.role = "assistant" => \A b \in Has(e.content) : Ago(b, m)
    /\ \A b \in Has(Turn!Group(r).steps) : Ago(b, m)
Speaking(q, r, m) ==
    /\ Alike(Turn!Group(Front(q)).steps, Told(r), OneCall(r))
    /\ Spoken(m.content, Last(q).content, Last(q).stop, m.n)
Calling(q, r, m) ==
    /\ Only(Live(q) \o Rest(m), Plain) = Only(Told(r), Plain)
    /\ Has(Live(q)) \cup Has(Rest(m)) = Has(Told(r)) \cup Results(m)
    /\ OneCall(r) => m.calls = 1 /\ m.ended = {} /\ Live(q) \o Rest(m) = Told(r)
    /\ m.started > 0 => Last(q).stop # "stop"
Over(q, r) ==
    /\ Turn!Group(q).result = Turn!Group(r).result
    /\ Alike(Turn!Group(q).steps, Told(r), OneCall(r))
Unanswered(q, r) == Turn!Group(Front(q)).result = <<>> /\ Turn!Group(r).result = <<>>
TurnInv(q, r, m) ==
    /\ TurnTypes(q, r, m) /\ Owned(q) /\ Owned(r) /\ Dated(r, m)
    /\ ~m.over => Unanswered(q, r)
    /\ Speaks(m) => Speaking(q, r, m)
    /\ m.calls > 0 => Calling(q, r, m)
    /\ m.over => Over(q, r)

LEMMA Changed ==
  ASSUME NEW o \in Entry, NEW c, NEW s, NEW f, f = [[o EXCEPT !.content = c] EXCEPT !.stop = s]
  PROVE  f = [role |-> o.role, content |-> c, stop |-> s]
<1> DEFINE R == {"user", "assistant", "toolResult"}
           C == Seq(AnyBlock)
           S == {"", "stop", "toolUse"}
           g == [o EXCEPT !.content = c]
<1>0. o \in [role : R, content : C, stop : S]
  BY DEF Entry
<1> HIDE DEF R, C, S
<1>1. g = [role |-> o.role, content |-> c, stop |-> o.stop]
  BY <1>0
<1> HIDE DEF g
<1>2. [g EXCEPT !.stop = s] = [role |-> o.role, content |-> c, stop |-> s]
  BY <1>1
<1>. QED BY <1>2 DEF g

LEMMA LastOf ==
  ASSUME NEW q \in Seq(Entry), Len(q) > 0
  PROVE  q = Append(Front(q), Last(q)) /\ Front(q) \in Seq(Entry) /\ Last(q) \in Entry
<1> DEFINE p == SubSeq(q, 1, Len(q) - 1)
<1>1. Len(q) \in Nat /\ Len(q) - 1 \in Nat /\ q[Len(q)] \in Entry
  OBVIOUS
<1>2. p \in Seq(Entry) /\ Len(p) = Len(q) - 1 /\ \A i \in 1..Len(q) - 1 : p[i] = q[i]
  <2> DEFINE n == Len(q) - 1
             z == SubSeq(q, 1, n)
  <2>1. n \in Nat /\ \A i \in 1..n : q[i] \in Entry
    BY <1>1
  <2> HIDE DEF n, z
  <2>2. z \in Seq(Entry) /\ Len(z) = (IF 1 <= n THEN n - 1 + 1 ELSE 0) /\ \A i \in 1..n - 1 + 1 : z[i] = q[1 + i - 1]
    BY <2>1, SubSeqProperties DEF z
  <2>3. z \in Seq(Entry) /\ Len(z) = n /\ \A i \in 1..n : z[i] = q[i]
    BY <2>1, <2>2
  <2>. QED BY <2>3, Zenon DEF n, z
<1> HIDE DEF p
<1> DEFINE a == Append(p, q[Len(q)])
<1>3. a \in Seq(Entry) /\ Len(a) = Len(q) /\ a[Len(q)] = q[Len(q)] /\ \A i \in 1..Len(q) - 1 : a[i] = p[i]
  BY <1>1, <1>2
<1> HIDE DEF a
<1>4. \A i \in 1..Len(q) : a[i] = q[i]
  BY <1>1, <1>2, <1>3
<1>5. a = q
  BY <1>1, <1>3, <1>4
<1>6. Front(q) = p /\ Last(q) = q[Len(q)]
  BY DEF Front, Last, p
<1>. QED BY <1>1, <1>2, <1>5, <1>6 DEF a

\* What the tab's event handlers do to the last message
LEMMA EntryGetsIs ==
  ASSUME x1 \in Seq(Entry), Len(x1) > 0, Last(x1).role = "assistant", NEW c, NEW s, Turn!EntryGets(c, s)
  PROVE  /\ x1' = Append(Front(x1), [role |-> "assistant", content |-> c, stop |-> s])
         /\ Turn!Content = Last(x1).content /\ x1[Turn!Streaming] = Last(x1)
<1> DEFINE I == {i \in 1..Len(x1) : x1[i].role = "assistant"}
           n == Len(x1)
<1>1. n \in Nat /\ n \in I /\ I \in SUBSET (1..n)
  BY DEF Last
<1>2. Max(I) = n
  BY <1>1, TopOf
<1>3. Turn!Streaming = n
  <2>1. Turn!Streaming = IF I # {} THEN Turn!Max(I) ELSE 0
    BY Zenon DEF Turn!Streaming, Turn!SelectLastInSeq
  <2>2. Turn!Max(I) = Max(I)
    BY Zenon DEF Turn!Max, Max
  <2>. QED BY <1>1, <1>2, <2>1, <2>2
<1>4. Turn!Content = Last(x1).content /\ x1[Turn!Streaming] = Last(x1)
  BY <1>3 DEF Turn!Content, Last
<1>5. x1' = [x1 EXCEPT ![n].content = c, ![n].stop = s]
  BY <1>3 DEF Turn!EntryGets
<1> DEFINE e == [role |-> "assistant", content |-> c, stop |-> s]
           w == [x1 EXCEPT ![n] = e]
<1>6. x1' = w
  <2>1. x1[n] \in Entry /\ x1[n].role = "assistant"
    BY DEF Last
  <2> DEFINE o == x1[n]
             f == [[o EXCEPT !.content = c] EXCEPT !.stop = s]
  <2> HIDE DEF o
  <2>3. o \in Entry /\ f = [[o EXCEPT !.content = c] EXCEPT !.stop = s]
    BY <2>1 DEF o
  <2> HIDE DEF f
  <2>4. f = [role |-> o.role, content |-> c, stop |-> s]
    BY <2>3, Changed
  <2>5. f = e
    BY <2>1, <2>4 DEF o
  <2>6. [x1 EXCEPT ![n].content = c, ![n].stop = s] = [x1 EXCEPT ![n] = f]
    BY <1>1 DEF o, f
  <2>. QED BY <1>5, <2>5, <2>6
<1>7. Append(Front(x1), e) = w
  <2>1. /\ x1 = Append(Front(x1), Last(x1)) /\ Front(x1) \in Seq(Entry) /\ Last(x1) \in Entry
    BY LastOf
  <2> DEFINE p == Front(x1)
             l == Last(x1)
             T == Entry \cup {e}
  <2> HIDE DEF p, l, e
  <2>2. p \in Seq(T) /\ l \in T /\ e \in T /\ x1 = Append(p, l)
    BY <2>1 DEF p, l
  <2> HIDE DEF T
  <2>3. n = Len(p) + 1 /\ \A i \in 1..Len(p) : x1[i] = p[i]
    BY <2>2
  <2>4. Append(p, e) \in Seq(T) /\ Len(Append(p, e)) = n /\ \A i \in 1..n : Append(p, e)[i] = IF i = n THEN e ELSE x1[i]
    BY <2>2, <2>3
  <2>5. w \in Seq(T) /\ Len(w) = n /\ \A i \in 1..n : w[i] = IF i = n THEN e ELSE x1[i]
    <3>1. x1 \in Seq(T) /\ n \in 1..Len(x1)
      BY <1>1, <2>2
    <3>2. \A i \in 1..Len(x1), d \in T : [x1 EXCEPT ![i] = d] \in Seq(T) /\ Len([x1 EXCEPT ![i] = d]) = Len(x1)
      BY <3>1, ExceptSeq
    <3>3. w \in Seq(T) /\ Len(w) = n
      BY <2>2, <3>1, <3>2, Zenon
    <3>4. \A i \in 1..n : w[i] = IF i = n THEN e ELSE x1[i]
      BY <3>1
    <3>. QED BY <3>3, <3>4
  <2> HIDE DEF w, n
  <2>6. Append(p, e) = w
    BY <2>4, <2>5
  <2>. QED BY <2>6 DEF p
<1>. QED BY <1>4, <1>6, <1>7

LEMMA GroupIs ==
  ASSUME NEW q \in Seq(Entry)
  PROVE  Turn!Group(q) \in Task /\ Turn!Group(q).steps \in Seq(AnyBlock) /\ Turn!Group(q).result \in Seq(AnyBlock)
<1>1. Turn!Group(q) \in Task
  <2> DEFINE C == Seq(AnyBlock)
             z == <<>>
  <2>0. z \in C
    OBVIOUS
  <2> HIDE DEF C, z
  <2>1. [role |-> "user", content |-> z, stop |-> ""] \in Entry
    BY <2>0 DEF Entry, C
  <2>. QED BY <2>1, GroupMore
<1>. QED BY <1>1 DEF Task

LEMMA GroupSaid ==
  ASSUME NEW q \in Seq(Entry), NEW e \in Entry, e.role = "assistant", e.stop # "stop"
  PROVE  /\ Turn!Group(Append(q, e)).steps = Turn!Group(q).steps \o e.content
         /\ Turn!Group(Append(q, e)).result = Said(Turn!Group(q).result)
<1> DEFINE task == Turn!Group(q)
           S == {b \in Has(e.content) : e.stop \notin {"", "toolUse"} /\ b.kind = "text"}
           done == Turn!ProcessAssistant(task, e)
<1>1. task \in Task /\ Turn!Group(Append(q, e)) = Grown(task, e) /\ task.result \in Seq(AnyBlock)
  BY GroupMore, GroupIs
<1> HIDE DEF task, S
<1>2. done.steps = task.steps \o Only(e.content, Has(e.content) \ S) /\ done.result = Said(task.result \o Only(e.content, S))
  BY <1>1, ProcessIs DEF S
<1>3. S = {} /\ e.content \in Seq(AnyBlock)
  BY DEF S, Entry
<1>4. Only(e.content, Has(e.content) \ S) = e.content /\ Only(e.content, S) = <<>>
  <2>1. Has(e.content) \subseteq Has(e.content) \ S /\ Has(e.content) \cap S = {}
    BY <1>3
  <2>. QED BY <1>3, <2>1, OnlyAll, OnlyNothing
<1>5. task.result \o <<>> = task.result
  BY <1>1
<1>6. Grown(task, e) = done
  BY DEF Grown
<1> HIDE DEF done
<1>. QED BY <1>1, <1>2, <1>4, <1>5, <1>6 DEF task

LEMMA GroupFinal ==
  ASSUME NEW q \in Seq(Entry), NEW e \in Entry, e.role = "assistant", e.stop = "stop"
  PROVE  /\ Turn!Group(Append(q, e)).steps = Turn!Group(q).steps \o Only(e.content, AnyBlock \ Texts)
         /\ Turn!Group(Append(q, e)).result = Said(Turn!Group(q).result \o Only(e.content, Texts))
<1> DEFINE task == Turn!Group(q)
           S == {b \in Has(e.content) : e.stop \notin {"", "toolUse"} /\ b.kind = "text"}
           done == Turn!ProcessAssistant(task, e)
<1>1. task \in Task /\ Turn!Group(Append(q, e)) = Grown(task, e) /\ task.result \in Seq(AnyBlock)
  BY GroupMore, GroupIs
<1> HIDE DEF task, S
<1>2. done.steps = task.steps \o Only(e.content, Has(e.content) \ S) /\ done.result = Said(task.result \o Only(e.content, S))
  BY <1>1, ProcessIs DEF S
<1>3. e.content \in Seq(AnyBlock)
  BY DEF Entry
<1>4. /\ \A b \in Has(e.content) : b \in S <=> b \in Texts
      /\ \A b \in Has(e.content) : b \in Has(e.content) \ S <=> b \in AnyBlock \ Texts
  <2>1. Has(e.content) \subseteq AnyBlock
    BY <1>3 DEF Has
  <2>. QED BY <2>1 DEF S, Texts
<1>5. Only(e.content, S) = Only(e.content, Texts)
  BY <1>3, <1>4, OnlySame
<1>6. Only(e.content, Has(e.content) \ S) = Only(e.content, AnyBlock \ Texts)
  <2> DEFINE A == Has(e.content) \ S
             B == AnyBlock \ Texts
  <2>1. \A b \in Has(e.content) : b \in A <=> b \in B
    BY <1>4
  <2> HIDE DEF A, B
  <2>2. Only(e.content, A) = Only(e.content, B)
    BY <1>3, <2>1, OnlySame
  <2>. QED BY <2>2 DEF A, B
<1>7. Grown(task, e) = done
  BY DEF Grown
<1> HIDE DEF done
<1>. QED BY <1>1, <1>2, <1>5, <1>6, <1>7 DEF task

LEMMA GroupResult ==
  ASSUME NEW q \in Seq(Entry), NEW e \in Entry, e.role = "toolResult"
  PROVE  /\ Turn!Group(Append(q, e)).steps = Turn!Group(q).steps \o e.content
         /\ Turn!Group(Append(q, e)).result = Turn!Group(q).result
<1> DEFINE task == Turn!Group(q)
<1>1. task \in Task /\ Turn!Group(Append(q, e)) = Grown(task, e)
  BY GroupMore, GroupIs
<1> HIDE DEF task
<1>2. Grown(task, e) = Turn!ProcessToolResult(task, e)
  BY DEF Grown
<1>3. Turn!ProcessToolResult(task, e) = [task EXCEPT !.steps = task.steps \o e.content]
  BY DEF Turn!ProcessToolResult
<1> DEFINE Q == Seq(AnyBlock)
           p == task.steps \o e.content
<1> HIDE DEF p
<1>4. [task EXCEPT !.steps = p].steps = p /\ [task EXCEPT !.steps = p].result = task.result
  <2>1. task \in [steps : Q, result : Q]
    BY <1>1 DEF Task
  <2> HIDE DEF Q
  <2>. QED BY <2>1
<1>. QED BY <1>1, <1>2, <1>3, <1>4 DEF task, p

EntryOf(c, s) == [role |-> "assistant", content |-> c, stop |-> s]
Stops == {"", "stop", "toolUse"}
LEMMA EntryFits ==
  ASSUME NEW c \in Seq(AnyBlock), NEW s \in Stops
  PROVE  EntryOf(c, s) \in Entry /\ EntryOf(c, s).role = "assistant" /\ EntryOf(c, s).content = c /\ EntryOf(c, s).stop = s
<1> DEFINE C == Seq(AnyBlock)
<1>1. c \in C
  OBVIOUS
<1> HIDE DEF C
<1>2. EntryOf(c, s) \in [role : {"user", "assistant", "toolResult"}, content : C, stop : Stops]
  BY <1>1 DEF EntryOf
<1>3. EntryOf(c, s).role = "assistant" /\ EntryOf(c, s).content = c /\ EntryOf(c, s).stop = s
  BY DEF EntryOf
<1>. QED BY <1>2, <1>3, Zenon DEF Entry, C, Stops

\* A message of which one thing is other than it was
SaysNow(m, k) == [m EXCEPT !.content = k]
CallsNow(m, k) == [m EXCEPT !.calls = k]
StartedNow(m, k) == [m EXCEPT !.started = k]
EndedNow(m, k) == [m EXCEPT !.ended = k]
OverNow(m) == [m EXCEPT !.over = TRUE]
LEMMA WithContent ==
  ASSUME NEW m \in Messages, NEW k \in Seq(AnyBlock)
  PROVE  LET w == SaysNow(m, k) IN
         /\ w \in Messages /\ w.content = k
         /\ w.n = m.n /\ w.calls = m.calls /\ w.started = m.started /\ w.ended = m.ended /\ w.over = m.over
<1> DEFINE w == SaysNow(m, k)
           C == Seq(AnyBlock)
           N == 1..MaxMessage
           K == 0..MaxCall
           E == SUBSET (1..MaxCall)
<1>0. m \in [n : N, content : C, calls : K, started : K, ended : E, over : BOOLEAN]
  BY DEF Messages
<1>1. k \in C
  OBVIOUS
<1> HIDE DEF C, N, K, E
<1>2. /\ w \in [n : N, content : C, calls : K, started : K, ended : E, over : BOOLEAN] /\ w.content = k
      /\ w.n = m.n /\ w.calls = m.calls /\ w.started = m.started /\ w.ended = m.ended /\ w.over = m.over
  BY <1>0, <1>1 DEF SaysNow
<1>. QED BY <1>2, Zenon DEF Messages, C, N, K, E
LEMMA WithCalls ==
  ASSUME NEW m \in Messages, NEW k \in 0..MaxCall
  PROVE  LET w == CallsNow(m, k) IN
         /\ w \in Messages /\ w.calls = k
         /\ w.n = m.n /\ w.content = m.content /\ w.started = m.started /\ w.ended = m.ended /\ w.over = m.over
<1> DEFINE w == CallsNow(m, k)
           C == Seq(AnyBlock)
           N == 1..MaxMessage
           K == 0..MaxCall
           E == SUBSET (1..MaxCall)
<1>0. m \in [n : N, content : C, calls : K, started : K, ended : E, over : BOOLEAN]
  BY DEF Messages
<1>1. k \in K
  OBVIOUS
<1> HIDE DEF C, N, K, E
<1>2. /\ w \in [n : N, content : C, calls : K, started : K, ended : E, over : BOOLEAN] /\ w.calls = k
      /\ w.n = m.n /\ w.content = m.content /\ w.started = m.started /\ w.ended = m.ended /\ w.over = m.over
  BY <1>0, <1>1 DEF CallsNow
<1>. QED BY <1>2, Zenon DEF Messages, C, N, K, E
LEMMA WithStarted ==
  ASSUME NEW m \in Messages, NEW k \in 0..MaxCall
  PROVE  LET w == StartedNow(m, k) IN
         /\ w \in Messages /\ w.started = k
         /\ w.n = m.n /\ w.content = m.content /\ w.calls = m.calls /\ w.ended = m.ended /\ w.over = m.over
<1> DEFINE w == StartedNow(m, k)
           C == Seq(AnyBlock)
           N == 1..MaxMessage
           K == 0..MaxCall
           E == SUBSET (1..MaxCall)
<1>0. m \in [n : N, content : C, calls : K, started : K, ended : E, over : BOOLEAN]
  BY DEF Messages
<1>1. k \in K
  OBVIOUS
<1> HIDE DEF C, N, K, E
<1>2. /\ w \in [n : N, content : C, calls : K, started : K, ended : E, over : BOOLEAN] /\ w.started = k
      /\ w.n = m.n /\ w.content = m.content /\ w.calls = m.calls /\ w.ended = m.ended /\ w.over = m.over
  BY <1>0, <1>1 DEF StartedNow
<1>. QED BY <1>2, Zenon DEF Messages, C, N, K, E
LEMMA WithEnded ==
  ASSUME NEW m \in Messages, NEW k \in SUBSET (1..MaxCall)
  PROVE  LET w == EndedNow(m, k) IN
         /\ w \in Messages /\ w.ended = k
         /\ w.n = m.n /\ w.content = m.content /\ w.calls = m.calls /\ w.started = m.started /\ w.over = m.over
<1> DEFINE w == EndedNow(m, k)
           C == Seq(AnyBlock)
           N == 1..MaxMessage
           K == 0..MaxCall
           E == SUBSET (1..MaxCall)
<1>0. m \in [n : N, content : C, calls : K, started : K, ended : E, over : BOOLEAN]
  BY DEF Messages
<1>1. k \in E
  OBVIOUS
<1> HIDE DEF C, N, K, E
<1>2. /\ w \in [n : N, content : C, calls : K, started : K, ended : E, over : BOOLEAN] /\ w.ended = k
      /\ w.n = m.n /\ w.content = m.content /\ w.calls = m.calls /\ w.started = m.started /\ w.over = m.over
  BY <1>0, <1>1 DEF EndedNow
<1>. QED BY <1>2, Zenon DEF Messages, C, N, K, E
LEMMA WithOver ==
  ASSUME NEW m \in Messages
  PROVE  LET w == OverNow(m) IN
         /\ w \in Messages /\ w.over = TRUE
         /\ w.n = m.n /\ w.content = m.content /\ w.calls = m.calls /\ w.started = m.started /\ w.ended = m.ended
<1> DEFINE w == OverNow(m)
           C == Seq(AnyBlock)
           N == 1..MaxMessage
           K == 0..MaxCall
           E == SUBSET (1..MaxCall)
<1>0. m \in [n : N, content : C, calls : K, started : K, ended : E, over : BOOLEAN]
  BY DEF Messages
<1> HIDE DEF C, N, K, E
<1>2. /\ w \in [n : N, content : C, calls : K, started : K, ended : E, over : BOOLEAN] /\ w.over = TRUE
      /\ w.n = m.n /\ w.content = m.content /\ w.calls = m.calls /\ w.started = m.started /\ w.ended = m.ended
  BY <1>0 DEF OverNow
<1>. QED BY <1>2, Zenon DEF Messages, C, N, K, E
LEMMA MessageIs ==
  ASSUME NEW m \in Messages
  PROVE  /\ m.n \in 1..MaxMessage /\ m.content \in Seq(AnyBlock) /\ m.calls \in 0..MaxCall /\ m.started \in 0..MaxCall
         /\ m.ended \subseteq 1..MaxCall /\ m.over \in BOOLEAN
<1> DEFINE C == Seq(AnyBlock)
           N == 1..MaxMessage
           K == 0..MaxCall
           E == SUBSET (1..MaxCall)
<1>0. m \in [n : N, content : C, calls : K, started : K, ended : E, over : BOOLEAN]
  BY DEF Messages
<1> HIDE DEF C, N, K, E
<1>1. m.n \in N /\ m.content \in C /\ m.calls \in K /\ m.started \in K /\ m.ended \in E /\ m.over \in BOOLEAN
  BY <1>0
<1>. QED BY <1>1 DEF C, N, K, E

LEMMA OwnBlocks == \A n : OfMessage(n) \subseteq Turn!Block
<1> SUFFICES ASSUME NEW n, NEW b \in OfMessage(n) PROVE b \in Turn!Block
  OBVIOUS
<1> DEFINE M == 1..MaxMessage
           N == 1..(MaxBlock + MaxCall)
<1>1. b \in [kind : {"thinking", "text", "toolCall", "toolResult"}, of : M, n : N, grown : {"part", "full", "silent"}]
      /\ b.kind \in {"thinking", "text"}
  BY DEF OfMessage, AnyBlock
<1> HIDE DEF M, N
<1>2. b \in [kind : {"thinking", "text", "toolCall"}, of : M, n : N, grown : {"part", "full", "silent"}]
  BY <1>1
<1>. QED BY <1>2 DEF Turn!Block, M, N

LEMMA OwnedMore ==
  ASSUME NEW q \in Seq(Entry), NEW e \in Entry, Owned(q), e.role = "assistant" => Has(e.content) \subseteq Turn!Block
  PROVE  Owned(Append(q, e))
  BY HasMore DEF Owned
LEMMA OwnedFront ==
  ASSUME NEW q \in Seq(Entry), Len(q) > 0, Owned(q)
  PROVE  Owned(Front(q))
<1> DEFINE p == Front(q)
           e == Last(q)
<1>1. q = Append(p, e) /\ p \in Seq(Entry) /\ e \in Entry
  BY LastOf
<1> HIDE DEF p, e
<1>2. Has(q) = Has(p) \cup {e}
  BY <1>1, HasMore
<1>3. Owned(p)
  BY <1>2 DEF Owned
<1>. QED BY <1>3 DEF p

LEMMA SpeakStep ==
  ASSUME NEW q, NEW r, NEW m, TurnInv(q, r, m), Speaks(m),
         NEW k, NEW c, NEW s, Spoken(k, c, s, m.n),
         NEW m2, m2 = SaysNow(m, k), NEW q2, q2 = Append(Front(q), EntryOf(c, s))
  PROVE  TurnInv(q2, r, m2)
<1> DEFINE e == EntryOf(c, s)
           p == Front(q)
<1>0. TurnTypes(q, r, m) /\ Owned(q) /\ Owned(r) /\ Dated(r, m) /\ ~m.over /\ Unanswered(q, r) /\ Speaking(q, r, m)
  BY DEF TurnInv, Speaks
<1>1. k \in Seq(AnyBlock) /\ c \in Seq(AnyBlock) /\ s \in {"", "stop"} /\ Has(c) \subseteq OfMessage(m.n)
  BY SpokenIs
<1>2. e \in Entry /\ e.role = "assistant" /\ e.content = c /\ e.stop = s
  <2>1. s \in Stops
    BY <1>1, Zenon DEF Stops
  <2>. QED BY <1>1, <2>1, EntryFits
<1>3. p \in Seq(Entry) /\ q \in Seq(Entry) /\ Len(q) > 0
  BY <1>0, LastOf DEF TurnTypes
<1>4. /\ m2 \in Messages /\ m2.content = k /\ m2.n = m.n /\ m2.calls = m.calls /\ m2.started = m.started
      /\ m2.ended = m.ended /\ m2.over = m.over
  <2>1. m \in Messages
    BY <1>0 DEF TurnTypes
  <2>. QED BY <1>1, <2>1, WithContent
<1> HIDE DEF e, p
<1>5. q2 = Append(p, e) /\ q2 \in Seq(Entry) /\ Front(q2) = p /\ Last(q2) = e /\ Len(q2) > 0
  <2>1. q2 = Append(p, e)
    BY DEF p, e
  <2>2. Front(q2) = p /\ Last(q2) = e /\ Len(q2) = Len(p) + 1
    BY <1>2, <1>3, <2>1, FrontLast
  <2>. QED BY <1>2, <1>3, <2>1, <2>2
<1>6. TurnTypes(q2, r, m2)
  BY <1>0, <1>2, <1>4, <1>5 DEF TurnTypes
<1>7. Owned(q2)
  <2>1. Owned(p)
    BY <1>0, <1>3, OwnedFront DEF p
  <2>2. Has(c) \subseteq Turn!Block
    BY <1>1, OwnBlocks
  <2>. QED BY <1>2, <1>3, <1>5, <2>1, <2>2, OwnedMore
<1>8. Dated(r, m2)
  BY <1>0, <1>4 DEF Dated, Ago, Speaks
<1>9. Unanswered(q2, r)
  BY <1>0, <1>5 DEF Unanswered, p
<1>10. Speaking(q2, r, m2)
  BY <1>0, <1>2, <1>4, <1>5 DEF Speaking, p
<1>11. m2.calls = 0 /\ ~m2.over
  BY <1>4 DEF Speaks
<1>. QED BY <1>0, <1>6, <1>7, <1>8, <1>9, <1>10, <1>11 DEF TurnInv

LEMMA HasIn == ASSUME NEW T, NEW q \in Seq(T), NEW b \in Has(q) PROVE b \in T
  BY DEF Has
LEMMA BothFit == ASSUME NEW T, NEW q \in Seq(T), NEW r \in Seq(T) PROVE q \o r \in Seq(T)
  OBVIOUS
LEMMA EntryIs ==
  ASSUME NEW e \in Entry
  PROVE  /\ e.role \in {"user", "assistant", "toolResult"} /\ e.content \in Seq(AnyBlock)
         /\ e.stop \in Stops /\ Has(e.content) \subseteq AnyBlock
<1> DEFINE C == Seq(AnyBlock)
<1>0. e \in [role : {"user", "assistant", "toolResult"}, content : C, stop : Stops]
  BY Zenon DEF Entry, Stops
<1> HIDE DEF C
<1>1. e.role \in {"user", "assistant", "toolResult"} /\ e.content \in C /\ e.stop \in Stops
  BY <1>0
<1>2. e.content \in Seq(AnyBlock)
  BY <1>1 DEF C
<1>3. Has(e.content) \subseteq AnyBlock
  BY <1>2, HasIn
<1>. QED BY <1>1, <1>2, <1>3
LEMMA OfIs == \A b \in AnyBlock : b.of \in 1..MaxMessage /\ b.of \in Nat
<1> SUFFICES ASSUME NEW b \in AnyBlock PROVE b.of \in 1..MaxMessage /\ b.of \in Nat
  OBVIOUS
<1> DEFINE M == 1..MaxMessage
           N == 1..(MaxBlock + MaxCall)
<1>1. b \in [kind : {"thinking", "text", "toolCall", "toolResult"}, of : M, n : N, grown : {"part", "full", "silent"}]
  BY DEF AnyBlock
<1> HIDE DEF M, N
<1>2. b.of \in M
  BY <1>1
<1>. QED BY <1>2 DEF M

LEMMA LostIn == ASSUME NEW m \in Seq(AnyBlock), NEW b \in Lost(m) PROVE b \in Has(m) /\ b.kind = "thinking"
<1>1. PICK i \in 1..Len(m) - 2 :
        m[i] = b /\ b.kind = "thinking" /\ m[i + 1].grown = "silent" /\ m[i + 2].kind = "thinking"
  BY DEF Lost
<1>2. i \in 1..Len(m)
  BY <1>1
<1>. QED BY <1>1, <1>2 DEF Has

LEMMA SilencedMore ==
  ASSUME NEW r \in Seq(Entry), NEW e \in Entry
  PROVE  Silenced(Append(r, e)) = IF e.role = "assistant" THEN Silenced(r) \cup Lost(e.content) ELSE Silenced(r)
<1>1. Has(Append(r, e)) = Has(r) \cup {e}
  BY HasMore
<1>2. Lost(e.content) \subseteq AnyBlock
  BY DEF Lost
<1>. QED BY <1>1, <1>2 DEF Silenced

LEMMA OneCallMore ==
  ASSUME NEW r \in Seq(Entry), NEW e \in Entry, OneCall(Append(r, e))
  PROVE  /\ OneCall(r)
         /\ e.role = "assistant" =>
              \A b, c \in Has(e.content) : b.kind = "toolCall" /\ c.kind = "toolCall" => b = c
  BY HasMore DEF OneCall

LEMMA SilencedAgo ==
  ASSUME NEW r \in Seq(Entry), NEW m, Dated(r, m), NEW b \in Silenced(r)
  PROVE  b \in AnyBlock /\ b.kind = "thinking" /\ Ago(b, m)
<1>1. PICK e \in Has(r) : e.role = "assistant" /\ b \in Lost(e.content)
  BY DEF Silenced
<1>2. e \in Entry /\ e.content \in Seq(AnyBlock)
  BY <1>1, HasIn, EntryIs
<1>3. b \in Has(e.content) /\ b.kind = "thinking"
  BY <1>1, <1>2, LostIn
<1>. QED BY <1>1, <1>3 DEF Dated, Silenced

LEMMA AlikeMore ==
  ASSUME NEW l \in Seq(AnyBlock), NEW p \in Seq(AnyBlock), NEW t \in Seq(AnyBlock), NEW one, NEW more, more => one,
         Alike(l, p, one)
  PROVE  Alike(l \o t, p \o t, more)
<1>1. Only(l \o t, Plain) = Only(l, Plain) \o Only(t, Plain) /\ Only(p \o t, Plain) = Only(p, Plain) \o Only(t, Plain)
  BY OnlyBoth
<1>2. Has(l \o t) = Has(l) \cup Has(t) /\ Has(p \o t) = Has(p) \cup Has(t)
  BY HasBoth
<1>. QED BY <1>1, <1>2 DEF Alike

Calls(n, k) == [i \in 1..k |-> Turn!Call(n, i)]
LEMMA CallIs ==
  ASSUME NEW n \in 1..MaxMessage, NEW i \in 1..MaxCall
  PROVE  /\ Turn!Call(n, i) \in AnyBlock /\ Turn!Call(n, i) \in Turn!Block /\ Turn!Call(n, i) \in Plain
         /\ Turn!Call(n, i).kind = "toolCall" /\ Turn!Call(n, i).of = n /\ Turn!Call(n, i).grown = "full"
         /\ Turn!Call(n, i).n = MaxBlock + i
<1>1. MaxBlock \in Nat /\ MaxCall \in Nat
  BY TabAssumption
<1>2. MaxBlock + i \in 1..(MaxBlock + MaxCall)
  BY <1>1
<1> DEFINE N == 1..(MaxBlock + MaxCall)
           M == 1..MaxMessage
           v == MaxBlock + i
<1>3. n \in M /\ v \in N
  BY <1>2
<1> HIDE DEF N, M, v
<1> DEFINE c == [kind |-> "toolCall", of |-> n, n |-> v, grown |-> "full"]
<1>4. /\ c \in [kind : {"thinking", "text", "toolCall", "toolResult"}, of : M, n : N, grown : {"part", "full", "silent"}]
      /\ c \in [kind : {"thinking", "text", "toolCall"}, of : M, n : N, grown : {"part", "full", "silent"}]
      /\ c.kind = "toolCall" /\ c.of = n /\ c.n = v /\ c.grown = "full"
  BY <1>3
<1>5. Turn!Call(n, i) = c
  BY DEF Turn!Call, v
<1> HIDE DEF c
<1>6. c \in AnyBlock /\ c \in Turn!Block
  BY <1>4 DEF AnyBlock, Turn!Block, M, N
<1>. QED BY <1>4, <1>5, <1>6 DEF Plain, v

LEMMA CallsAre ==
  ASSUME NEW n \in 1..MaxMessage, NEW k \in 0..MaxCall
  PROVE  /\ Calls(n, k) \in Seq(AnyBlock) /\ Len(Calls(n, k)) = k
         /\ \A b \in Has(Calls(n, k)) : /\ b \in Turn!Block /\ b \in Plain /\ b.kind = "toolCall" /\ b.of = n
                                        /\ b.grown = "full"
         /\ \A i \in 1..k : Turn!Call(n, i) \in Has(Calls(n, k))
<1>0. MaxCall \in Nat /\ k \in Nat /\ k <= MaxCall
  BY TabAssumption
<1>1. \A i \in 1..k : i \in 1..MaxCall
  BY <1>0
<1>2. \A i \in 1..k : Turn!Call(n, i) \in AnyBlock
  BY <1>1, CallIs
<1> DEFINE q == Calls(n, k)
<1>3. q \in Seq(AnyBlock) /\ Len(q) = k /\ \A i \in 1..k : q[i] = Turn!Call(n, i)
  BY <1>0, <1>2 DEF Calls
<1> HIDE DEF q
<1>4. ASSUME NEW b \in Has(q)
      PROVE  b \in Turn!Block /\ b \in Plain /\ b.kind = "toolCall" /\ b.of = n /\ b.grown = "full"
  <2>1. PICK i \in 1..k : b = Turn!Call(n, i)
    BY <1>3 DEF Has
  <2>. QED BY <1>1, <2>1, CallIs
<1>5. \A i \in 1..k : Turn!Call(n, i) \in Has(q)
  BY <1>3 DEF Has
<1>. QED BY <1>3, <1>4, <1>5 DEF q

\* The entry a message is saved as.  What is saved is told as it was shown.
Saves(m, k, s) == EntryOf(m.content \o k, s)
SavedAs(q, r, m, k, s, e) ==
    /\ Only(Turn!Group(r).steps, Heard(Append(r, e))) = Told(r)
    /\ e \in Entry /\ e.role = "assistant" /\ e.stop = s /\ e.content = m.content \o k
    /\ Only(e.content, Heard(Append(r, e))) = Last(q).content \o k
    /\ Only(m.content, Heard(Append(r, e))) = Last(q).content
LEMMA SavedIs ==
  ASSUME NEW q, NEW r, NEW m, TurnInv(q, r, m), Speaks(m),
         NEW k \in Seq(AnyBlock), \A b \in Has(k) : b.kind = "toolCall" /\ b.grown = "full",
         NEW s \in Stops, NEW e, e = Saves(m, k, s)
  PROVE  SavedAs(q, r, m, k, s, e)
<1> DEFINE H == Heard(Append(r, e))
           c == m.content
           n == m.n
           steps == Turn!Group(r).steps
<1>0. /\ r \in Seq(Entry) /\ m \in Messages /\ Dated(r, m) /\ Spoken(c, Last(q).content, Last(q).stop, n)
  BY DEF TurnInv, TurnTypes, Speaking
<1>1. c \in Seq(AnyBlock) /\ Has(c) \subseteq OfMessage(n)
  BY <1>0, SpokenIs
<1>2. c \o k \in Seq(AnyBlock)
  BY <1>1, BothFit
<1>3. e \in Entry /\ e.role = "assistant" /\ e.content = c \o k /\ e.stop = s
  BY <1>2, EntryFits DEF Saves
<1>4. Silenced(Append(r, e)) = Silenced(r) \cup Lost(c)
  <2>1. Lost(c \o k) = Lost(c)
    BY <1>1, LostMore
  <2>. QED BY <1>0, <1>3, <2>1, SilencedMore
<1>5. \A b \in AnyBlock : b \in H <=> b.grown # "silent" /\ b \notin Silenced(r) /\ b \notin Lost(c)
  BY <1>4 DEF Heard
<1>n. n \in Nat /\ \A b \in AnyBlock : b.of \in Nat
  <2>1. n \in 1..MaxMessage
    BY <1>0, MessageIs
  <2>2. n \in Nat
    BY <2>1, TabAssumption
  <2>3. \A b \in AnyBlock : b.of \in Nat
    BY OfIs
  <2> HIDE DEF n
  <2>. QED BY <2>2, <2>3
<1>8. steps \in Seq(AnyBlock)
  BY <1>0, GroupIs
<1>a. \A b : Ago(b, m) => b.of < n
  BY DEF Ago
<1>b. /\ Has(steps) \subseteq AnyBlock /\ \A b \in Has(steps) : Ago(b, m)
  BY <1>0, <1>8, HasIn DEF Dated
<1> HIDE DEF H, c, n, steps
<1>6. \A b \in Silenced(r) : b.of < n /\ b.kind = "thinking"
  BY <1>0, <1>a, SilencedAgo
<1>7. \A b \in Lost(c) : b.of = n /\ b.kind = "thinking"
  BY <1>1, LostIn DEF OfMessage
<1>9. Only(steps, H) = Told(r)
  <2>1. \A b \in Has(steps) : b \in AnyBlock /\ b.of < n /\ b \notin Lost(c)
    <3> SUFFICES ASSUME NEW b \in Has(steps) PROVE b \in AnyBlock /\ b.of < n /\ b \notin Lost(c)
      OBVIOUS
    <3>1. b \in AnyBlock /\ b.of < n
      BY <1>a, <1>b
    <3>2. b.of # n
      BY <1>n, <3>1
    <3>. QED BY <1>7, <3>1, <3>2
  <2>2. \A b \in Has(steps) : b \in H <=> b \in Heard(r)
    BY <1>5, <2>1 DEF Heard
  <2> DEFINE K == Heard(r)
  <2> HIDE DEF K
  <2>3. Only(steps, H) = Only(steps, K)
    BY <1>8, <2>2, OnlySame DEF K
  <2>. QED BY <2>3 DEF Told, steps, K
<1>10. Only(c, H) = Last(q).content
  <2>1. \A b \in Has(c) : b \in AnyBlock /\ b.of = n /\ b \notin Silenced(r)
    <3> SUFFICES ASSUME NEW b \in Has(c) PROVE b \in AnyBlock /\ b.of = n /\ b \notin Silenced(r)
      OBVIOUS
    <3>1. b \in AnyBlock /\ b.of = n
      BY <1>1 DEF OfMessage
    <3>2. ~(b.of < n)
      BY <1>n, <3>1
    <3>. QED BY <1>6, <3>1, <3>2
  <2>2. \A b \in Has(c) : b \in H <=> b \in Heeded(c)
    BY <1>5, <2>1 DEF Heeded
  <2> DEFINE K == Heeded(c)
  <2> HIDE DEF K
  <2>3. Only(c, H) = Only(c, K)
    BY <1>1, <2>2, OnlySame DEF K
  <2>. QED BY <1>0, <2>3, ShowsKept DEF K
<1>11. Only(k, H) = k
  <2>0. Has(k) \subseteq AnyBlock
    BY HasIn
  <2>1. Has(k) \subseteq H
    BY <1>5, <1>6, <1>7, <2>0
  <2>. QED BY <2>1, OnlyAll
<1>12. Only(c \o k, H) = Only(c, H) \o Only(k, H)
  BY <1>1, OnlyBoth
<1>. QED BY <1>3, <1>9, <1>10, <1>11, <1>12 DEF SavedAs, H, c, steps

\* The invariant before a message is saved
LEMMA SpeakingIs ==
  ASSUME NEW q, NEW r, NEW m, TurnInv(q, r, m), Speaks(m)
  PROVE  /\ q \in Seq(Entry) /\ Len(q) > 0 /\ Last(q).role = "assistant" /\ r \in Seq(Entry) /\ m \in Messages
         /\ Owned(q) /\ Owned(r) /\ Dated(r, m) /\ Unanswered(q, r) /\ Speaking(q, r, m)
         /\ m.calls = 0 /\ m.started = 0 /\ m.ended = {} /\ m.over = FALSE
         /\ m.n \in 1..MaxMessage /\ m.n \in Nat /\ m.content \in Seq(AnyBlock)
         /\ q = Append(Front(q), Last(q)) /\ Front(q) \in Seq(Entry) /\ Last(q) \in Entry
<1>1. /\ TurnTypes(q, r, m) /\ Owned(q) /\ Owned(r) /\ Dated(r, m) /\ Unanswered(q, r) /\ Speaking(q, r, m)
      /\ m.calls = 0 /\ ~m.over
  BY DEF TurnInv, Speaks
<1>2. /\ q \in Seq(Entry) /\ Len(q) > 0 /\ Last(q).role = "assistant" /\ r \in Seq(Entry) /\ m \in Messages
      /\ m.ended \subseteq 1..m.started /\ m.started <= m.calls
  BY <1>1 DEF TurnTypes
<1>3. /\ m.n \in 1..MaxMessage /\ m.content \in Seq(AnyBlock) /\ m.started \in 0..MaxCall /\ m.over \in BOOLEAN
  BY <1>2, MessageIs
<1>4. m.n \in Nat /\ m.started \in Nat
  BY <1>3, TabAssumption
<1>5. m.started = 0
  BY <1>1, <1>2, <1>4
<1>6. m.ended = {}
  <2>1. 1..0 = {}
    OBVIOUS
  <2>. QED BY <1>2, <1>5, <2>1
<1>7. m.over = FALSE
  BY <1>1, <1>3
<1>8. q = Append(Front(q), Last(q)) /\ Front(q) \in Seq(Entry) /\ Last(q) \in Entry
  BY <1>2, LastOf
<1>. QED BY <1>1, <1>2, <1>3, <1>4, <1>5, <1>6, <1>7, <1>8

LEMMA AnswersAre ==
  ASSUME NEW m, NEW c, NEW s, NEW n, Spoken(m, c, s, n)
  PROVE  /\ m \in Seq(AnyBlock) /\ c \in Seq(AnyBlock) /\ s \in Stops /\ s # "toolUse"
         /\ Has(m) \subseteq OfMessage(n) /\ Has(c) \subseteq OfMessage(n)
         /\ Said(Only(m, Texts)) = Said(Only(c, Texts))
         /\ s # "stop" => Only(m, Texts) = <<>> /\ Only(c, Texts) = <<>>
<1>1. /\ m \in Seq(AnyBlock) /\ c \in Seq(AnyBlock) /\ Has(m) \subseteq OfMessage(n) /\ Has(c) \subseteq OfMessage(n)
  BY SpokenIs, Zenon
<1>2. s = "" \/ s = "stop"
  BY SpokenIs, Zenon
<1>3. s \in Stops /\ s # "toolUse"
  BY <1>2, Zenon DEF Stops
<1>4. Said(Only(m, Texts)) = Said(Only(c, Texts))
  BY Answers, Zenon
<1>5. s # "stop" => Only(m, Texts) = <<>> /\ Only(c, Texts) = <<>>
  BY <1>2, Answers, Zenon
<1>. QED BY <1>1, <1>3, <1>4, <1>5, Zenon

\* What a message that is over or calls tools says is of a message that was.
LEMMA DatedMore ==
  ASSUME NEW r \in Seq(Entry), NEW e \in Entry, NEW m, NEW m2, m2.n = m.n, Speaks(m), ~Speaks(m2), Dated(r, m),
         e.role = "assistant", \A b \in Has(e.content) : b.of = m.n,
         NEW t \in Seq(AnyBlock), Turn!Group(Append(r, e)).steps = Turn!Group(r).steps \o t, Has(t) \subseteq Has(e.content)
  PROVE  Dated(Append(r, e), m2)
<1>1. Has(Append(r, e)) = Has(r) \cup {e}
  BY HasMore
<1>2. Turn!Group(r).steps \in Seq(AnyBlock)
  BY GroupIs
<1>3. Has(Turn!Group(Append(r, e)).steps) = Has(Turn!Group(r).steps) \cup Has(t)
  BY <1>2, HasBoth
<1>4. \A b : Ago(b, m) \/ b.of = m.n => Ago(b, m2)
  BY DEF Ago
<1>5. \A d \in Has(Append(r, e)) : d.role = "assistant" => \A b \in Has(d.content) : Ago(b, m2)
  BY <1>1, <1>4 DEF Dated
<1>6. \A b \in Has(Turn!Group(Append(r, e)).steps) : Ago(b, m2)
  BY <1>3, <1>4 DEF Dated
<1>. QED BY <1>5, <1>6 DEF Dated

LEMMA CallStep ==
  ASSUME NEW q, NEW r, NEW m, TurnInv(q, r, m), Speaks(m), m.n < MaxMessage, NEW k \in 1..MaxCall,
         NEW m2, m2 = CallsNow(m, k), NEW e, e = Saves(m, Calls(m.n, k), "toolUse"), NEW r2, r2 = Append(r, e)
  PROVE  TurnInv(q, r2, m2)
<1> DEFINE K == Calls(m.n, k)
           G == Turn!Group(Front(q)).steps
           R == Turn!Group(r).steps
           c == Last(q).content
           H == Heard(r2)
<1>1. /\ q \in Seq(Entry) /\ Len(q) > 0 /\ Last(q).role = "assistant" /\ r \in Seq(Entry) /\ m \in Messages
      /\ Owned(q) /\ Owned(r) /\ Dated(r, m) /\ Unanswered(q, r) /\ Speaking(q, r, m)
      /\ m.calls = 0 /\ m.started = 0 /\ m.ended = {} /\ m.over = FALSE
      /\ m.n \in 1..MaxMessage /\ m.n \in Nat /\ m.content \in Seq(AnyBlock)
      /\ q = Append(Front(q), Last(q)) /\ Front(q) \in Seq(Entry) /\ Last(q) \in Entry
  BY SpeakingIs
<1>2. k \in 0..MaxCall /\ k \in Nat /\ k > 0
  BY TabAssumption
<1>3. /\ m2 \in Messages /\ m2.calls = k /\ m2.n = m.n /\ m2.content = m.content /\ m2.started = 0 /\ m2.ended = {}
      /\ m2.over = FALSE
  BY <1>1, <1>2, WithCalls
<1>4. /\ K \in Seq(AnyBlock)
      /\ \A b \in Has(K) : b \in Turn!Block /\ b \in Plain /\ b.kind = "toolCall" /\ b.of = m.n /\ b.grown = "full"
      /\ \A i \in 1..k : Turn!Call(m.n, i) \in Has(K)
  BY <1>1, <1>2, CallsAre
<1>t. "toolUse" \in Stops
  BY Zenon DEF Stops
<1> HIDE DEF K
<1>5. /\ e \in Entry /\ e.role = "assistant" /\ e.stop = "toolUse" /\ e.content = m.content \o K
      /\ Only(R, H) = Told(r) /\ Only(e.content, H) = c \o K
  <2>1. \A b \in Has(K) : b.kind = "toolCall" /\ b.grown = "full"
    BY <1>4
  <2>2. e = Saves(m, K, "toolUse")
    BY DEF K
  <2>3. SavedAs(q, r, m, K, "toolUse", e)
    BY <1>4, <1>t, <2>1, <2>2, SavedIs, Zenon
  <2>. QED BY <2>3 DEF SavedAs
<1>6. G \in Seq(AnyBlock) /\ R \in Seq(AnyBlock) /\ c \in Seq(AnyBlock)
  BY <1>1, GroupIs, EntryIs
<1>7. Turn!Group(r2).steps = R \o e.content /\ Turn!Group(r2).result = <<>>
  <2>1. Turn!Group(r2).steps = R \o e.content /\ Turn!Group(r2).result = Said(Turn!Group(r).result)
    BY <1>1, <1>5, GroupSaid
  <2>2. Turn!Group(r).result = <<>> /\ Said(<<>>) = <<>>
    BY <1>1 DEF Unanswered, Said
  <2>. QED BY <2>1, <2>2
<1>8. Has(e.content) = Has(m.content) \cup Has(K) /\ Has(m.content) \subseteq OfMessage(m.n) /\ e.content \in Seq(AnyBlock)
  <2>1. Has(m.content) \subseteq OfMessage(m.n)
    BY <1>1, AnswersAre DEF Speaking
  <2>2. Has(m.content \o K) = Has(m.content) \cup Has(K)
    BY <1>1, <1>4, HasBoth
  <2>. QED BY <1>5, <2>1, <2>2, EntryIs
<1>9. TurnTypes(q, r2, m2)
  <2>1. r2 \in Seq(Entry)
    BY <1>1, <1>5
  <2>. QED BY <1>1, <1>2, <1>3, <2>1 DEF TurnTypes
<1>10. Owned(r2)
  <2>1. Has(e.content) \subseteq Turn!Block
    BY <1>4, <1>8, OwnBlocks
  <2>. QED BY <1>1, <1>5, <2>1, OwnedMore
<1>11. Dated(r2, m2)
  <2>1. \A b \in Has(e.content) : b.of = m.n
    BY <1>4, <1>8 DEF OfMessage
  <2>2. ~Speaks(m2)
    BY <1>2, <1>3 DEF Speaks
  <2>. QED BY <1>1, <1>3, <1>5, <1>7, <1>8, <2>1, <2>2, DatedMore
<1>12. Unanswered(q, r2)
  BY <1>1, <1>7 DEF Unanswered
<1>13. Calling(q, r2, m2)
  <2>1. Rest(m2) = K
    BY <1>2, <1>3 DEF Rest, Calls, K
  <2>2. Live(q) = G \o c
    BY DEF Live
  <2>3. Told(r2) = Told(r) \o (c \o K)
    <3>1. Told(r2) = Only(R \o e.content, H)
      BY <1>7 DEF Told
    <3> HIDE DEF H, R, c
    <3>2. Only(R \o e.content, H) = Only(R, H) \o Only(e.content, H)
      BY <1>6, <1>8, OnlyBoth
    <3>. QED BY <1>5, <3>1, <3>2
  <2>4. Told(r) \in Seq(AnyBlock) /\ c \o K \in Seq(AnyBlock)
    BY <1>4, <1>6, OnlyFits, BothFit DEF Told
  <2> HIDE DEF G, R, c, H
  <2>5. Live(q) \o Rest(m2) = G \o (c \o K)
    BY <1>4, <1>6, <2>1, <2>2, ConcatAssociative
  <2>6. Alike(G, Told(r), OneCall(r)) /\ (OneCall(r2) => OneCall(r))
    BY <1>1, <1>5, OneCallMore DEF Speaking, G
  <2>7. Alike(Live(q) \o Rest(m2), Told(r2), OneCall(r2))
    <3>1. Alike(G \o (c \o K), Told(r) \o (c \o K), OneCall(r2))
      BY <1>6, <2>4, <2>6, AlikeMore
    <3>. QED BY <2>3, <2>5, <3>1
  <2>8. Has(Live(q) \o Rest(m2)) = Has(Live(q)) \cup Has(Rest(m2))
    <3>1. Live(q) \in Seq(AnyBlock) /\ Rest(m2) \in Seq(AnyBlock)
      BY <1>4, <1>6, <2>1, <2>2, BothFit
    <3>. QED BY <3>1, HasBoth
  <2>9. Results(m2) = {}
    BY <1>3 DEF Results
  <2>10. OneCall(r2) => m2.calls = 1
    <3> SUFFICES ASSUME OneCall(r2), k # 1 PROVE FALSE
      BY <1>3
    <3>1. 1 \in 1..k /\ 2 \in 1..k /\ 1 \in 1..MaxCall /\ 2 \in 1..MaxCall
      BY <1>2, TabAssumption
    <3> DEFINE a == Turn!Call(m.n, 1)
               b == Turn!Call(m.n, 2)
    <3>2. a \in Has(e.content) /\ b \in Has(e.content)
      BY <1>4, <1>8, <3>1
    <3>3. a.kind = "toolCall" /\ b.kind = "toolCall" /\ a.n = MaxBlock + 1 /\ b.n = MaxBlock + 2
      BY <1>1, <3>1, CallIs
    <3> HIDE DEF a, b
    <3>4. a = b
      BY <1>1, <1>5, <3>2, <3>3, OneCallMore
    <3>. QED BY <3>3, <3>4, TabAssumption
  <2>. QED BY <1>3, <2>7, <2>8, <2>9, <2>10 DEF Calling, Alike
<1>14. ~Speaks(m2) /\ ~m2.over
  BY <1>2, <1>3 DEF Speaks
<1>. QED BY <1>1, <1>9, <1>10, <1>11, <1>12, <1>13, <1>14 DEF TurnInv

LEMMA FinishStep ==
  ASSUME NEW q, NEW r, NEW m, TurnInv(q, r, m), Speaks(m),
         NEW m2, m2 = OverNow(m), NEW e, e = Saves(m, <<>>, "stop"), NEW r2, r2 = Append(r, e)
  PROVE  TurnInv(q, r2, m2)
<1> DEFINE p == Front(q)
           l == Last(q)
           G == Turn!Group(p).steps
           R == Turn!Group(r).steps
           c == l.content
           k == m.content
           H == Heard(Append(r, e))
           N == AnyBlock \ Texts
<1>1. /\ q \in Seq(Entry) /\ Len(q) > 0 /\ Last(q).role = "assistant" /\ r \in Seq(Entry) /\ m \in Messages
      /\ Owned(q) /\ Owned(r) /\ Dated(r, m) /\ Unanswered(q, r) /\ Speaking(q, r, m)
      /\ m.calls = 0 /\ m.started = 0 /\ m.ended = {} /\ m.over = FALSE
      /\ m.n \in 1..MaxMessage /\ m.n \in Nat /\ k \in Seq(AnyBlock)
      /\ q = Append(p, l) /\ p \in Seq(Entry) /\ l \in Entry
  BY SpeakingIs
<1>2. /\ m2 \in Messages /\ m2.calls = 0 /\ m2.n = m.n /\ m2.content = m.content /\ m2.started = 0 /\ m2.ended = {}
      /\ m2.over = TRUE
  BY <1>1, WithOver
<1>t. "stop" \in Stops
  BY Zenon DEF Stops
<1>3. /\ e \in Entry /\ e.role = "assistant" /\ e.stop = "stop" /\ e.content = k
      /\ Only(R, H) = Told(r) /\ Only(k, H) = c
  <2>1. <<>> \in Seq(AnyBlock) /\ \A b \in Has(<<>>) : b.kind = "toolCall" /\ b.grown = "full"
    BY DEF Has
  <2>2. SavedAs(q, r, m, <<>>, "stop", e)
    BY <1>t, <2>1, SavedIs, Zenon
  <2>3. k \o <<>> = k
    BY <1>1
  <2>. QED BY <2>2, <2>3, Zenon DEF SavedAs
<1>4. G \in Seq(AnyBlock) /\ R \in Seq(AnyBlock) /\ c \in Seq(AnyBlock) /\ l.role = "assistant" /\ l.stop \in Stops
  BY <1>1, GroupIs, EntryIs
<1>u. Turn!Group(p).result = <<>> /\ Turn!Group(r).result = <<>>
  BY <1>1 DEF Unanswered
<1>a. /\ Has(k) \subseteq OfMessage(m.n) /\ Said(Only(k, Texts)) = Said(Only(c, Texts))
      /\ l.stop # "stop" => Only(c, Texts) = <<>>
  BY <1>1, AnswersAre, Zenon DEF Speaking
<1>b. Alike(G, Told(r), OneCall(r))
  BY <1>1 DEF Speaking
<1>n. /\ Said(<<>>) = <<>> /\ \A z \in Seq(AnyBlock) : <<>> \o z = z
  BY DEF Said
<1>m. /\ \A z \in Seq(AnyBlock) : Only(z, Texts) \in Seq(AnyBlock)
      /\ \A z \in Seq(AnyBlock) : Only(z, N) \in Seq(AnyBlock)
  BY OnlyFits
<1> HIDE DEF p, l, G, R, c, k, H, N
<1>5. Turn!Group(q).steps = G \o Only(c, N) /\ Turn!Group(q).result = Said(Only(c, Texts))
  <2>1. CASE l.stop = "stop"
    <3>1. /\ Turn!Group(Append(p, l)).steps = Turn!Group(p).steps \o Only(l.content, N)
          /\ Turn!Group(Append(p, l)).result = Said(Turn!Group(p).result \o Only(l.content, Texts))
      BY <1>1, <1>4, <2>1, GroupFinal DEF N
    <3>2. <<>> \o Only(c, Texts) = Only(c, Texts)
      BY <1>4, <1>m, <1>n
    <3>. QED BY <1>1, <1>u, <3>1, <3>2 DEF G, c
  <2>2. CASE l.stop # "stop"
    <3>1. /\ Turn!Group(Append(p, l)).steps = Turn!Group(p).steps \o l.content
          /\ Turn!Group(Append(p, l)).result = Said(Turn!Group(p).result)
      BY <1>1, <1>4, <2>2, GroupSaid
    <3>2. Only(c, Texts) = <<>>
      BY <1>a, <2>2
    <3>3. Has(c) \cap Texts = {}
      <4>1. Has(Only(c, Texts)) = Has(c) \cap Texts
        BY <1>4, OnlyHas
      <4>2. Has(<<>>) = {}
        BY DEF Has
      <4>. QED BY <3>2, <4>1, <4>2
    <3>4. Has(c) \subseteq N
      <4>1. Has(c) \subseteq AnyBlock
        BY <1>4, HasIn
      <4>. QED BY <3>3, <4>1 DEF N
    <3>5. Only(c, N) = c
      BY <1>4, <3>4, OnlyAll
    <3>. QED BY <1>1, <1>u, <1>n, <3>1, <3>2, <3>5 DEF G, c
  <2>. QED BY <2>1, <2>2
<1>6. Turn!Group(r2).steps = R \o Only(k, N) /\ Turn!Group(r2).result = Said(Only(c, Texts))
  <2>1. /\ Turn!Group(Append(r, e)).steps = Turn!Group(r).steps \o Only(e.content, N)
        /\ Turn!Group(Append(r, e)).result = Said(Turn!Group(r).result \o Only(e.content, Texts))
    BY <1>1, <1>3, GroupFinal DEF N
  <2>2. <<>> \o Only(k, Texts) = Only(k, Texts)
    BY <1>1, <1>m, <1>n
  <2>. QED BY <1>3, <1>u, <1>a, <2>1, <2>2 DEF R
<1>7. Told(r2) = Told(r) \o Only(c, N)
  <2>1. Told(r2) = Only(R \o Only(k, N), H)
    BY <1>6 DEF Told, H
  <2>2. Only(R \o Only(k, N), H) = Only(R, H) \o Only(Only(k, N), H)
    <3> DEFINE t == Only(k, N)
    <3>1. t \in Seq(AnyBlock)
      BY <1>1, <1>m
    <3> HIDE DEF t
    <3>2. Only(R \o t, H) = Only(R, H) \o Only(t, H)
      BY <1>4, <3>1, OnlyBoth
    <3>. QED BY <3>2 DEF t
  <2>3. Only(Only(k, N), H) = Only(k, N \cap H) /\ Only(Only(k, H), N) = Only(k, H \cap N)
    BY <1>1, OnlyTwice
  <2>4. N \cap H = H \cap N
    OBVIOUS
  <2>. QED BY <1>3, <2>1, <2>2, <2>3, <2>4
<1>8. Over(q, r2)
  <2>1. OneCall(r2) => OneCall(r)
    BY <1>1, <1>3, OneCallMore
  <2>2. Told(r) \in Seq(AnyBlock)
    BY <1>4, OnlyFits DEF Told, R
  <2>3. Alike(G \o Only(c, N), Told(r) \o Only(c, N), OneCall(r2))
    BY <1>4, <1>b, <1>m, <2>1, <2>2, AlikeMore
  <2>. QED BY <1>5, <1>6, <1>7, <2>3 DEF Over
<1>9. TurnTypes(q, r2, m2)
  <2>1. r2 \in Seq(Entry)
    BY <1>1, <1>3
  <2>. QED BY <1>1, <1>2, <2>1 DEF TurnTypes
<1>10. Owned(r2)
  <2>1. Has(e.content) \subseteq Turn!Block
    BY <1>3, <1>a, OwnBlocks
  <2>. QED BY <1>1, <1>3, <2>1, OwnedMore
<1>11. Dated(r2, m2)
  <2>1. \A b \in Has(e.content) : b.of = m.n
    BY <1>3, <1>a DEF OfMessage
  <2>2. ~Speaks(m2)
    BY <1>2 DEF Speaks
  <2> DEFINE t == Only(k, N)
  <2>3. Has(t) \subseteq Has(e.content) /\ t \in Seq(AnyBlock)
    BY <1>1, <1>3, OnlyHas
  <2> HIDE DEF t
  <2>4. Turn!Group(Append(r, e)).steps = Turn!Group(r).steps \o t
    BY <1>6 DEF t, R
  <2>. QED BY <1>1, <1>2, <1>3, <2>1, <2>2, <2>3, <2>4, DatedMore
<1>12. ~Speaks(m2) /\ ~(m2.calls > 0)
  BY <1>2 DEF Speaks
<1>. QED BY <1>1, <1>2, <1>8, <1>9, <1>10, <1>11, <1>12 DEF TurnInv

\* The invariant while tools are called
LEMMA CallingIs ==
  ASSUME NEW q, NEW r, NEW m, TurnInv(q, r, m), m.calls > 0
  PROVE  /\ q \in Seq(Entry) /\ Len(q) > 0 /\ Last(q).role = "assistant" /\ r \in Seq(Entry) /\ m \in Messages
         /\ Owned(q) /\ Owned(r) /\ Dated(r, m) /\ Unanswered(q, r) /\ Calling(q, r, m)
         /\ m.over = FALSE /\ m.calls \in 1..MaxCall /\ m.started \in 0..m.calls /\ m.ended \subseteq 1..m.started
         /\ m.n \in 1..MaxMessage /\ m.n \in Nat /\ m.n < MaxMessage /\ m.content \in Seq(AnyBlock)
         /\ q = Append(Front(q), Last(q)) /\ Front(q) \in Seq(Entry) /\ Last(q) \in Entry
<1>1. /\ TurnTypes(q, r, m) /\ Owned(q) /\ Owned(r) /\ Dated(r, m) /\ Calling(q, r, m)
      /\ ~m.over => Unanswered(q, r)
  BY DEF TurnInv
<1>2. /\ q \in Seq(Entry) /\ Len(q) > 0 /\ Last(q).role = "assistant" /\ r \in Seq(Entry) /\ m \in Messages
      /\ m.ended \subseteq 1..m.started /\ m.started <= m.calls /\ (m.over => m.calls = 0) /\ m.n < MaxMessage
  BY <1>1 DEF TurnTypes
<1>3. /\ m.n \in 1..MaxMessage /\ m.content \in Seq(AnyBlock) /\ m.started \in 0..MaxCall /\ m.over \in BOOLEAN
      /\ m.calls \in 0..MaxCall
  BY <1>2, MessageIs
<1>4. m.n \in Nat /\ m.started \in Nat /\ m.calls \in 1..MaxCall /\ m.started \in 0..m.calls
  BY <1>2, <1>3, TabAssumption
<1>5. m.over = FALSE
  BY <1>2, <1>3, <1>4
<1>8. q = Append(Front(q), Last(q)) /\ Front(q) \in Seq(Entry) /\ Last(q) \in Entry
  BY <1>2, LastOf
<1>. QED BY <1>1, <1>2, <1>3, <1>4, <1>5, <1>8

LEMMA RestIs ==
  ASSUME NEW m, m.n \in 1..MaxMessage, m.calls \in 1..MaxCall, m.started \in 0..m.calls
  PROVE  /\ Rest(m) \in Seq(AnyBlock) /\ Len(Rest(m)) = m.calls - m.started
         /\ \A i \in 1..m.calls - m.started : Rest(m)[i] = Turn!Call(m.n, m.started + i)
<1> DEFINE N == m.calls - m.started
<1>1. N \in Nat /\ \A i \in 1..N : m.started + i \in 1..MaxCall
  BY TabAssumption
<1>2. \A i \in 1..N : Turn!Call(m.n, m.started + i) \in AnyBlock
  BY <1>1, CallIs
<1>. QED BY <1>1, <1>2 DEF Rest

LEMMA RestLess ==
  ASSUME NEW m, m.n \in 1..MaxMessage, m.calls \in 1..MaxCall, m.started \in 0..m.calls, m.started < m.calls,
         NEW w, w.n = m.n, w.calls = m.calls, w.started = m.started + 1
  PROVE  Rest(m) = <<Turn!Call(m.n, m.started + 1)>> \o Rest(w) /\ Rest(w) \in Seq(AnyBlock)
         /\ Turn!Call(m.n, m.started + 1) \in AnyBlock
<1> DEFINE b == Turn!Call(m.n, m.started + 1)
           a == Rest(m)
           d == Rest(w)
           N == m.calls - m.started
<1>0. m.started \in Nat /\ m.calls \in Nat /\ N \in Nat /\ N > 0 /\ m.started + 1 \in 1..MaxCall /\ m.started + 1 \in 0..m.calls
  BY TabAssumption
<1>1. a \in Seq(AnyBlock) /\ Len(a) = N /\ \A i \in 1..N : a[i] = Turn!Call(m.n, m.started + i)
  BY RestIs
<1>2. d \in Seq(AnyBlock) /\ Len(d) = N - 1 /\ \A i \in 1..N - 1 : d[i] = Turn!Call(m.n, m.started + 1 + i)
  <2>1. w.n \in 1..MaxMessage /\ w.calls \in 1..MaxCall /\ w.started \in 0..w.calls
    BY <1>0
  <2>2. d \in Seq(AnyBlock) /\ Len(d) = w.calls - w.started /\ \A i \in 1..w.calls - w.started : d[i] = Turn!Call(w.n, w.started + i)
    BY <2>1, RestIs
  <2>3. w.calls - w.started = N - 1
    BY <1>0
  <2> HIDE DEF d, N
  <2>. QED BY <2>2, <2>3
<1>3. b \in AnyBlock
  BY <1>0, CallIs
<1> HIDE DEF a, b, d, N
<1>4. a[1] = b
  BY <1>0, <1>1 DEF b
<1>5. \A i \in 1..N - 1 : a[i + 1] = d[i]
  <2> SUFFICES ASSUME NEW i \in 1..N - 1 PROVE a[i + 1] = d[i]
    OBVIOUS
  <2>1. i + 1 \in 1..N /\ m.started + (i + 1) = m.started + 1 + i
    BY <1>0
  <2>2. a[i + 1] = Turn!Call(m.n, m.started + (i + 1))
    BY <1>1, <2>1
  <2>. QED BY <1>2, <2>1, <2>2
<1> DEFINE z == <<b>> \o d
<1>6. z \in Seq(AnyBlock) /\ Len(z) = N /\ z[1] = b /\ \A i \in 1..N : i > 1 => z[i] = d[i - 1]
  BY <1>0, <1>2, <1>3
<1>7. \A i \in 1..N : z[i] = a[i]
  <2> SUFFICES ASSUME NEW i \in 1..N PROVE z[i] = a[i]
    OBVIOUS
  <2> HIDE DEF z
  <2>1. CASE i = 1
    BY <1>4, <1>6, <2>1
  <2>2. CASE i # 1
    <3>1. i - 1 \in 1..N - 1 /\ (i - 1) + 1 = i /\ i > 1
      BY <1>0, <2>2
    <3>. QED BY <1>5, <1>6, <3>1
  <2>. QED BY <2>1, <2>2
<1> HIDE DEF z
<1>8. z = a
  BY <1>1, <1>6, <1>7, <1>0
<1>. QED BY <1>2, <1>3, <1>8 DEF a, b, d, z

LEMMA StartStep ==
  ASSUME NEW q, NEW r, NEW m, TurnInv(q, r, m), m.calls > 0, m.started < m.calls,
         NEW b, b = Turn!Call(m.n, m.started + 1),
         NEW m2, m2 = StartedNow(m, m.started + 1),
         NEW q2, q2 = Append(Front(q), EntryOf(Append(Last(q).content, b), "toolUse"))
  PROVE  TurnInv(q2, r, m2)
<1> DEFINE p == Front(q)
           l == Last(q)
           c == l.content
           e == EntryOf(Append(c, b), "toolUse")
           G == Turn!Group(p).steps
<1>1. /\ q \in Seq(Entry) /\ Len(q) > 0 /\ Last(q).role = "assistant" /\ r \in Seq(Entry) /\ m \in Messages
      /\ Owned(q) /\ Owned(r) /\ Dated(r, m) /\ Unanswered(q, r) /\ Calling(q, r, m)
      /\ m.over = FALSE /\ m.calls \in 1..MaxCall /\ m.started \in 0..m.calls /\ m.ended \subseteq 1..m.started
      /\ m.n \in 1..MaxMessage /\ m.n \in Nat /\ m.n < MaxMessage /\ m.content \in Seq(AnyBlock)
      /\ q = Append(p, l) /\ p \in Seq(Entry) /\ l \in Entry
  BY CallingIs
<1>0. m.started \in Nat /\ m.calls \in Nat /\ m.started + 1 \in 1..MaxCall /\ m.started + 1 \in 0..MaxCall
  BY <1>1, TabAssumption
<1>2. /\ m2 \in Messages /\ m2.calls = m.calls /\ m2.n = m.n /\ m2.content = m.content /\ m2.started = m.started + 1
      /\ m2.ended = m.ended /\ m2.over = FALSE
  BY <1>0, <1>1, WithStarted
<1>3. b \in AnyBlock /\ b \in Turn!Block
  BY <1>0, <1>1, CallIs
<1>4. c \in Seq(AnyBlock) /\ G \in Seq(AnyBlock) /\ Append(c, b) \in Seq(AnyBlock) /\ Has(c) \subseteq Turn!Block
  <2>1. c \in Seq(AnyBlock) /\ G \in Seq(AnyBlock)
    BY <1>1, EntryIs, GroupIs
  <2>2. l \in Has(q)
    <3>1. Has(Append(p, l)) = Has(p) \cup {l}
      <4> HIDE DEF p, l
      <4>. QED BY <1>1, HasMore
    <3> HIDE DEF p, l
    <3>. QED BY <1>1, <3>1
  <2>3. Has(c) \subseteq Turn!Block
    BY <1>1, <2>2 DEF Owned
  <2> HIDE DEF c, G
  <2>. QED BY <1>3, <2>1, <2>3
<1>t. "toolUse" \in Stops
  BY Zenon DEF Stops
<1>5. e \in Entry /\ e.role = "assistant" /\ e.content = Append(c, b) /\ e.stop = "toolUse"
  <2> DEFINE d == Append(c, b)
  <2> HIDE DEF d
  <2>1. d \in Seq(AnyBlock)
    BY <1>4 DEF d
  <2>2. EntryOf(d, "toolUse") \in Entry /\ EntryOf(d, "toolUse").role = "assistant" /\ EntryOf(d, "toolUse").content = d
        /\ EntryOf(d, "toolUse").stop = "toolUse"
    BY <1>t, <2>1, EntryFits
  <2>. QED BY <2>2 DEF d
<1>6. q2 = Append(p, e)
  OBVIOUS
<1>7. Live(q) = G \o c
  BY DEF Live
<1> HIDE DEF p, l, c, e, G
<1>8. q2 \in Seq(Entry) /\ Front(q2) = p /\ Last(q2) = e /\ Len(q2) > 0
  <2>1. Front(q2) = p /\ Last(q2) = e /\ Len(q2) = Len(p) + 1
    BY <1>1, <1>5, <1>6, FrontLast
  <2>2. Len(p) \in Nat /\ Append(p, e) \in Seq(Entry)
    BY <1>1, <1>5
  <2>3. Len(q2) > 0
    BY <2>1, <2>2
  <2>. QED BY <1>6, <2>1, <2>2, <2>3
<1>9. Live(q2) = Append(G \o c, b)
  <2>1. Live(q2) = G \o Append(c, b)
    BY <1>5, <1>8 DEF Live, G
  <2>2. G \o Append(c, b) = Append(G \o c, b)
    <3> DEFINE T == AnyBlock
    <3>1. G \in Seq(T) /\ c \in Seq(T) /\ b \in T
      BY <1>3, <1>4
    <3> HIDE DEF T
    <3>. QED BY <3>1, BothMore
  <2>. QED BY <2>1, <2>2
<1>10. Rest(m) = <<b>> \o Rest(m2) /\ Rest(m2) \in Seq(AnyBlock)
  BY <1>1, <1>2, RestLess
<1>11. Live(q) \in Seq(AnyBlock) /\ Live(q2) \in Seq(AnyBlock) /\ Rest(m) \in Seq(AnyBlock)
  <2>1. G \o c \in Seq(AnyBlock)
    BY <1>4, BothFit
  <2>2. Rest(m) \in Seq(AnyBlock)
    BY <1>1, RestIs
  <2>3. Append(G \o c, b) \in Seq(AnyBlock)
    BY <1>3, <2>1
  <2>. QED BY <1>7, <1>9, <2>1, <2>2, <2>3
<1>12. Live(q2) \o Rest(m2) = Live(q) \o Rest(m)
  <2>1. <<b>> \in Seq(AnyBlock)
    BY <1>3
  <2>2. Live(q2) = Live(q) \o <<b>>
    <3> DEFINE T == AnyBlock
               L == Live(q)
    <3>1. L \in Seq(T) /\ b \in T
      BY <1>3, <1>11
    <3>2. <<>> \in Seq(T) /\ <<b>> = Append(<<>>, b)
      BY <3>1
    <3> HIDE DEF T, L
    <3>3. L \o Append(<<>>, b) = Append(L \o <<>>, b) /\ L \o <<>> = L
      BY <3>1, <3>2, BothMore
    <3>. QED BY <1>7, <1>9, <3>2, <3>3 DEF L
  <2>3. (Live(q) \o <<b>>) \o Rest(m2) = Live(q) \o (<<b>> \o Rest(m2))
    BY <1>10, <1>11, <2>1, ConcatAssociative
  <2>. QED BY <1>10, <2>2, <2>3
<1>13. Has(Live(q2)) \cup Has(Rest(m2)) = Has(Live(q)) \cup Has(Rest(m))
  <2>1. Has(Live(q2) \o Rest(m2)) = Has(Live(q2)) \cup Has(Rest(m2))
    BY <1>10, <1>11, HasBoth
  <2>2. Has(Live(q) \o Rest(m)) = Has(Live(q)) \cup Has(Rest(m))
    BY <1>11, HasBoth
  <2>. QED BY <1>12, <2>1, <2>2
<1>14. Results(m2) = Results(m)
  BY <1>2 DEF Results
<1>15. Calling(q2, r, m2)
  BY <1>1, <1>2, <1>5, <1>8, <1>12, <1>13, <1>14 DEF Calling
<1>16. TurnTypes(q2, r, m2)
  BY <1>0, <1>1, <1>2, <1>5, <1>8 DEF TurnTypes
<1>17. Owned(q2)
  <2>1. Owned(p)
    BY <1>1, OwnedFront DEF p
  <2>2. Has(e.content) \subseteq Turn!Block
    BY <1>3, <1>4, <1>5, HasMore
  <2>. QED BY <1>1, <1>5, <1>6, <2>1, <2>2, OwnedMore
<1>18. Dated(r, m2)
  BY <1>1, <1>2 DEF Dated, Ago, Speaks
<1>19. Unanswered(q2, r)
  BY <1>1, <1>8 DEF Unanswered, p
<1>20. ~Speaks(m2) /\ ~m2.over
  BY <1>1, <1>2 DEF Speaks
<1>. QED BY <1>1, <1>15, <1>16, <1>17, <1>18, <1>19, <1>20 DEF TurnInv

LEMMA ResultIs ==
  ASSUME NEW n \in 1..MaxMessage, NEW i \in 1..MaxCall
  PROVE  Result(n, i) \in AnyBlock /\ Result(n, i) \notin Plain /\ Result(n, i).of = n /\ Result(n, i).grown = "full"
         /\ Result(n, i).kind = "toolResult"
<1> DEFINE R == Result(n, i)
<1>1. MaxBlock + i \in 1..(MaxBlock + MaxCall)
  BY TabAssumption
<1>2. R.kind = "toolResult" /\ R.of = n /\ R.n = MaxBlock + i /\ R.grown = "full"
  BY DEF Result
<1>3. R \in AnyBlock
  BY <1>1 DEF Result, AnyBlock
<1>. QED BY <1>2, <1>3 DEF Plain

LEMMA ResultEntryIs ==
  ASSUME NEW n \in 1..MaxMessage, NEW i \in 1..MaxCall
  PROVE  LET e == Turn!ResultEntry(n, i) IN
         e \in Entry /\ e.role = "toolResult" /\ e.content = <<Result(n, i)>> /\ Has(e.content) = {Result(n, i)}
<1> DEFINE e == Turn!ResultEntry(n, i)
           R == Result(n, i)
<1>1. R \in AnyBlock
  BY ResultIs
<1>2. e.role = "toolResult" /\ e.content = <<R>> /\ e = [role |-> "toolResult", stop |-> "", content |-> <<R>>]
  BY Zenon DEF Turn!ResultEntry, Result
<1> HIDE DEF R
<1>3. <<R>> \in Seq(AnyBlock) /\ Has(<<R>>) = {R}
  BY <1>1, HasTuples
<1> DEFINE c == <<R>>
           C == Seq(AnyBlock)
           A == {"user", "assistant", "toolResult"}
           z == ""
<1>4. "toolResult" \in A /\ z \in Stops
  BY Zenon DEF Stops
<1>5. Entry = [role : A, content : C, stop : Stops]
  BY DEF Entry, Stops
<1>6. c \in C
  BY <1>3
<1>7. e = [role |-> "toolResult", stop |-> z, content |-> c]
  BY <1>2, Zenon
<1> HIDE DEF c, C, A, z, e
<1>8. e \in Entry
  BY <1>4, <1>5, <1>6, <1>7
<1>. QED BY <1>2, <1>3, <1>8 DEF e, R, c

LEMMA BotIs ==
  Turn!Bot \in Entry /\ Turn!Bot.role = "assistant" /\ Turn!Bot.content = <<>> /\ Turn!Bot.stop = "" /\ Turn!Bot.stop # "stop"
<1> DEFINE s == ""
<1>1. Turn!Bot = EntryOf(<<>>, s)
  BY Zenon DEF Turn!Bot, EntryOf
<1>2. s \in Stops /\ s # "stop"
  BY Zenon DEF Stops
<1>3. <<>> \in Seq(AnyBlock)
  OBVIOUS
<1>4. EntryOf(<<>>, s) \in Entry /\ EntryOf(<<>>, s).role = "assistant" /\ EntryOf(<<>>, s).content = <<>> /\ EntryOf(<<>>, s).stop = s
  BY <1>2, <1>3, EntryFits, Zenon
<1>. QED BY <1>1, <1>2, <1>4, Zenon

\* What is shown once the tool at work has its result
Answered(q, m, i, q2) ==
    /\ q2 \in Seq(Entry) /\ Len(q2) > 0 /\ Last(q2) = Turn!Bot /\ Owned(q2)
    /\ Turn!Group(Front(q2)).steps = Append(Live(q), Result(m.n, i)) /\ Turn!Group(Front(q2)).result = <<>>
    /\ Live(q) \in Seq(AnyBlock) /\ Result(m.n, i) \in AnyBlock
LEMMA AfterResultIs ==
  ASSUME NEW q, NEW r, NEW m, TurnInv(q, r, m), m.calls > 0, NEW i \in 1..m.started,
         NEW q2, q2 = Append(Append(q, Turn!ResultEntry(m.n, i)), Turn!Bot)
  PROVE  Answered(q, m, i, q2)
<1> DEFINE p == Front(q)
           l == Last(q)
           e == Turn!ResultEntry(m.n, i)
           R == Result(m.n, i)
<1>1. /\ q \in Seq(Entry) /\ Len(q) > 0 /\ Last(q).role = "assistant" /\ r \in Seq(Entry) /\ m \in Messages
      /\ Owned(q) /\ Unanswered(q, r) /\ Calling(q, r, m)
      /\ m.calls \in 1..MaxCall /\ m.started \in 0..m.calls /\ m.n \in 1..MaxMessage
      /\ q = Append(p, l) /\ p \in Seq(Entry) /\ l \in Entry
  BY CallingIs
<1>2. i \in 1..MaxCall /\ m.started > 0
  BY <1>1, TabAssumption
<1>3. e \in Entry /\ e.role = "toolResult" /\ e.content = <<R>> /\ R \in AnyBlock
  BY <1>1, <1>2, ResultEntryIs, ResultIs
<1>4. Turn!Bot \in Entry /\ Turn!Bot.content = <<>>
  BY BotIs
<1>5. l.stop # "stop" /\ l.role = "assistant" /\ Turn!Group(p).result = <<>>
  BY <1>1, <1>2 DEF Calling, Unanswered
<1>7. l.content \in Seq(AnyBlock) /\ Turn!Group(p).steps \in Seq(AnyBlock)
  BY <1>1, EntryIs, GroupIs
<1>8. Live(q) \in Seq(AnyBlock) /\ Live(q) = Turn!Group(p).steps \o l.content
  BY <1>7, BothFit DEF Live
<1>n. Said(<<>>) = <<>>
  BY DEF Said
<1> HIDE DEF p, l, e, R
<1>9. Turn!Group(q).steps = Live(q) /\ Turn!Group(q).result = <<>>
  <2>1. /\ Turn!Group(Append(p, l)).steps = Turn!Group(p).steps \o l.content
        /\ Turn!Group(Append(p, l)).result = Said(Turn!Group(p).result)
    BY <1>1, <1>5, GroupSaid
  <2>. QED BY <1>1, <1>5, <1>8, <1>n, <2>1
<1>10. Turn!Group(Append(q, e)).steps = Live(q) \o <<R>> /\ Turn!Group(Append(q, e)).result = <<>>
  BY <1>1, <1>3, <1>9, GroupResult
<1>11. Live(q) \o <<R>> = Append(Live(q), R)
  <2> DEFINE L == Live(q)
             T == AnyBlock
  <2>1. L \in Seq(T) /\ R \in T
    BY <1>3, <1>8
  <2>2. <<>> \in Seq(T) /\ <<R>> = Append(<<>>, R)
    BY <2>1
  <2> HIDE DEF L, T
  <2>3. L \o Append(<<>>, R) = Append(L \o <<>>, R) /\ L \o <<>> = L
    BY <2>1, <2>2, BothMore
  <2>. QED BY <2>2, <2>3 DEF L
<1>12. Append(q, e) \in Seq(Entry)
  BY <1>1, <1>3
<1> DEFINE a == Append(q, e)
           d == Turn!Bot
<1>13. q2 \in Seq(Entry) /\ Len(q2) > 0 /\ Front(q2) = a /\ Last(q2) = d
  <2>1. q2 = Append(a, d)
    BY DEF e
  <2>2. a \in Seq(Entry) /\ d \in Entry
    BY <1>4, <1>12
  <2> HIDE DEF a, d
  <2>3. Front(Append(a, d)) = a /\ Last(Append(a, d)) = d /\ Len(Append(a, d)) = Len(a) + 1
    BY <2>2, FrontLast
  <2>4. Append(a, d) \in Seq(Entry) /\ Len(a) \in Nat
    BY <2>2
  <2>. QED BY <2>1, <2>3, <2>4
<1>14. Owned(q2)
  <2>1. Owned(a)
    BY <1>1, <1>3, OwnedMore
  <2>2. Has(d.content) \subseteq Turn!Block
    BY <1>4 DEF Has
  <2>3. q2 = Append(a, d)
    BY DEF e
  <2>. QED BY <1>4, <1>12, <2>1, <2>2, <2>3, OwnedMore
<1>. QED BY <1>3, <1>8, <1>10, <1>11, <1>13, <1>14 DEF e, R, Answered

\* A result comes while another tool is at work.
LEMMA EndStep ==
  ASSUME NEW q, NEW r, NEW m, TurnInv(q, r, m), m.calls > 0, NEW i \in 1..m.started,
         Cardinality(m.ended) + 1 # m.calls,
         NEW m2, m2 = EndedNow(m, m.ended \cup {i}),
         NEW q2, q2 = Append(Append(q, Turn!ResultEntry(m.n, i)), Turn!Bot)
  PROVE  TurnInv(q2, r, m2)
<1> DEFINE L == Live(q)
           R == Result(m.n, i)
           Z == Rest(m)
<1>1. /\ q \in Seq(Entry) /\ Len(q) > 0 /\ Last(q).role = "assistant" /\ r \in Seq(Entry) /\ m \in Messages
      /\ Owned(q) /\ Owned(r) /\ Dated(r, m) /\ Unanswered(q, r) /\ Calling(q, r, m)
      /\ m.over = FALSE /\ m.calls \in 1..MaxCall /\ m.started \in 0..m.calls /\ m.ended \subseteq 1..m.started
      /\ m.n \in 1..MaxMessage /\ m.n < MaxMessage
  BY CallingIs
<1>2. /\ m.calls \in Nat /\ m.started \in Nat /\ i \in 1..MaxCall /\ m.ended \cup {i} \subseteq 1..m.started
      /\ 1..m.started \subseteq 1..MaxCall
  BY <1>1, TabAssumption
<1>3. /\ m2 \in Messages /\ m2.calls = m.calls /\ m2.n = m.n /\ m2.content = m.content /\ m2.started = m.started
      /\ m2.ended = m.ended \cup {i} /\ m2.over = FALSE
  <2>1. m.ended \cup {i} \in SUBSET (1..MaxCall)
    BY <1>2
  <2>. QED BY <1>1, <2>1, WithEnded
<1>4. /\ q2 \in Seq(Entry) /\ Len(q2) > 0 /\ Last(q2) = Turn!Bot
      /\ Turn!Group(Front(q2)).steps = Append(L, R) /\ Turn!Group(Front(q2)).result = <<>>
      /\ L \in Seq(AnyBlock) /\ Owned(q2) /\ R \in AnyBlock /\ R \notin Plain
  <2>1. R \notin Plain
    BY <1>1, <1>2, ResultIs
  <2>2. Answered(q, m, i, q2)
    BY AfterResultIs
  <2>. QED BY <2>1, <2>2 DEF Answered
<1>5. Turn!Bot.role = "assistant" /\ Turn!Bot.content = <<>> /\ Turn!Bot.stop # "stop"
  BY BotIs
<1>6. Z \in Seq(AnyBlock) /\ Rest(m2) = Z
  BY <1>1, <1>3, RestIs DEF Rest
<1>7. Results(m2) = Results(m) \cup {R}
  BY <1>3 DEF Results
<1>8. ~OneCall(r)
  <2>1. Cardinality({}) = 0
    BY FS_EmptySet
  <2> SUFFICES ASSUME OneCall(r) PROVE FALSE
    OBVIOUS
  <2>2. m.calls = 1 /\ m.ended = {}
    BY <1>1 DEF Calling
  <2>. QED BY <2>1, <2>2
<1> HIDE DEF L, R, Z
<1>9. Append(L, R) \in Seq(AnyBlock) /\ Live(q2) = Append(L, R)
  <2>1. Append(L, R) \in Seq(AnyBlock)
    BY <1>4
  <2>2. Append(L, R) \o <<>> = Append(L, R)
    BY <2>1
  <2>. QED BY <1>4, <1>5, <2>1, <2>2 DEF Live
<1>10. Has(Live(q2)) = Has(L) \cup {R}
  BY <1>4, <1>9, HasMore
<1>11. Only(Live(q2) \o Z, Plain) = Only(L \o Z, Plain)
  <2>1. Only(Append(L, R) \o Z, Plain) = Only(Append(L, R), Plain) \o Only(Z, Plain)
    BY <1>6, <1>9, OnlyBoth
  <2>2. Only(L \o Z, Plain) = Only(L, Plain) \o Only(Z, Plain)
    BY <1>4, <1>6, OnlyBoth
  <2>3. Only(Append(L, R), Plain) = Only(L, Plain)
    BY <1>4, OnlyOneMore
  <2>. QED BY <1>9, <2>1, <2>2, <2>3
<1>12. Calling(q2, r, m2)
  BY <1>1, <1>4, <1>5, <1>6, <1>7, <1>8, <1>10, <1>11 DEF Calling, L, Z
<1>13. TurnTypes(q2, r, m2)
  <2>1. m2.started = m.started /\ m2.calls = m.calls /\ m2.n = m.n /\ m2.over = FALSE /\ m2.ended \subseteq 1..m.started
    BY <1>2, <1>3
  <2>2. m.started <= m.calls
    BY <1>1, <1>2
  <2>3. Last(q2).role = "assistant"
    BY <1>4, <1>5
  <2>. QED BY <1>1, <1>3, <1>4, <2>1, <2>2, <2>3 DEF TurnTypes
<1>14. Dated(r, m2) /\ Unanswered(q2, r) /\ ~Speaks(m2) /\ ~m2.over
  <2>1. ~Speaks(m2) /\ ~m2.over /\ ~Speaks(m) /\ m2.n = m.n
    BY <1>1, <1>3, <1>2 DEF Speaks
  <2>2. Unanswered(q2, r)
    BY <1>1, <1>4 DEF Unanswered
  <2>3. \A b : Ago(b, m) => Ago(b, m2)
    BY <2>1 DEF Ago
  <2>4. Dated(r, m2)
    BY <1>1, <2>3 DEF Dated
  <2>. QED BY <2>1, <2>2, <2>4
<1>. QED BY <1>1, <1>4, <1>12, <1>13, <1>14 DEF TurnInv

-----------------------------------------------------------------------------
(* The results of a message, once all are there *)

Sent(n, k) == [j \in 1..k |-> Turn!ResultEntry(n, j)]
Got(n, k) == [j \in 1..k |-> Result(n, j)]
\* What is saved before them and after
SentAfter(r, n, k) ==
    /\ Sent(n, k) \in Seq(Entry) /\ r \o Sent(n, k) \in Seq(Entry) /\ Got(n, k) \in Seq(AnyBlock)
    /\ Turn!Group(r \o Sent(n, k)).steps = Turn!Group(r).steps \o Got(n, k)
    /\ Turn!Group(r \o Sent(n, k)).result = Turn!Group(r).result

LEMMA SentMore ==
  ASSUME NEW n \in 1..MaxMessage, NEW k \in Nat, k + 1 \in 1..MaxCall
  PROVE  /\ Sent(n, k) \in Seq(Entry) => Sent(n, k + 1) = Append(Sent(n, k), Turn!ResultEntry(n, k + 1))
         /\ Got(n, k) \in Seq(AnyBlock) => Got(n, k + 1) = Append(Got(n, k), Result(n, k + 1))
<1>1. \A j \in 1..k + 1 : j \in 1..MaxCall
  BY TabAssumption
<1>2. \A j \in 1..k + 1 : Turn!ResultEntry(n, j) \in Entry
  BY <1>1, ResultEntryIs
<1>3. \A j \in 1..k + 1 : Result(n, j) \in AnyBlock
  BY <1>1, ResultIs
<1>4. ASSUME Sent(n, k) \in Seq(Entry) PROVE Sent(n, k + 1) = Append(Sent(n, k), Turn!ResultEntry(n, k + 1))
  <2> DEFINE f(j) == Turn!ResultEntry(n, j)
             s == Sent(n, k)
             t == Sent(n, k + 1)
  <2>1. /\ Len(s) = k /\ \A j \in 1..k : s[j] = f(j)
    BY DEF Sent
  <2>2. t \in Seq(Entry) /\ Len(t) = k + 1 /\ \A j \in 1..k + 1 : t[j] = f(j)
    BY <1>2 DEF Sent
  <2>3. \A j \in 1..k + 1 : f(j) \in Entry
    BY <1>2
  <2> HIDE DEF f, s, t
  <2>4. k + 1 \in 1..k + 1
    OBVIOUS
  <2>5. f(k + 1) \in Entry /\ s \in Seq(Entry)
    BY <1>4, <2>3, <2>4 DEF s
  <2> DEFINE a == Append(s, f(k + 1))
  <2>6. a \in Seq(Entry) /\ Len(a) = k + 1 /\ \A j \in 1..k + 1 : a[j] = f(j)
    BY <2>1, <2>5
  <2> HIDE DEF a
  <2>7. a = t
    BY <2>2, <2>6
  <2>. QED BY <2>7 DEF a, s, t, f
<1>5. ASSUME Got(n, k) \in Seq(AnyBlock) PROVE Got(n, k + 1) = Append(Got(n, k), Result(n, k + 1))
  <2> DEFINE f(j) == Result(n, j)
             s == Got(n, k)
             t == Got(n, k + 1)
             T == AnyBlock
  <2>1. /\ Len(s) = k /\ \A j \in 1..k : s[j] = f(j)
    BY DEF Got
  <2>2. t \in Seq(T) /\ Len(t) = k + 1 /\ \A j \in 1..k + 1 : t[j] = f(j)
    BY <1>3 DEF Got
  <2>3. \A j \in 1..k + 1 : f(j) \in T
    BY <1>3
  <2> HIDE DEF f, s, t, T
  <2>4. k + 1 \in 1..k + 1
    OBVIOUS
  <2>5. f(k + 1) \in T /\ s \in Seq(T)
    BY <1>5, <2>3, <2>4 DEF s, T
  <2> DEFINE a == Append(s, f(k + 1))
  <2>6. a \in Seq(T) /\ Len(a) = k + 1 /\ \A j \in 1..k + 1 : a[j] = f(j)
    BY <2>1, <2>5
  <2> HIDE DEF a
  <2>7. a = t
    BY <2>2, <2>6
  <2>. QED BY <2>7 DEF a, s, t, f
<1>. QED BY <1>4, <1>5

LEMMA SentIs ==
  ASSUME NEW r \in Seq(Entry), NEW n \in 1..MaxMessage, NEW k \in 0..MaxCall
  PROVE  SentAfter(r, n, k)
<1> DEFINE S == {i \in Nat : i <= MaxCall => SentAfter(r, n, i)}
<1>1. 0 \in S
  <2>1. Sent(n, 0) = <<>> /\ Got(n, 0) = <<>>
    BY DEF Sent, Got
  <2>2. Turn!Group(r).steps \in Seq(AnyBlock)
    BY GroupIs
  <2>3. r \o <<>> = r /\ Turn!Group(r).steps \o <<>> = Turn!Group(r).steps
    BY <2>2
  <2>4. <<>> \in Seq(Entry) /\ <<>> \in Seq(AnyBlock)
    OBVIOUS
  <2>. QED BY <2>1, <2>3, <2>4 DEF SentAfter
<1>2. ASSUME NEW i \in Nat, i \in S PROVE i + 1 \in S
  <2> SUFFICES ASSUME i + 1 <= MaxCall PROVE SentAfter(r, n, i + 1)
    OBVIOUS
  <2>1. SentAfter(r, n, i) /\ i + 1 \in 1..MaxCall
    BY <1>2, TabAssumption
  <2> DEFINE s == Sent(n, i)
             g == Got(n, i)
             e == Turn!ResultEntry(n, i + 1)
             b == Result(n, i + 1)
             G == Turn!Group(r).steps
  <2>2. s \in Seq(Entry) /\ r \o s \in Seq(Entry) /\ g \in Seq(AnyBlock)
        /\ Turn!Group(r \o s).steps = G \o g /\ Turn!Group(r \o s).result = Turn!Group(r).result
    BY <2>1 DEF SentAfter
  <2>3. Sent(n, i + 1) = Append(s, e) /\ Got(n, i + 1) = Append(g, b)
    BY <2>1, <2>2, SentMore
  <2>4. e \in Entry /\ e.role = "toolResult" /\ e.content = <<b>> /\ b \in AnyBlock
    BY <2>1, ResultEntryIs, ResultIs
  <2>5. G \in Seq(AnyBlock)
    BY GroupIs
  <2> DEFINE T == AnyBlock
  <2>6. G \in Seq(T) /\ g \in Seq(T) /\ b \in T
    BY <2>2, <2>4, <2>5
  <2> HIDE DEF s, g, e, b, G, T
  <2>7. r \o Append(s, e) = Append(r \o s, e) /\ Append(s, e) \in Seq(Entry) /\ Append(r \o s, e) \in Seq(Entry)
    BY <2>2, <2>4, BothMore
  <2>8. Turn!Group(Append(r \o s, e)).steps = (G \o g) \o <<b>> /\ Turn!Group(Append(r \o s, e)).result = Turn!Group(r).result
    BY <2>2, <2>4, GroupResult
  <2>9. (G \o g) \o <<b>> = G \o Append(g, b) /\ Append(g, b) \in Seq(T)
    <3>1. <<b>> = Append(<<>>, b) /\ <<>> \in Seq(T) /\ G \o g \in Seq(T)
      BY <2>6
    <3>2. (G \o g) \o Append(<<>>, b) = Append((G \o g) \o <<>>, b) /\ (G \o g) \o <<>> = G \o g
      BY <2>6, <3>1, BothMore
    <3>3. G \o Append(g, b) = Append(G \o g, b)
      BY <2>6, BothMore
    <3>4. Append(g, b) \in Seq(T)
      BY <2>6
    <3>. QED BY <3>1, <3>2, <3>3, <3>4
  <2>. QED BY <2>3, <2>7, <2>8, <2>9 DEF SentAfter, T, G
<1> HIDE DEF S
<1>3. \A i \in Nat : i \in S
  BY <1>1, <1>2, AllNumbers
<1>4. k \in S /\ k <= MaxCall
  BY <1>3, TabAssumption
<1>. QED BY <1>4 DEF S

LEMMA AllEnded ==
  ASSUME NEW k \in Nat, NEW s \in 0..k, NEW t \in SUBSET (1..s), NEW i \in 1..s, i \notin t, Cardinality(t) + 1 = k
  PROVE  s = k /\ t \cup {i} = 1..k
<1> DEFINE u == t \cup {i}
           I == 1..s
<1>1. IsFiniteSet(I) /\ Cardinality(I) = s
  <2>1. s \in Nat /\ 0 \in Nat /\ 1 \in Nat
    OBVIOUS
  <2>2. IsFiniteSet(1..s) /\ Cardinality(1..s) = IF 1 > s THEN 0 ELSE s - 1 + 1
    BY <2>1, FS_Interval
  <2>. QED BY <2>1, <2>2
<1>2. IsFiniteSet(t)
  BY <1>1, FS_Subset
<1>3. Cardinality(u) = k
  BY <1>2, FS_AddElement
<1>4. u \subseteq I
  OBVIOUS
<1> HIDE DEF u, I
<1>5. IsFiniteSet(u) /\ Cardinality(u) <= s /\ (Cardinality(u) = s => u = I)
  BY <1>1, <1>4, FS_Subset
<1>6. s = k
  BY <1>3, <1>5
<1>. QED BY <1>3, <1>5, <1>6 DEF u, I

LEMMA NewMessageIs ==
  ASSUME NEW n \in 1..MaxMessage
  PROVE  LET w == Turn!Message(n) IN
         /\ w \in Messages /\ w.n = n /\ w.content = <<>> /\ w.calls = 0 /\ w.started = 0 /\ w.ended = {} /\ w.over = FALSE
<1> DEFINE w == Turn!Message(n)
<1>1. w = [n |-> n, content |-> <<>>, calls |-> 0, started |-> 0, ended |-> {}, over |-> FALSE]
  BY DEF Turn!Message
<1>2. 0 \in 0..MaxCall /\ <<>> \in Seq(AnyBlock) /\ {} \in SUBSET (1..MaxCall) /\ FALSE \in BOOLEAN
  BY TabAssumption
<1> HIDE DEF w
<1>3. w \in Messages
  BY <1>1, <1>2 DEF Messages
<1>. QED BY <1>1, <1>3 DEF w

\* Results are saved beside what the agent said, and told as they are.
LEMMA SentTells ==
  ASSUME NEW r \in Seq(Entry), NEW n \in 1..MaxMessage, NEW k \in 0..MaxCall
  PROVE  /\ Told(r \o Sent(n, k)) = Told(r) \o Got(n, k)
         /\ Has(Got(n, k)) = {Result(n, j) : j \in 1..k} /\ Got(n, k) \in Seq(AnyBlock)
         /\ \A e \in Has(r \o Sent(n, k)) : e.role = "assistant" => e \in Has(r)
         /\ OneCall(r \o Sent(n, k)) => OneCall(r)
         /\ Only(Got(n, k), Plain) = <<>>
<1> DEFINE s == Sent(n, k)
           g == Got(n, k)
           R == Turn!Group(r).steps
<1>1. /\ s \in Seq(Entry) /\ r \o s \in Seq(Entry) /\ g \in Seq(AnyBlock)
      /\ Turn!Group(r \o s).steps = R \o g
  BY SentIs DEF SentAfter
<1>2. R \in Seq(AnyBlock)
  BY GroupIs
<1>3. \A j \in 1..k : j \in 1..MaxCall
  BY TabAssumption
<1>4. Len(s) = k /\ \A j \in 1..k : s[j].role = "toolResult"
  <2>1. Len(s) = k /\ \A j \in 1..k : s[j] = Turn!ResultEntry(n, j)
    BY DEF Sent
  <2>. QED BY <1>3, <2>1, ResultEntryIs
<1>5. Has(g) = {Result(n, j) : j \in 1..k}
  <2>1. Len(g) = k /\ \A j \in 1..k : g[j] = Result(n, j)
    BY DEF Got
  <2>. QED BY <2>1 DEF Has
<1>6. \A b \in Has(g) : b \in AnyBlock /\ b \notin Plain /\ b.grown = "full" /\ b.kind = "toolResult"
  BY <1>3, <1>5, ResultIs
<1> HIDE DEF s, g, R
<1>7. Has(r \o s) = Has(r) \cup Has(s)
  BY <1>1, HasBoth
<1>8. \A e \in Has(s) : e.role # "assistant"
  BY <1>4 DEF Has
<1>9. \A e \in Has(r \o s) : e.role = "assistant" => e \in Has(r)
  BY <1>7, <1>8
<1>10. Silenced(r \o s) = Silenced(r)
  BY <1>7, <1>8 DEF Silenced
<1>11. OneCall(r \o s) => OneCall(r)
  BY <1>7 DEF OneCall
<1> DEFINE H == Heard(r)
<1>12. Heard(r \o s) = H
  BY <1>10 DEF Heard
<1>13. Has(g) \subseteq H
  <2>1. \A b \in Silenced(r) : b.kind = "thinking"
    BY DEF Silenced, Lost
  <2>. QED BY <1>6, <2>1 DEF Heard
<1>14. Only(g, H) = g
  BY <1>1, <1>13, OnlyAll
<1>15. Told(r \o s) = Only(R \o g, H) /\ Told(r) = Only(R, H)
  BY <1>1, <1>12 DEF Told, R
<1> HIDE DEF H
<1>16. Only(R \o g, H) = Only(R, H) \o Only(g, H)
  BY <1>1, <1>2, OnlyBoth
<1>17. Only(g, Plain) = <<>>
  BY <1>1, <1>6, OnlyNothing
<1>. QED BY <1>1, <1>5, <1>9, <1>11, <1>14, <1>15, <1>16, <1>17 DEF s, g

\* The last result of a message comes, and the next message begins.
LEMMA LastStep ==
  ASSUME NEW q, NEW r, NEW m, TurnInv(q, r, m), m.calls > 0, NEW i \in 1..m.started, i \notin m.ended,
         Cardinality(m.ended) + 1 = m.calls,
         NEW m2, m2 = Turn!Message(m.n + 1),
         NEW q2, q2 = Append(Append(q, Turn!ResultEntry(m.n, i)), Turn!Bot),
         NEW r2, r2 = r \o Sent(m.n, m.calls)
  PROVE  TurnInv(q2, r2, m2)
<1> DEFINE L == Live(q)
           R == Result(m.n, i)
           g == Got(m.n, m.calls)
<1>1. /\ q \in Seq(Entry) /\ Len(q) > 0 /\ Last(q).role = "assistant" /\ r \in Seq(Entry) /\ m \in Messages
      /\ Owned(q) /\ Owned(r) /\ Dated(r, m) /\ Unanswered(q, r) /\ Calling(q, r, m)
      /\ m.over = FALSE /\ m.calls \in 1..MaxCall /\ m.started \in 0..m.calls /\ m.ended \subseteq 1..m.started
      /\ m.n \in 1..MaxMessage /\ m.n < MaxMessage /\ m.n \in Nat
  BY CallingIs
<1>2. m.calls \in Nat /\ m.calls \in 0..MaxCall /\ m.n + 1 \in 1..MaxMessage
  BY <1>1, TabAssumption
<1>3. m.started = m.calls /\ m.ended \cup {i} = 1..m.calls
  <2> DEFINE t == m.ended
             k == m.calls
             s == m.started
  <2>1. k \in Nat /\ s \in 0..k /\ t \in SUBSET (1..s) /\ i \in 1..s /\ i \notin t /\ Cardinality(t) + 1 = k
    BY <1>1, <1>2
  <2> HIDE DEF t, k, s
  <2>2. s = k /\ t \cup {i} = 1..k
    BY <2>1, AllEnded
  <2>. QED BY <2>2 DEF t, k, s
<1>4. /\ m2 \in Messages /\ m2.n = m.n + 1 /\ m2.content = <<>> /\ m2.calls = 0 /\ m2.started = 0 /\ m2.ended = {}
      /\ m2.over = FALSE
  BY <1>2, NewMessageIs
<1>5. /\ q2 \in Seq(Entry) /\ Len(q2) > 0 /\ Last(q2) = Turn!Bot
      /\ Turn!Group(Front(q2)).steps = Append(L, R) /\ Turn!Group(Front(q2)).result = <<>>
      /\ L \in Seq(AnyBlock) /\ Owned(q2) /\ R \in AnyBlock
  <2>1. Answered(q, m, i, q2)
    BY AfterResultIs
  <2>. QED BY <2>1 DEF Answered
<1>6. Turn!Bot.role = "assistant" /\ Turn!Bot.content = <<>> /\ Turn!Bot.stop = ""
  BY BotIs
<1>7. /\ r2 \in Seq(Entry) /\ Turn!Group(r2).steps = Turn!Group(r).steps \o g
      /\ Turn!Group(r2).result = <<>>
  <2>1. SentAfter(r, m.n, m.calls)
    BY <1>1, <1>2, SentIs
  <2>. QED BY <1>1, <2>1 DEF SentAfter, Unanswered
<1>8. /\ Told(r2) = Told(r) \o g
      /\ Has(g) = {Result(m.n, j) : j \in 1..m.calls} /\ g \in Seq(AnyBlock)
      /\ \A e \in Has(r2) : e.role = "assistant" => e \in Has(r)
      /\ OneCall(r2) => OneCall(r)
      /\ Only(g, Plain) = <<>>
  BY <1>1, <1>2, SentTells
<1>9. R \notin Plain
  <2>1. i \in 1..MaxCall
    BY <1>1, <1>2, TabAssumption
  <2>2. Result(m.n, i) \notin Plain
    BY <1>1, <2>1, ResultIs
  <2>. QED BY <2>2
<1>10. Rest(m) = <<>> /\ Has(Rest(m)) = {}
  <2>1. Rest(m) \in Seq(AnyBlock) /\ Len(Rest(m)) = 0
    BY <1>1, <1>2, <1>3, RestIs
  <2>2. Rest(m) = <<>>
    BY <2>1
  <2>. QED BY <2>2 DEF Has
<1>11. L \o Rest(m) = L
  BY <1>5, <1>10
<1>12. Has(g) = Results(m) \cup {R}
  BY <1>3, <1>8 DEF Results
<1>13. Turn!Group(r).steps \in Seq(AnyBlock) /\ Told(r) \in Seq(AnyBlock)
  BY <1>1, GroupIs, OnlyFits DEF Told
<1>14. Only(L, Plain) = Only(Told(r), Plain) /\ Has(L) = Has(Told(r)) \cup Results(m)
       /\ (OneCall(r) => m.calls = 1 /\ m.ended = {} /\ L = Told(r))
  BY <1>1, <1>10, <1>11 DEF Calling, L
<1>15. OneCall(r) => g = <<R>>
  BY <1>3, <1>14 DEF Got
<1> DEFINE x == Told(r)
<1>16. x \in Seq(AnyBlock) /\ Told(r2) = x \o g
  BY <1>8, <1>13
<1> HIDE DEF L, R, g, x
<1>17. Alike(Append(L, R), Told(r2), OneCall(r2))
  <2>1. Only(Append(L, R), Plain) = Only(L, Plain)
    BY <1>5, <1>9, OnlyOneMore
  <2>2. Only(x \o g, Plain) = Only(x, Plain)
    <3>1. Only(x \o g, Plain) = Only(x, Plain) \o Only(g, Plain)
      BY <1>8, <1>16, OnlyBoth
    <3>2. Only(x, Plain) \in Seq(AnyBlock)
      BY <1>16, OnlyFits
    <3>3. Only(x, Plain) \o <<>> = Only(x, Plain)
      BY <3>2
    <3>. QED BY <1>8, <3>1, <3>3
  <2>3. Has(Append(L, R)) = Has(L) \cup {R} /\ Has(x \o g) = Has(x) \cup Has(g)
    BY <1>5, <1>8, <1>16, HasMore, HasBoth
  <2>4. Has(L) = Has(x) \cup Results(m) /\ Only(L, Plain) = Only(x, Plain)
    BY <1>14 DEF x
  <2>5. Has(Append(L, R)) = Has(x \o g)
    BY <1>12, <2>3, <2>4
  <2>6. OneCall(r2) => Append(L, R) = x \o g
    <3> SUFFICES ASSUME OneCall(r2) PROVE Append(L, R) = x \o g
      OBVIOUS
    <3>1. g = <<R>> /\ L = x
      BY <1>8, <1>14, <1>15 DEF x
    <3> DEFINE T == AnyBlock
    <3>2. L \in Seq(T) /\ R \in T
      BY <1>5
    <3>3. <<>> \in Seq(T) /\ <<R>> = Append(<<>>, R)
      BY <3>2
    <3> HIDE DEF T
    <3>4. L \o Append(<<>>, R) = Append(L \o <<>>, R) /\ L \o <<>> = L
      BY <3>2, <3>3, BothMore
    <3>. QED BY <3>1, <3>3, <3>4
  <2>. QED BY <1>16, <2>1, <2>2, <2>4, <2>5, <2>6 DEF Alike
<1>18. Spoken(<<>>, <<>>, "", m.n + 1)
  BY Zenon DEF Spoken
<1>19. Speaking(q2, r2, m2)
  <2>1. Last(q2).content = <<>> /\ Last(q2).stop = ""
    BY <1>5, <1>6, Zenon
  <2>2. Spoken(m2.content, Last(q2).content, Last(q2).stop, m2.n)
    BY <1>4, <1>18, <2>1, Zenon
  <2>3. Alike(Turn!Group(Front(q2)).steps, Told(r2), OneCall(r2))
    BY <1>5, <1>17, Zenon
  <2>. QED BY <2>2, <2>3, Zenon DEF Speaking
<1>20. TurnTypes(q2, r2, m2)
  <2>1. Last(q2).role = "assistant"
    BY <1>5, <1>6, Zenon
  <2>2. m2.ended \subseteq 1..m2.started /\ m2.started <= m2.calls
    BY <1>4
  <2>. QED BY <1>4, <1>5, <1>7, <2>1, <2>2 DEF TurnTypes
<1>21. Owned(r2)
  BY <1>1, <1>8 DEF Owned
<1>22. Dated(r2, m2)
  <2>1. \A b \in AnyBlock : Ago(b, m) => Ago(b, m2)
    <3> SUFFICES ASSUME NEW b \in AnyBlock, Ago(b, m) PROVE b.of < m2.n
      BY DEF Ago
    <3>. QED BY <1>1, <1>4, OfIs DEF Ago
  <2>2. \A e \in Has(r2) : e.role = "assistant" => \A b \in Has(e.content) : Ago(b, m2)
    <3> SUFFICES ASSUME NEW e \in Has(r2), e.role = "assistant", NEW b \in Has(e.content) PROVE Ago(b, m2)
      OBVIOUS
    <3>1. e \in Has(r) /\ e \in Entry
      BY <1>1, <1>8, HasIn
    <3>2. b \in AnyBlock
      BY <3>1, EntryIs
    <3>. QED BY <1>1, <2>1, <3>1, <3>2 DEF Dated
  <2> DEFINE G == Turn!Group(r).steps
  <2>3. G \in Seq(AnyBlock) /\ Turn!Group(r2).steps = G \o g
    BY <1>7, <1>13 DEF g
  <2>4. \A b \in Has(G) : b \in AnyBlock /\ Ago(b, m)
    BY <1>1, <2>3, HasIn DEF Dated
  <2>5. \A b \in Has(g) : b \in AnyBlock /\ b.of = m.n
    <3> SUFFICES ASSUME NEW j \in 1..m.calls PROVE Result(m.n, j) \in AnyBlock /\ Result(m.n, j).of = m.n
      BY <1>8 DEF g
    <3>1. j \in 1..MaxCall
      BY <1>1, TabAssumption
    <3>. QED BY <1>1, <3>1, ResultIs
  <2> HIDE DEF G
  <2>6. Has(G \o g) = Has(G) \cup Has(g)
    BY <1>8, <2>3, HasBoth DEF g
  <2>7. \A b \in Has(g) : Ago(b, m2)
    BY <1>1, <1>4, <2>5 DEF Ago
  <2>8. \A b \in Has(Turn!Group(r2).steps) : Ago(b, m2)
    BY <2>1, <2>3, <2>4, <2>6, <2>7
  <2>. QED BY <2>2, <2>8 DEF Dated
<1>23. Unanswered(q2, r2)
  BY <1>5, <1>7 DEF Unanswered
<1>24. ~(m2.calls > 0) /\ ~m2.over
  BY <1>4
<1>. QED BY <1>5, <1>19, <1>20, <1>21, <1>22, <1>23, <1>24 DEF TurnInv

-----------------------------------------------------------------------------
(* Every step of a turn keeps the invariant *)

LEMMA TurnStarts == Turn!Init => TurnInv(x1, x2, x3)
<1> SUFFICES ASSUME Turn!Init PROVE TurnInv(x1, x2, x3)
  OBVIOUS
<1> DEFINE u == Turn!User
           d == Turn!Bot
           z == ""
           none == <<>>
<1>1. x1 = <<u, d>> /\ x2 = <<u>> /\ x3 = Turn!Message(1)
  BY Zenon DEF Turn!Init
<1>2. 1 \in 1..MaxMessage
  BY TabAssumption
<1>3. /\ x3 \in Messages /\ x3.n = 1 /\ x3.content = <<>> /\ x3.calls = 0 /\ x3.started = 0 /\ x3.ended = {}
      /\ x3.over = FALSE
  BY <1>1, <1>2, NewMessageIs
<1>4. u \in Entry /\ u.role = "user" /\ u.content = <<>>
  <2> DEFINE A == {"user", "assistant", "toolResult"}
             C == Seq(AnyBlock)
  <2>1. u = [role |-> "user", content |-> none, stop |-> z] /\ "user" \in A /\ z \in Stops
    BY Zenon DEF Turn!User, Stops
  <2>2. none \in C
    OBVIOUS
  <2>3. Entry = [role : A, content : C, stop : Stops]
    BY DEF Entry, Stops
  <2> HIDE DEF u, A, C, z
  <2>4. u \in Entry /\ u.role = "user" /\ u.content = none
    BY <2>1, <2>2, <2>3
  <2>. QED BY <2>4
<1>5. d \in Entry /\ d.role = "assistant" /\ d.content = <<>> /\ d.stop = z
  BY BotIs, Zenon
<1> HIDE DEF u, d
<1>6. /\ x1 \in Seq(Entry) /\ Len(x1) > 0 /\ Last(x1) = d /\ Front(x1) = <<u>> /\ Has(x1) = {u, d}
      /\ x2 \in Seq(Entry) /\ Has(x2) = {u} /\ x2 = Append(<<>>, u) /\ <<>> \in Seq(Entry)
  <2> DEFINE T == Entry
  <2>1. u \in T /\ d \in T
    BY <1>4, <1>5
  <2> HIDE DEF T, z
  <2>2. /\ <<u>> \in Seq(T) /\ <<u, d>> \in Seq(T) /\ <<u, d>> = Append(<<u>>, d) /\ <<u>> = Append(<<>>, u)
        /\ Len(<<u, d>>) = 2 /\ Has(<<u>>) = {u} /\ Has(<<u, d>>) = {u, d}
        /\ Last(<<u, d>>) = d /\ Front(<<u, d>>) = <<u>>
    <3>1. <<u>> \in Seq(T) /\ <<u, d>> \in Seq(T) /\ <<u, d>> = Append(<<u>>, d) /\ <<u>> = Append(<<>>, u) /\ Len(<<u, d>>) = 2
      BY <2>1
    <3>2. Has(<<u>>) = {u} /\ Has(<<u, d>>) = {u, d}
      BY <2>1, Tuples
    <3>3. Last(<<u, d>>) = d /\ Front(<<u, d>>) = <<u>>
      BY <2>1, Ends
    <3>. QED BY <3>1, <3>2, <3>3
  <2>. QED BY <1>1, <2>2 DEF T
<1>7. Turn!Group(x2) = Turn!NewTask
  <2>1. Turn!Group(Append(<<>>, u)) = Grown(Turn!Group(<<>>), u)
    BY <1>4, <1>6, GroupMore
  <2>. QED BY <1>4, <1>6, <2>1 DEF Grown
<1>8. Turn!NewTask.steps = <<>> /\ Turn!NewTask.result = <<>>
  BY NewTaskIs
<1>9. Front(x1) = x2
  BY <1>1, <1>6
<1>10. Told(x2) = <<>>
  BY <1>7, <1>8, OnlyNone DEF Told
<1>11. Speaking(x1, x2, x3)
  <2>1. Spoken(<<>>, <<>>, "", 1)
    BY Zenon DEF Spoken
  <2>2. Spoken(x3.content, Last(x1).content, Last(x1).stop, x3.n)
    BY <1>3, <1>5, <1>6, <2>1, Zenon
  <2>3. Alike(Turn!Group(Front(x1)).steps, Told(x2), OneCall(x2))
    BY <1>7, <1>8, <1>9, <1>10, Zenon DEF Alike
  <2>. QED BY <2>2, <2>3, Zenon DEF Speaking
<1>12. TurnTypes(x1, x2, x3)
  <2>1. Last(x1).role = "assistant"
    BY <1>5, <1>6, Zenon
  <2>2. x3.ended \subseteq 1..x3.started /\ x3.started <= x3.calls /\ ~x3.over /\ ~(x3.calls > 0)
    BY <1>3
  <2>. QED BY <1>3, <1>6, <2>1, <2>2 DEF TurnTypes
<1>13. Has(<<>>) = {}
  BY DEF Has
<1>14. Owned(x1) /\ Owned(x2)
  BY <1>4, <1>5, <1>6, <1>13 DEF Owned
<1>15. Dated(x2, x3)
  BY <1>4, <1>6, <1>7, <1>8, <1>13 DEF Dated
<1>16. Unanswered(x1, x2)
  BY <1>7, <1>8, <1>9 DEF Unanswered
<1>17. ~(x3.calls > 0) /\ ~x3.over
  BY <1>3
<1>. QED BY <1>11, <1>12, <1>14, <1>15, <1>16, <1>17 DEF TurnInv

LEMMA SaidStep ==
  ASSUME TurnInv(x1, x2, x3), Speaks(x3), NEW b, NEW k, Turn!Says(b, k),
         b.kind = "text" => Spoken(k, Says(Last(x1).content, b), "stop", x3.n),
         b.kind # "text" => Spoken(k, Heeds(Last(x1).content, b), Last(x1).stop, x3.n)
  PROVE  TurnInv(x1', x2', x3')
<1>1. x1 \in Seq(Entry) /\ Len(x1) > 0 /\ Last(x1).role = "assistant"
  BY SpeakingIs
<1>2. x3' = SaysNow(x3, k) /\ x2' = x2
  BY DEF Turn!Says, SaysNow
<1>3. ASSUME NEW c, NEW s, Spoken(k, c, s, x3.n), x1' = Append(Front(x1), EntryOf(c, s))
      PROVE  TurnInv(x1', x2', x3')
  BY <1>2, <1>3, SpeakStep
<1>4. CASE b.kind = "text"
  <2> DEFINE c == Turn!NonText(Turn!Content) \o Aloud(b)
  <2>1. Turn!EntryGets(c, "stop")
    BY <1>4, Zenon DEF Turn!Says, Turn!AssistantEvent, Aloud
  <2> HIDE DEF c
  <2>2. x1' = Append(Front(x1), [role |-> "assistant", content |-> c, stop |-> "stop"]) /\ Turn!Content = Last(x1).content
    BY <1>1, <2>1, EntryGetsIs
  <2>3. c = Says(Last(x1).content, b) /\ x1' = Append(Front(x1), EntryOf(c, "stop"))
    BY <2>2, Zenon DEF c, Says, EntryOf
  <2>. QED BY <1>3, <1>4, <2>3, Zenon
<1>5. CASE b.kind # "text"
  <2> DEFINE c == IF Turn!Content # <<>> /\ Turn!Last(Turn!Content).kind = "thinking"
                  THEN Append(Turn!Front(Turn!Content), b) ELSE Append(Turn!Content, b)
             s == x1[Turn!Streaming].stop
  <2>1. Turn!EntryGets(c, s)
    BY <1>5, Zenon DEF Turn!Says, Turn!ThinkingEvent
  <2> HIDE DEF c, s
  <2>2. /\ x1' = Append(Front(x1), [role |-> "assistant", content |-> c, stop |-> s])
        /\ Turn!Content = Last(x1).content /\ x1[Turn!Streaming] = Last(x1)
    BY <1>1, <2>1, EntryGetsIs
  <2>3. /\ c = Heeds(Last(x1).content, b) /\ s = Last(x1).stop
        /\ x1' = Append(Front(x1), EntryOf(c, s))
    BY <2>2, Zenon DEF c, s, Heeds, EntryOf, Turn!Last, Turn!Front, Last, Front
  <2>. QED BY <1>3, <1>5, <2>3, Zenon
<1>. QED BY <1>4, <1>5

LEMMA BeginStep ==
  ASSUME TurnInv(x1, x2, x3), NEW kind \in {"thinking", "text"}, Turn!Begin(kind)
  PROVE  TurnInv(x1', x2', x3')
<1> DEFINE k == x3.content
           b == [kind |-> kind, of |-> x3.n, n |-> Len(k) + 1, grown |-> "part"]
           c == Last(x1).content
           s == Last(x1).stop
<1>1. /\ ~x3.over /\ x3.calls = 0 /\ Len(k) < MaxBlock /\ Turn!Says(b, Append(k, b))
      /\ kind = "text" => ~Turn!Has("text")
      /\ kind # "text" => ~(k # <<>> /\ Turn!Last(k).kind = "thinking")
  BY Zenon DEF Turn!Begin, Turn!Speaking
<1>2. Speaks(x3)
  BY <1>1 DEF Speaks
<1>3. x3.n \in 1..MaxMessage /\ k \in Seq(AnyBlock) /\ Speaking(x1, x2, x3)
  BY <1>2, SpeakingIs
<1>4. Spoken(k, c, s, x3.n)
  BY <1>3 DEF Speaking
<1>5. /\ b.kind = kind /\ b.of = x3.n /\ b.n = Len(k) + 1 /\ b.grown = "part" /\ b \in AnyBlock
  <2>1. Len(k) + 1 \in 1..(MaxBlock + MaxCall)
    BY <1>1, <1>3, TabAssumption
  <2> DEFINE K == {"thinking", "text", "toolCall", "toolResult"}
             G == {"part", "full", "silent"}
             N == 1..(MaxBlock + MaxCall)
             M == 1..MaxMessage
             l == Len(k) + 1
             o == x3.n
  <2>2. kind \in K /\ "part" \in G /\ l \in N /\ o \in M
    BY <1>3, <2>1
  <2>3. AnyBlock = [kind : K, of : M, n : N, grown : G] /\ b = [kind |-> kind, of |-> o, n |-> l, grown |-> "part"]
    BY DEF AnyBlock
  <2> HIDE DEF K, G, N, M, l, o, b
  <2>4. b \in AnyBlock /\ b.kind = kind /\ b.of = o /\ b.n = l /\ b.grown = "part"
    BY <2>2, <2>3
  <2>. QED BY <2>4 DEF l, o
<1> HIDE DEF b, k, c, s
<1>6. ASSUME b.kind = "text" PROVE Spoken(Append(k, b), Says(c, b), "stop", x3.n)
  <2>1. \A x \in Has(k) : x.kind # "text"
    <3>1. Turn!ToSet(k) = Has(k)
      BY <1>3, HasIs
    <3>. QED BY <1>1, <1>5, <1>6, <3>1 DEF Turn!Has, k
  <2>2. Text(b, x3.n, Len(k) + 1)
    BY <1>5, <1>6 DEF Text
  <2>. QED BY <1>4, <1>5, <2>1, <2>2, TextBegins
<1>7. ASSUME b.kind # "text" PROVE Spoken(Append(k, b), Heeds(c, b), s, x3.n)
  <2>1. b.kind = "thinking"
    BY <1>5, <1>7
  <2>2. Thought(b, x3.n, Len(k) + 1)
    BY <1>5, <2>1 DEF Thought
  <2>3. k # <<>> => Last(k).kind # "thinking"
    BY <1>1, <1>5, <1>7, Zenon DEF Turn!Last, Last
  <2>. QED BY <1>4, <1>5, <2>2, <2>3, ThoughtBegins, Zenon
<1>. QED BY <1>1, <1>2, <1>6, <1>7, SaidStep DEF c, s

\* A block that has come to its end is what it was but for that.
LEMMA GrownIs ==
  ASSUME NEW x \in AnyBlock, NEW g \in {"full", "silent"}, NEW b, b = [x EXCEPT !.grown = g]
  PROVE  b \in AnyBlock /\ b.kind = x.kind /\ b.of = x.of /\ b.n = x.n /\ b.grown = g
<1> DEFINE K == {"thinking", "text", "toolCall", "toolResult"}
           G == {"part", "full", "silent"}
           N == 1..(MaxBlock + MaxCall)
           M == 1..MaxMessage
<1>1. AnyBlock = [kind : K, of : M, n : N, grown : G] /\ g \in G
  BY DEF AnyBlock
<1> HIDE DEF K, G, N, M
<1>. QED BY <1>1

\* The last block of a message is a thought or the text, by its place.
LEMMA LastSpoken ==
  ASSUME NEW m, NEW c, NEW s, NEW n, Spoken(m, c, s, n), m # <<>>
  PROVE  \/ Thought(Last(m), n, Len(m))
         \/ Text(Last(m), n, Len(m))
<1>1. ASSUME NEW t \in AnyBlock, JustThought(m, c, s, n, t) PROVE Thought(Last(m), n, Len(m))
  BY <1>1, Longer, Zenon DEF JustThought
<1>2. ASSUME NEW x \in AnyBlock, JustText(m, c, s, n, x) PROVE Text(Last(m), n, Len(m))
  BY <1>2, Longer, Zenon DEF JustText
<1>3. ASSUME NEW t \in AnyBlock, NEW x \in AnyBlock, ThoughtText(m, c, s, n, t, x) PROVE Text(Last(m), n, Len(m))
  BY <1>3, Longer, Zenon DEF ThoughtText
<1>4. ASSUME NEW x \in AnyBlock, NEW t \in AnyBlock, TextThought(m, c, s, n, x, t) PROVE Thought(Last(m), n, Len(m))
  BY <1>4, Longer, Zenon DEF TextThought
<1>5. ASSUME NEW u \in AnyBlock, NEW x \in AnyBlock, NEW t \in AnyBlock, AllThree(m, c, s, n, u, x, t)
      PROVE  Thought(Last(m), n, Len(m))
  BY <1>5, Longer, Zenon DEF AllThree
<1>. QED BY <1>1, <1>2, <1>3, <1>4, <1>5, Zenon DEF Spoken

LEMMA GrowStep ==
  ASSUME TurnInv(x1, x2, x3), NEW grown \in {"full", "silent"}, Turn!Grow(grown)
  PROVE  TurnInv(x1', x2', x3')
<1> DEFINE k == x3.content
           b == [Last(k) EXCEPT !.grown = grown]
           c == Last(x1).content
           s == Last(x1).stop
<1>1. /\ ~x3.over /\ x3.calls = 0 /\ k # <<>>
      /\ grown = "silent" => Last(k).kind = "text"
      /\ Turn!Says(b, Append(Front(k), b))
  BY Zenon DEF Turn!Grow, Turn!Speaking, Turn!Partial, Turn!Last, Turn!Front, Last, Front
<1>2. Speaks(x3)
  BY <1>1 DEF Speaks
<1>3. x3.n \in 1..MaxMessage /\ k \in Seq(AnyBlock) /\ Speaking(x1, x2, x3)
  BY <1>2, SpeakingIs
<1>4. Spoken(k, c, s, x3.n)
  BY <1>3 DEF Speaking
<1> DEFINE x == Last(k)
<1>5. Thought(x, x3.n, Len(k)) \/ Text(x, x3.n, Len(k))
  <2> HIDE DEF k, c, s
  <2>. QED BY <1>1, <1>4, LastSpoken, Zenon
<1>6. x \in AnyBlock /\ x.of = x3.n /\ x.n = Len(k) /\ (x.kind = "thinking" \/ x.kind = "text")
  BY <1>5, Zenon DEF Thought, Text
<1>7. b \in AnyBlock /\ b.kind = x.kind /\ b.of = x3.n /\ b.n = Len(k) /\ b.grown = grown
  <2> HIDE DEF k, x
  <2>. QED BY <1>6, GrownIs DEF x
<1> HIDE DEF b, k, c, s, x
<1>8. ASSUME b.kind = "text" PROVE Spoken(Append(Front(k), b), Says(c, b), "stop", x3.n)
  <2>1. Text(b, x3.n, Len(k))
    BY <1>7, <1>8 DEF Text
  <2>2. Last(k).kind = "text"
    BY <1>7, <1>8 DEF x
  <2>. QED BY <1>1, <1>4, <1>7, <2>1, <2>2, TextGrows, Zenon DEF k
<1>9. ASSUME b.kind # "text" PROVE Spoken(Append(Front(k), b), Heeds(c, b), s, x3.n)
  <2>1. b.kind = "thinking" /\ Last(k).kind = "thinking"
    BY <1>6, <1>7, <1>9 DEF x
  <2>2. grown # "silent"
    BY <1>1, <2>1 DEF k
  <2>3. Thought(b, x3.n, Len(k))
    BY <1>7, <2>1, <2>2 DEF Thought
  <2>. QED BY <1>1, <1>4, <1>7, <2>1, <2>3, ThoughtGrows, Zenon DEF k
<1>. QED BY <1>1, <1>2, <1>8, <1>9, SaidStep DEF c, s, k

LEMMA CallToolsStep ==
  ASSUME TurnInv(x1, x2, x3), NEW k \in 1..MaxCall, Turn!CallTools(k)
  PROVE  TurnInv(x1', x2', x3')
<1>1. Speaks(x3) /\ x3.n < MaxMessage /\ x1' = x1
  BY DEF Turn!CallTools, Turn!Speaking, Speaks
<1>2. x3' = CallsNow(x3, k)
  BY Zenon DEF Turn!CallTools, CallsNow
<1>3. x2' = Append(x2, Saves(x3, Calls(x3.n, k), "toolUse"))
  <2> DEFINE d == x3.content \o [i \in 1..k |-> Turn!Call(x3.n, i)]
  <2>1. x2' = Append(x2, [role |-> "assistant", stop |-> "toolUse", content |-> d])
    BY Zenon DEF Turn!CallTools
  <2>2. d = x3.content \o Calls(x3.n, k)
    BY DEF Calls
  <2> HIDE DEF d
  <2>3. [role |-> "assistant", stop |-> "toolUse", content |-> d] = EntryOf(d, "toolUse")
    BY DEF EntryOf
  <2>. QED BY <2>1, <2>2, <2>3, Zenon DEF Saves
<1>. QED BY <1>1, <1>2, <1>3, CallStep

LEMMA FinishesStep ==
  ASSUME TurnInv(x1, x2, x3), Turn!Finish
  PROVE  TurnInv(x1', x2', x3')
<1>1. Speaks(x3) /\ x1' = x1
  BY DEF Turn!Finish, Turn!Speaking, Speaks
<1>2. x3' = OverNow(x3)
  BY Zenon DEF Turn!Finish, OverNow
<1>3. x2' = Append(x2, Saves(x3, <<>>, "stop"))
  <2> DEFINE d == x3.content
  <2>1. x2' = Append(x2, [role |-> "assistant", stop |-> "stop", content |-> d])
    BY Zenon DEF Turn!Finish
  <2>2. d \o <<>> = d
    <3>1. d \in Seq(AnyBlock)
      BY <1>1, SpeakingIs
    <3>. QED BY <3>1
  <2>3. Saves(x3, <<>>, "stop") = EntryOf(d, "stop")
    BY <2>2, Zenon DEF Saves
  <2> HIDE DEF d
  <2>4. [role |-> "assistant", stop |-> "stop", content |-> d] = EntryOf(d, "stop")
    BY DEF EntryOf
  <2>. QED BY <2>1, <2>3, <2>4, Zenon
<1>. QED BY <1>1, <1>2, <1>3, FinishStep

LEMMA StartsStep ==
  ASSUME TurnInv(x1, x2, x3), Turn!Start
  PROVE  TurnInv(x1', x2', x3')
<1>1. x3.started < x3.calls /\ x2' = x2
  BY DEF Turn!Start
<1>2. x1 \in Seq(Entry) /\ Len(x1) > 0 /\ Last(x1).role = "assistant" /\ x3 \in Messages
  BY DEF TurnInv, TurnTypes
<1>3. x3.calls > 0
  BY <1>1, <1>2, MessageIs, TabAssumption
<1>4. x3' = StartedNow(x3, x3.started + 1)
  BY Zenon DEF Turn!Start, StartedNow
<1> DEFINE b == Turn!Call(x3.n, x3.started + 1)
           c == Append(Turn!Content, b)
<1>5. Turn!EntryGets(c, "toolUse")
  BY Zenon DEF Turn!Start, Turn!ToolStart
<1> HIDE DEF b, c
<1>6. /\ x1' = Append(Front(x1), [role |-> "assistant", content |-> c, stop |-> "toolUse"])
      /\ Turn!Content = Last(x1).content
  BY <1>2, <1>5, EntryGetsIs
<1>7. x1' = Append(Front(x1), EntryOf(Append(Last(x1).content, b), "toolUse"))
  BY <1>6, Zenon DEF c, EntryOf
<1>. QED BY <1>1, <1>3, <1>4, <1>7, StartStep DEF b

LEMMA EndsStep ==
  ASSUME TurnInv(x1, x2, x3), NEW i, Turn!End(i)
  PROVE  TurnInv(x1', x2', x3')
<1>1. i \in 1..x3.started /\ i \notin x3.ended
  BY DEF Turn!End
<1>2. x1 \in Seq(Entry) /\ x3 \in Messages /\ x3.started <= x3.calls
  BY DEF TurnInv, TurnTypes
<1>3. x3.calls > 0 /\ x3.n \in 1..MaxMessage /\ x3.n \in Nat /\ i \in 1..MaxCall /\ x3.started \in Nat /\ x3.calls \in Nat
  BY <1>1, <1>2, MessageIs, TabAssumption
<1>4. x1' = Append(Append(x1, Turn!ResultEntry(x3.n, i)), Turn!Bot)
  <2> DEFINE e == Turn!ResultEntry(x3.n, i)
             d == Turn!Bot
  <2>1. x1' = x1 \o <<e, d>>
    BY DEF Turn!End, Turn!ToolResult, Turn!AfterResult
  <2>2. e \in Entry /\ d \in Entry
    BY <1>3, ResultEntryIs, BotIs
  <2> DEFINE T == Entry
  <2>3. x1 \in Seq(T) /\ e \in T /\ d \in T
    BY <1>2, <2>2
  <2> HIDE DEF e, d, T
  <2>4. x1 \o <<e, d>> = Append(Append(x1, e), d)
    BY <2>3
  <2>. QED BY <2>1, <2>4 DEF e, d
<1>5. Turn!Cardinality(x3.ended) = Cardinality(x3.ended)
  BY DEF Turn!Cardinality, Cardinality
<1>6. CASE Cardinality(x3.ended) + 1 = x3.calls
  <2>1. x3' = Turn!Message(x3.n + 1)
    BY <1>5, <1>6, Zenon DEF Turn!End
  <2>2. x3'.n = x3.n + 1
    BY <2>1 DEF Turn!Message
  <2>3. x3'.n # x3.n
    BY <1>3, <2>2
  <2>4. x2' = x2 \o Sent(x3.n, x3.calls)
    BY <2>3 DEF Turn!End, Sent
  <2>. QED BY <1>1, <1>3, <1>4, <1>6, <2>1, <2>4, LastStep
<1>7. CASE Cardinality(x3.ended) + 1 # x3.calls
  <2>1. x3' = EndedNow(x3, x3.ended \cup {i})
    BY <1>5, <1>7, Zenon DEF Turn!End, EndedNow
  <2>2. x3'.n = x3.n
    <3>1. x3.ended \cup {i} \in SUBSET (1..MaxCall)
      BY <1>2, <1>3, MessageIs
    <3>. QED BY <1>2, <2>1, <3>1, WithEnded
  <2>3. x2' = x2
    BY <2>2 DEF Turn!End
  <2>. QED BY <1>1, <1>3, <1>4, <1>7, <2>1, <2>3, EndStep
<1>. QED BY <1>6, <1>7

LEMMA TurnNext == ASSUME TurnInv(x1, x2, x3), Turn!Next PROVE TurnInv(x1', x2', x3')
  BY BeginStep, GrowStep, CallToolsStep, FinishesStep, StartsStep, EndsStep, Zenon DEF Turn!Next

-----------------------------------------------------------------------------
(* What it says of a turn that is over *)

LEMMA TurnImplies == ASSUME TurnInv(x1, x2, x3) PROVE Turn!ShownAsSaved
<1>1. /\ x1 \in Seq(Entry) /\ x2 \in Seq(Entry) /\ x3 \in Messages
      /\ x3.ended \subseteq 1..x3.started /\ x3.started <= x3.calls
      /\ Owned(x1) /\ Owned(x2) /\ (x3.over => Over(x1, x2))
  BY DEF TurnInv, TurnTypes
<1>2. Turn!ToSet(x1) = Has(x1) /\ Turn!ToSet(x2) = Has(x2)
  BY <1>1, HasIs
<1>3. \A e \in Has(x1) \cup Has(x2) : e \in Entry /\ e.content \in Seq(AnyBlock) /\ Turn!ToSet(e.content) = Has(e.content)
  <2> SUFFICES ASSUME NEW e \in Has(x1) \cup Has(x2)
               PROVE  e \in Entry /\ e.content \in Seq(AnyBlock) /\ Turn!ToSet(e.content) = Has(e.content)
    OBVIOUS
  <2>1. e \in Entry
    BY <1>1, HasIn
  <2>2. e.content \in Seq(AnyBlock)
    BY <2>1, EntryIs
  <2>. QED BY <2>1, <2>2, HasIs
<1>4. Turn!TypeOK
  BY <1>1, <1>2, <1>3 DEF Turn!TypeOK, Turn!Assistants, Owned
<1>5. Turn!OneCallEach => OneCall(x2)
  BY <1>2, <1>3 DEF Turn!OneCallEach, Turn!Assistants, OneCall
<1>6. \A b \in AnyBlock : Turn!Replaced(b) <=> b \in Silenced(x2)
  BY <1>2 DEF Turn!Replaced, Turn!Assistants, Silenced, Lost
<1> DEFINE N == Turn!NoResults(Turn!Group(x1).steps)
<1>7. ASSUME NEW z \in Seq(AnyBlock)
      PROVE  /\ Turn!NoResults(z) = Only(z, Plain)
             /\ Turn!Told(z) = Only(z, Heard(x2))
             /\ Turn!ToSet(z) = Has(z)
  <2>1. Turn!ToSet(z) = Has(z) /\ Has(z) \subseteq AnyBlock
    BY <1>7, HasIs, HasIn
  <2>2. Turn!NoResults(z) = Only(z, Plain)
    <3> DEFINE S == {b \in Turn!ToSet(z) : b.kind # "toolResult"}
    <3>1. Turn!NoResults(z) = Only(z, S)
      BY TurnOnly DEF Turn!NoResults
    <3>2. \A x \in Has(z) : x \in S <=> x \in Plain
      BY <2>1 DEF Plain
    <3> HIDE DEF S
    <3>. QED BY <1>7, <3>1, <3>2, OnlySame
  <2>3. Turn!Told(z) = Only(z, Heard(x2))
    <3> DEFINE S == {b \in Turn!ToSet(z) : b.grown # "silent" /\ ~Turn!Replaced(b)}
               H == Heard(x2)
    <3>1. Turn!Told(z) = Only(z, S)
      BY TurnOnly DEF Turn!Told
    <3>2. \A x \in Has(z) : x \in S <=> x \in H
      BY <1>6, <2>1 DEF Heard
    <3> HIDE DEF S, H
    <3>3. Only(z, S) = Only(z, H)
      BY <1>7, <3>2, OnlySame
    <3>. QED BY <3>1, <3>3 DEF H
  <2>. QED BY <2>1, <2>2, <2>3
<1>8. ASSUME x3.over PROVE
        /\ Turn!Group(x1).result = Turn!Group(x2).result
        /\ Turn!NoResults(Turn!Group(x1).steps) = Turn!NoResults(Turn!Told(Turn!Group(x2).steps))
        /\ Turn!ToSet(Turn!Group(x1).steps) = Turn!ToSet(Turn!Told(Turn!Group(x2).steps))
        /\ Turn!OneCallEach => Turn!Group(x1).steps = Turn!Told(Turn!Group(x2).steps)
  <2> DEFINE l == Turn!Group(x1).steps
             p == Turn!Group(x2).steps
             t == Told(x2)
  <2>1. l \in Seq(AnyBlock) /\ p \in Seq(AnyBlock)
    BY <1>1, GroupIs
  <2>2. t = Only(p, Heard(x2)) /\ t \in Seq(AnyBlock)
    BY <2>1, OnlyFits DEF Told
  <2>3. Turn!Group(x1).result = Turn!Group(x2).result /\ Alike(l, t, OneCall(x2))
    BY <1>1, <1>8 DEF Over
  <2> HIDE DEF l, p, t
  <2>4. Turn!Told(p) = t
    BY <1>7, <2>1, <2>2
  <2>5. Turn!NoResults(l) = Only(l, Plain) /\ Turn!NoResults(t) = Only(t, Plain) /\ Turn!ToSet(l) = Has(l) /\ Turn!ToSet(t) = Has(t)
    BY <1>7, <2>1, <2>2
  <2>. QED BY <1>5, <2>3, <2>4, <2>5 DEF Alike, l, p
<1>. QED BY <1>4, <1>8, Zenon DEF Turn!ShownAsSaved

-----------------------------------------------------------------------------
(* Former sessions of a chat *)

\* A session that is shown, and those that ended after it and before the chat was
\* opened, are shown or were passed over.
Segments == {x12[i] : i \in 1..Len(x12)}
Accounted == Segments \cup x13
Lately == {0} \cup Opened..x1
Placed(q, passed) == \A i, j \in 1..Len(q) : (i < j /\ q[i] >= q[j]) => q[i] >= Opened \/ q[i] \in passed
ChatInv ==
    /\ Chat!TypeOK /\ Opened <= x1 /\ x3 \in Lately /\ x6.id \in Lately /\ x10 \in Lately
    /\ \A k \in Chat!Kinds : x4[k].step = "hist" => x4[k].asked \in Lately \ {0}
    /\ x7 = <<>> \/ \E s \in Lately \ {0} : x7 = Chat!Former(s)
    /\ \A i \in 1..Len(x7) : i <= x8 => x7[i] \in Accounted
    /\ x11 # 0 => /\ x8 < MaxSession
                  /\ x11 < Opened => x11 \notin Segments /\ x11 + 1..Opened - 1 \subseteq Accounted
    /\ \A r \in Segments : r..Opened - 1 \subseteq Accounted
    /\ Placed(x12, x13)

LEMMA Former == ASSUME NEW s \in Chat!Sessions
  PROVE  /\ Chat!Former(s) \in Seq(Chat!Sessions) /\ Len(Chat!Former(s)) = s - 1
         /\ \A i \in 1..s - 1 : Chat!Former(s)[i] = s - i
<1>1. s - 1 \in Nat /\ \A i \in 1..s - 1 : s - i \in Chat!Sessions
  BY TabAssumption DEF Chat!Sessions
<1>. QED BY <1>1 DEF Chat!Former

LEMMA ChatTypes ==
  ASSUME ChatInv
  PROVE  /\ MaxSession \in Nat /\ Opened \in Nat /\ Opened >= 1 /\ Opened <= x1 /\ x1 \in Nat /\ x1 <= MaxSession
         /\ x12 \in Seq(Nat) /\ x13 \subseteq Nat /\ x11 \in 0..MaxSession /\ x8 \in Nat
         /\ Segments \subseteq Nat /\ Lately \subseteq 0..MaxSession /\ x7 \in Seq(Nat)
<1>1. /\ MaxSession \in Nat /\ Opened \in Nat /\ Opened >= 1 /\ Opened <= x1 /\ x1 \in Nat /\ x1 <= MaxSession
      /\ x12 \in Seq(Chat!Sessions) /\ x13 \subseteq Chat!Sessions /\ x11 \in 0..MaxSession /\ x8 \in Nat
      /\ x7 \in Seq(Chat!Sessions)
  <2>1. /\ x1 \in Chat!Sessions /\ x7 \in Seq(Chat!Sessions) /\ x8 \in 0..MaxSession
        /\ x11 \in Chat!Sessions \cup {0} /\ x12 \in Seq(Chat!Sessions) /\ x13 \subseteq Chat!Sessions /\ Opened <= x1
    BY DEF ChatInv, Chat!TypeOK, Chat!None
  <2>2. MaxSession \in Nat /\ Opened \in 1..MaxSession
    BY TabAssumption
  <2>. QED BY <2>1, <2>2 DEF Chat!Sessions
<1>2. Chat!Sessions \subseteq Nat
  BY <1>1 DEF Chat!Sessions
<1>3. Lately \subseteq 0..MaxSession
  BY <1>1 DEF Lately
<1>4. x12 \in Seq(Nat) /\ x13 \subseteq Nat /\ x7 \in Seq(Nat)
  <2>1. \A S, T : S \subseteq T => Seq(S) \subseteq Seq(T)
    OBVIOUS
  <2>. QED BY <1>1, <1>2, <2>1
<1>5. Segments \subseteq Nat
  BY <1>4 DEF Segments
<1>. QED BY <1>1, <1>3, <1>4, <1>5

LEMMA ChatInit == ASSUME Chat!Init PROVE ChatInv
<1>1. Opened \in Nat /\ MaxSession \in Nat /\ Opened \in Chat!Sessions
  BY TabAssumption DEF Chat!Sessions
<1>2. /\ x1 = Opened /\ x2 = FALSE /\ x3 = 0 /\ x4 = [k \in Chat!Kinds |-> [step |-> "none", asked |-> 0]]
      /\ x5 = "none" /\ x6 = [id |-> 0, on |-> FALSE] /\ x7 = <<>> /\ x8 = 0 /\ x9 = FALSE /\ x10 = 0 /\ x11 = 0
      /\ x12 = <<>> /\ x13 = {}
  BY DEF Chat!Init, Chat!NoLoad, Chat!Nothing, Chat!None
<1>3. x4 \in [Chat!Kinds -> [step : {"none", "get", "hist"}, asked : Chat!Sessions \cup {0}]]
  BY <1>2
<1>4. Chat!TypeOK
  <2>1. [id |-> 0, on |-> FALSE] \in [id : Chat!Sessions \cup {0}, on : BOOLEAN]
    OBVIOUS
  <2>2. <<>> \in Seq(Chat!Sessions) /\ 0 \in 0..MaxSession
    BY <1>1
  <2>. QED BY <1>1, <1>2, <1>3, <2>1, <2>2 DEF Chat!TypeOK, Chat!None
<1>5. 0 \in Lately /\ Segments = {} /\ Placed(x12, x13)
  BY <1>2 DEF Lately, Segments, Placed
<1>6. \A k \in Chat!Kinds : x4[k].step = "none"
  BY <1>2
<1>. QED BY <1>1, <1>2, <1>4, <1>5, <1>6 DEF ChatInv

\* What is shown of former sessions stays or is added to at the end.
LEMMA SegmentsStay ==
  ASSUME ChatInv, Chat!TypeOK', x1' >= x1, x3' \in Lately', x6'.id \in Lately', x10' \in Lately',
         \A k \in Chat!Kinds : x4'[k].step = "hist" => x4'[k].asked \in Lately' \ {0},
         UNCHANGED <<x7, x8, x11, x13>>, NEW id \in Lately \ {0}, x12' \in {x12, Append(x12, id)}
  PROVE  ChatInv'
<1>1. /\ MaxSession \in Nat /\ Opened \in Nat /\ Opened >= 1 /\ Opened <= x1 /\ x1 \in Nat /\ x1 <= MaxSession
      /\ x12 \in Seq(Nat) /\ x13 \subseteq Nat /\ id \in Nat /\ id >= Opened /\ x11 \in 0..MaxSession
      /\ Segments \subseteq Nat /\ x7 \in Seq(Nat)
  BY ChatTypes DEF Lately
<1>0. x1' \in Nat
  <2>1. x1' \in Chat!Sessions
    BY DEF Chat!TypeOK
  <2>. QED BY <1>1, <2>1 DEF Chat!Sessions
<1>2. Segments \subseteq Segments' /\ Segments' \subseteq Segments \cup {id}
  <2>1. CASE x12' = x12
    BY <2>1 DEF Segments
  <2>2. CASE x12' = Append(x12, id)
    BY <1>1, <2>2 DEF Segments
  <2>. QED BY <2>1, <2>2
<1>3. Accounted \subseteq Accounted' /\ Lately \subseteq Lately'
  <2>. QED BY <1>0, <1>1, <1>2 DEF Accounted, Lately
<1>4. x7' = <<>> \/ \E s \in Lately' \ {0} : x7' = Chat!Former(s)
  BY <1>3 DEF ChatInv
<1>5. \A i \in 1..Len(x7') : i <= x8' => x7'[i] \in Accounted'
  BY <1>3 DEF ChatInv
<1>6. x11' # 0 => /\ x8' < MaxSession
                  /\ x11' < Opened => x11' \notin Segments' /\ x11' + 1..Opened - 1 \subseteq Accounted'
  BY <1>1, <1>2, <1>3 DEF ChatInv
<1>7. ASSUME NEW r \in Segments' PROVE r..Opened - 1 \subseteq Accounted'
  <2>1. CASE r \in Segments
    BY <1>3, <2>1 DEF ChatInv
  <2>2. CASE r = id
    BY <1>1, <2>2
  <2>. QED BY <1>2, <2>1, <2>2
<1>8. Placed(x12', x13')
  <2>1. CASE x12' = x12
    BY <2>1 DEF ChatInv
  <2>2. CASE x12' = Append(x12, id)
    <3> SUFFICES ASSUME NEW i \in 1..Len(x12'), NEW j \in 1..Len(x12'), i < j, x12'[i] >= x12'[j]
                 PROVE  x12'[i] >= Opened \/ x12'[i] \in x13
      BY DEF Placed
    <3>1. CASE j \in 1..Len(x12)
      BY <1>1, <2>2, <3>1 DEF ChatInv, Placed
    <3>2. CASE j = Len(x12) + 1
      <4>1. x12'[j] = id
        BY <1>1, <2>2, <3>2
      <4>2. i \in 1..Len(x12)
        BY <1>1, <2>2, <3>2
      <4>3. x12'[i] = x12[i] /\ x12[i] \in Nat
        BY <1>1, <2>2, <4>2
      <4>. QED BY <1>1, <4>1, <4>3
    <3>3. Len(x12') = Len(x12) + 1 /\ Len(x12) \in Nat
      BY <1>1, <2>2
    <3>4. j \in 1..Len(x12) \/ j = Len(x12) + 1
      BY <3>3
    <3>. QED BY <3>1, <3>2, <3>4
  <2>. QED BY <2>1, <2>2
<1>9. Opened <= x1'
  BY <1>0, <1>1
<1>. QED BY <1>4, <1>5, <1>6, <1>7, <1>8, <1>9 DEF ChatInv

LoadRow == [step : {"none", "get", "hist"}, asked : Chat!Sessions \cup {0}]
LEMMA RowTypes ==
  ASSUME ChatInv
  PROVE  /\ x1 \in Chat!Sessions /\ x2 \in BOOLEAN /\ x3 \in Chat!Sessions \cup {0}
         /\ x4 \in [Chat!Kinds -> LoadRow] /\ x5 \in {"none", "new", "new done"}
         /\ x6 \in [id : Chat!Sessions \cup {0}, on : BOOLEAN] /\ x7 \in Seq(Chat!Sessions) /\ x8 \in 0..MaxSession
         /\ x9 \in BOOLEAN /\ x10 \in Chat!Sessions \cup {0} /\ x11 \in Chat!Sessions \cup {0}
         /\ x12 \in Seq(Chat!Sessions) /\ x13 \subseteq Chat!Sessions
         /\ x3 \in Lately /\ x6.id \in Lately /\ x10 \in Lately /\ x6.id \in Chat!Sessions \cup {0}
         /\ \A k \in Chat!Kinds : x4[k].step = "hist" => x4[k].asked \in Lately \ {0}
  BY DEF ChatInv, Chat!TypeOK, LoadRow, Chat!None

LEMMA LatelyIs == ASSUME ChatInv PROVE /\ Lately \subseteq Chat!Sessions \cup {0} /\ x1 \in Lately \ {0} /\ 0 \in Lately
                                       /\ Opened \in Lately \ {0}
  BY ChatTypes DEF Lately, Chat!Sessions

\* The loads of messages, and what a step has to say of them.
LEMMA LoadsGo ==
  ASSUME ChatInv, NEW k \in Chat!Kinds, NEW step \in {"none", "get", "hist"}, NEW asked \in Chat!Sessions \cup {0},
         step = "hist" => asked \in Lately \ {0},
         x4' \in {x4, [x4 EXCEPT ![k] = [step |-> step, asked |-> asked]]}
  PROVE  /\ x4' \in [Chat!Kinds -> LoadRow]
         /\ \A c \in Chat!Kinds : x4'[c].step = "hist" => x4'[c].asked \in Lately \ {0}
<1>1. x4 \in [Chat!Kinds -> LoadRow] /\ \A c \in Chat!Kinds : x4[c].step = "hist" => x4[c].asked \in Lately \ {0}
  BY RowTypes
<1>2. [step |-> step, asked |-> asked] \in LoadRow
  BY DEF LoadRow
<1>. QED BY <1>1, <1>2

LEMMA LatelyGrows ==
  ASSUME ChatInv, x1' \in Chat!Sessions, x1' >= x1
  PROVE  Lately \subseteq Lately'
<1>1. MaxSession \in Nat /\ x1 \in Nat /\ Opened \in Nat
  BY ChatTypes
<1>2. x1' \in Nat
  BY <1>1 DEF Chat!Sessions
<1>. QED BY <1>1, <1>2 DEF Lately

LEMMA Appended == ASSUME NEW T, NEW q \in Seq(T), NEW e \in T PROVE Append(q, e) \in Seq(T)
  OBVIOUS

LEMMA ThenGoes ==
  ASSUME ChatInv, x6' = x6 \/ x6' = [id |-> IF x2 THEN x3 ELSE 0, on |-> TRUE]
  PROVE  x6' \in [id : Lately, on : BOOLEAN]
<1>1. x3 \in Lately /\ 0 \in Lately /\ x6 \in [id : Chat!Sessions \cup {0}, on : BOOLEAN] /\ x6.id \in Lately
  BY RowTypes, LatelyIs
<1>2. CASE x6' = x6
  BY <1>1, <1>2
<1>3. CASE x6' = [id |-> IF x2 THEN x3 ELSE 0, on |-> TRUE]
  <2>1. (IF x2 THEN x3 ELSE 0) \in Lately
    BY <1>1
  <2>. QED BY <1>3, <2>1
<1>. QED BY <1>2, <1>3

LEMMA ChatMoves ==
  ASSUME ChatInv, x1' \in Chat!Sessions, x1' >= x1, x2' \in BOOLEAN, x3' \in Lately,
         x4' \in [Chat!Kinds -> LoadRow],
         \A k \in Chat!Kinds : x4'[k].step = "hist" => x4'[k].asked \in Lately \ {0},
         x5' \in {"none", "new", "new done"}, x6' \in [id : Lately, on : BOOLEAN], x10' \in Lately,
         x12' = x12 \/ (x6.id # 0 /\ x12' = Append(x12, x6.id)), UNCHANGED <<x7, x8, x9, x11, x13>>
  PROVE  ChatInv'
<1>1. Lately \subseteq Lately'
  BY LatelyGrows
<1>2. Lately \subseteq Chat!Sessions \cup {0} /\ x6'.id \in Lately
  BY LatelyIs
<1>3. x6' \in [id : Chat!Sessions \cup {0}, on : BOOLEAN]
  BY <1>2
<1>4. x12' \in Seq(Chat!Sessions)
  <2>1. x12 \in Seq(Chat!Sessions) /\ x6.id \in Chat!Sessions \cup {0}
    BY RowTypes
  <2>2. CASE x12' = x12
    BY <2>1, <2>2
  <2>3. CASE x6.id # 0 /\ x12' = Append(x12, x6.id)
    <3>1. x6.id \in Chat!Sessions
      BY <2>1, <2>3
    <3>. QED BY <2>1, <2>3, <3>1, Appended
  <2>. QED BY <2>2, <2>3
<1>5. Chat!TypeOK'
  <2>1. x3' \in Chat!Sessions \cup {0} /\ x10' \in Chat!Sessions \cup {0}
    BY <1>2
  <2>2. /\ x7' \in Seq(Chat!Sessions) /\ x8' \in 0..MaxSession /\ x9' \in BOOLEAN
        /\ x11' \in Chat!Sessions \cup {0} /\ x13' \subseteq Chat!Sessions
    BY RowTypes
  <2>. QED BY <1>3, <1>4, <2>1, <2>2 DEF Chat!TypeOK, LoadRow, Chat!None
<1>6. PICK id \in Lately \ {0} : x12' \in {x12, Append(x12, id)}
  BY RowTypes, LatelyIs
<1>7. \A k \in Chat!Kinds : x4'[k].step = "hist" => x4'[k].asked \in Lately' \ {0}
  BY <1>1
<1>8. x3' \in Lately' /\ x6'.id \in Lately' /\ x10' \in Lately'
  BY <1>1, <1>2
<1>. QED BY <1>5, <1>6, <1>7, <1>8, SegmentsStay

LEMMA Onwards ==
  ASSUME ChatInv, x1' = x1 \/ (x1 < MaxSession /\ x1' = x1 + 1)
  PROVE  x1' \in Chat!Sessions /\ x1' >= x1
<1>1. MaxSession \in Nat /\ x1 \in Nat /\ x1 <= MaxSession /\ x1 >= 1
  <2>1. Opened \in Nat /\ Opened >= 1 /\ Opened <= x1 /\ MaxSession \in Nat /\ x1 \in Nat /\ x1 <= MaxSession
    BY ChatTypes
  <2>. QED BY <2>1
<1>. QED BY <1>1 DEF Chat!Sessions

LEMMA ThenIs == ASSUME ChatInv PROVE x6 \in [id : Lately, on : BOOLEAN]
<1>1. x6 \in [id : Chat!Sessions \cup {0}, on : BOOLEAN] /\ x6.id \in Lately
  BY RowTypes
<1>. QED BY <1>1

LEMMA ChatStill ==
  ASSUME ChatInv, NEW k \in Chat!Kinds, NEW step \in {"none", "get", "hist"}, NEW asked \in Chat!Sessions \cup {0},
         step = "hist" => asked \in Lately \ {0},
         x4' \in {x4, [x4 EXCEPT ![k] = [step |-> step, asked |-> asked]]},
         x2' \in BOOLEAN, UNCHANGED <<x1, x3, x5, x6, x7, x8, x9, x10, x11, x12, x13>>
  PROVE  ChatInv'
<1>1. /\ x4' \in [Chat!Kinds -> LoadRow]
      /\ \A c \in Chat!Kinds : x4'[c].step = "hist" => x4'[c].asked \in Lately \ {0}
  BY LoadsGo
<1>2. x6' \in [id : Lately, on : BOOLEAN] /\ x1' \in Chat!Sessions /\ x1' >= x1
  BY ThenIs, Onwards
<1>3. x10' \in Lately /\ x3' \in Lately /\ x5' \in {"none", "new", "new done"}
  BY RowTypes
<1>. QED BY <1>1, <1>2, <1>3, ChatMoves

LEMMA ChatFinishes ==
  ASSUME ChatInv, NEW k \in Chat!Kinds, NEW id \in Lately, Chat!Finished(k, id), x2' \in BOOLEAN
  PROVE  ChatInv'
<1>1. /\ x4' = [x4 EXCEPT ![k] = [step |-> "none", asked |-> 0]] /\ x3' = id
      /\ UNCHANGED <<x1, x5, x7, x8, x9, x11, x13>>
  BY DEF Chat!Finished, Chat!NoLoad, Chat!None
<1>2. x10' \in {x10, x1}
  BY DEF Chat!Finished, Chat!Listed
<1>3. /\ x12' = x12 \/ (x6.id # 0 /\ x12' = Append(x12, x6.id))
      /\ x6' \in {x6, [id |-> 0, on |-> FALSE]}
  BY DEF Chat!Finished, Chat!Archive, Chat!Nothing, Chat!None
<1>4. x6' \in [id : Lately, on : BOOLEAN] /\ x10' \in Lately
  <2>1. x6 \in [id : Chat!Sessions \cup {0}, on : BOOLEAN] /\ x6.id \in Lately /\ x10 \in Lately
    BY RowTypes
  <2>2. x6 \in [id : Lately, on : BOOLEAN]
    BY <2>1
  <2>3. [id |-> 0, on |-> FALSE] \in [id : Lately, on : BOOLEAN]
    BY LatelyIs
  <2>. QED BY <1>2, <1>3, <2>1, <2>2, <2>3, LatelyIs
<1>5. /\ x4' \in [Chat!Kinds -> LoadRow]
      /\ \A c \in Chat!Kinds : x4'[c].step = "hist" => x4'[c].asked \in Lately \ {0}
  BY <1>1, LoadsGo
<1>6. x5' \in {"none", "new", "new done"} /\ x3' \in Lately
  BY <1>1, RowTypes
<1>7. x1' \in Chat!Sessions /\ x1' >= x1
  BY <1>1, Onwards
<1>. QED BY <1>1, <1>3, <1>4, <1>5, <1>6, <1>7, ChatMoves

LEMMA ChatLoads ==
  ASSUME ChatInv, NEW k \in Chat!Kinds, Chat!Load(k) \/ Chat!GotMessages(k) \/ Chat!GotId(k) \/ Chat!LoadFails(k)
  PROVE  ChatInv'
<1>1. CASE Chat!Load(k)
  <2>1. x4' \in {x4, [x4 EXCEPT ![k] = [step |-> "get", asked |-> 0]]}
        /\ UNCHANGED <<x1, x2, x3, x5, x6, x7, x8, x9, x10, x11, x12, x13>>
    BY <1>1 DEF Chat!Load, Chat!Begin, Chat!history, Chat!None
  <2>2. x2' \in BOOLEAN
    BY <2>1, RowTypes
  <2>. QED BY <2>1, <2>2, ChatStill
<1>2. CASE Chat!GotMessages(k)
  <2>1. x4' \in {x4, [x4 EXCEPT ![k] = [step |-> "hist", asked |-> x1]]}
        /\ x2' = TRUE /\ UNCHANGED <<x1, x3, x5, x6, x7, x8, x9, x10, x11, x12, x13>>
    BY <1>2 DEF Chat!GotMessages, Chat!history
  <2>2. x1 \in Chat!Sessions \cup {0} /\ x1 \in Lately \ {0}
    BY RowTypes, LatelyIs
  <2>. QED BY <2>1, <2>2, ChatStill
<1>3. CASE Chat!GotId(k)
  <2>1. PICK id \in x4[k].asked..x1 : Chat!Finished(k, id)
    BY <1>3 DEF Chat!GotId
  <2>2. x4[k].asked \in Lately \ {0} /\ x2' = x2
    BY <1>3, RowTypes DEF Chat!GotId
  <2>3. id \in Lately
    BY <2>2, ChatTypes DEF Lately
  <2>. QED BY <2>1, <2>2, <2>3, ChatFinishes, RowTypes
<1>4. CASE Chat!LoadFails(k)
  <2>1. Chat!Finished(k, x3) /\ x2' \in BOOLEAN /\ x3 \in Lately
    BY <1>4, RowTypes DEF Chat!LoadFails
  <2>. QED BY <2>1, ChatFinishes
<1>. QED BY <1>1, <1>2, <1>3, <1>4

LEMMA ChatCommands ==
  ASSUME ChatInv, Chat!SendNew \/ Chat!Done \/ Chat!FinalNew \/ Chat!SlashFails \/ Chat!ReconcileSlash \/ Chat!OtherReset
  PROVE  ChatInv'
<1>1. /\ x1' = x1 \/ (x1 < MaxSession /\ x1' = x1 + 1)
      /\ x5' \in {x5, "none", "new", "new done"} /\ x10' \in {x10, x1}
      /\ x4' \in {x4, [x4 EXCEPT !["silent"] = [step |-> "get", asked |-> 0]]}
      /\ x6' = x6 \/ x6' = [id |-> IF x2 THEN x3 ELSE 0, on |-> TRUE]
      /\ UNCHANGED <<x2, x3, x7, x8, x9, x11, x12, x13>>
  BY DEF Chat!SendNew, Chat!Done, Chat!FinalNew, Chat!SlashFails, Chat!ReconcileSlash, Chat!OtherReset,
         Chat!Begin, Chat!Listed, Chat!history, Chat!loads, Chat!None
<1>2. x1' \in Chat!Sessions /\ x1' >= x1
  BY <1>1, Onwards
<1>3. "silent" \in Chat!Kinds
  BY DEF Chat!Kinds
<1>4. /\ x4' \in [Chat!Kinds -> LoadRow]
      /\ \A c \in Chat!Kinds : x4'[c].step = "hist" => x4'[c].asked \in Lately \ {0}
  BY <1>1, <1>3, LoadsGo
<1>5. x6' \in [id : Lately, on : BOOLEAN]
  BY <1>1, ThenGoes
<1>6. x2' \in BOOLEAN /\ x3' \in Lately /\ x5' \in {"none", "new", "new done"} /\ x10' \in Lately
  BY <1>1, RowTypes, LatelyIs
<1>. QED BY <1>1, <1>2, <1>4, <1>5, <1>6, ChatMoves

LEMMA ListComes == ASSUME ChatInv, Chat!ListAnswered \/ Chat!ListFails PROVE ChatInv'
<1>1. /\ UNCHANGED <<x1, x2, x3, x4, x5, x6, x11, x12, x13>> /\ x10' = 0 /\ x9' \in BOOLEAN
      /\ \/ x7' = <<>> /\ x8' = x8
         \/ x8' = 0 /\ x10 # 0 /\ \E s \in x10..x1 : x7' = Chat!Former(s)
  BY DEF Chat!ListAnswered, Chat!ListFails, Chat!loads, Chat!None
<1>2. Lately' = Lately /\ Accounted' = Accounted /\ Segments' = Segments
  BY <1>1 DEF Lately, Accounted, Segments
<1>3. x7' = <<>> \/ \E s \in Lately \ {0} : x7' = Chat!Former(s)
  <2>1. x10 # 0 => x10..x1 \subseteq Lately \ {0}
    <3>1. x10 \in Lately
      BY RowTypes
    <3>. QED BY <3>1, ChatTypes DEF Lately
  <2>. QED BY <1>1, <2>1
<1>4. x7' \in Seq(Chat!Sessions)
  <2>1. \A s \in Lately \ {0} : s \in Chat!Sessions
    BY LatelyIs
  <2>2. ASSUME NEW s \in Lately \ {0}, x7' = Chat!Former(s) PROVE x7' \in Seq(Chat!Sessions)
    BY <2>1, <2>2, Former
  <2>3. CASE x7' = <<>>
    <3>1. <<>> \in Seq(Chat!Sessions)
      OBVIOUS
    <3>. QED BY <2>3, <3>1, Zenon
  <2>4. CASE x7' # <<>>
    <3>1. PICK s \in Lately \ {0} : x7' = Chat!Former(s)
      BY <1>3, <2>4, Zenon
    <3>. QED BY <2>2, <3>1, Zenon
  <2>. QED BY <2>3, <2>4
<1>5. x8' \in 0..MaxSession /\ (x8' = x8 \/ x8' = 0) /\ x8' <= x8
  <2>1. x8 \in 0..MaxSession /\ MaxSession \in Nat
    BY RowTypes, ChatTypes
  <2>2. x8' = x8 \/ x8' = 0
    BY <1>1
  <2>. QED BY <2>1, <2>2
<1>6. Chat!TypeOK'
  BY <1>1, <1>4, <1>5, RowTypes DEF Chat!TypeOK, LoadRow, Chat!None
<1>7. 0 \in Lately
  BY LatelyIs
<1>8. \A i \in 1..Len(x7') : i <= x8' => x7'[i] \in Accounted'
  <2>1. CASE x7' = <<>>
    BY <2>1
  <2>2. CASE x8' = 0
    <3>1. \A i \in 1..Len(x7') : ~(i <= x8')
      BY <1>4, <2>2
    <3>. QED BY <3>1
  <2>. QED BY <1>1, <2>1, <2>2
<1>9. x11' # 0 => /\ x8' < MaxSession
                  /\ x11' < Opened => x11' \notin Segments' /\ x11' + 1..Opened - 1 \subseteq Accounted'
  <2>1. x8 < MaxSession => x8' < MaxSession
    BY <1>5, ChatTypes
  <2>. QED BY <1>1, <1>2, <2>1 DEF ChatInv
<1>. QED BY <1>1, <1>2, <1>3, <1>6, <1>7, <1>8, <1>9 DEF ChatInv

\* What follows of a list, and of the sessions that are passed over.
LEMMA FormerIs ==
  ASSUME ChatInv
  PROVE  x7 # <<>> => \E s \in Opened..x1 : /\ Len(x7) = s - 1 /\ Len(x7) < MaxSession
                                            /\ \A i \in 1..s - 1 : x7[i] = s - i
<1> SUFFICES ASSUME x7 # <<>>
             PROVE \E s \in Opened..x1 : /\ Len(x7) = s - 1 /\ Len(x7) < MaxSession
                                         /\ \A i \in 1..s - 1 : x7[i] = s - i
  OBVIOUS
<1>1. PICK s \in Lately \ {0} : x7 = Chat!Former(s)
  BY DEF ChatInv
<1>2. s \in Opened..x1 /\ s \in Chat!Sessions
  BY <1>1, LatelyIs DEF Lately
<1>3. s - 1 < MaxSession
  BY <1>2, ChatTypes
<1>. QED BY <1>1, <1>2, <1>3, Former

LEMMA SegmentIs == ASSUME ChatInv, NEW s PROVE Chat!HasSegment(s) <=> s \in Segments
  BY DEF Chat!HasSegment, Chat!Contains, Segments

\* The next session that has no segment, if there is one.
LEMMA SkippedIs ==
  ASSUME ChatInv
  PROVE  /\ Chat!Skipped \in Nat /\ Chat!Skipped <= Len(x7)
         /\ Chat!Skipped < Len(x7) => x8 <= Chat!Skipped /\ x7[Chat!Skipped + 1] \notin Segments
         /\ \A i \in 1..Len(x7) : i <= Chat!Skipped => i <= x8 \/ x7[i] \in Segments
<1> DEFINE left == {i \in x8..Len(x7) - 1 : ~Chat!HasSegment(x7[i + 1])}
           least == CHOOSE i \in left : \A j \in left : i <= j
<1>0. Chat!Skipped = IF left = {} THEN Len(x7) ELSE least
  BY DEF Chat!Skipped
<1>1. x8 \in Nat /\ Len(x7) \in Nat /\ left \subseteq Nat
  BY ChatTypes
<1>2. ASSUME NEW i \in 1..Len(x7), ~(i <= x8), x7[i] \notin Segments PROVE i - 1 \in left
  <2> DEFINE j == i - 1
  <2>1. j \in x8..Len(x7) - 1 /\ i = j + 1
    BY <1>1, <1>2
  <2>2. ~Chat!HasSegment(x7[i])
    BY <1>2, SegmentIs
  <2> HIDE DEF j
  <2>3. j \in left
    BY <2>1, <2>2
  <2>. QED BY <2>3 DEF j
<1>3. \A i \in left : i \in x8..Len(x7) - 1 /\ x7[i + 1] \notin Segments
  BY SegmentIs
<1>4. CASE left = {}
  <2>1. Chat!Skipped = Len(x7)
    BY <1>0, <1>4
  <2>2. \A i \in 1..Len(x7) : i <= x8 \/ x7[i] \in Segments
    BY <1>2, <1>4
  <2>. QED BY <1>1, <2>1, <2>2
<1>5. CASE left # {}
  <2>1. \E i \in left : \A j \in left : i <= j
    BY <1>1, <1>5, Smallest
  <2>2. least \in left /\ \A j \in left : least <= j
    <3> HIDE DEF left
    <3>. QED BY <2>1
  <2>3. Chat!Skipped \in left /\ \A j \in left : Chat!Skipped <= j
    BY <1>0, <1>5, <2>2
  <2> HIDE DEF left
  <2>4. Chat!Skipped \in x8..Len(x7) - 1 /\ x7[Chat!Skipped + 1] \notin Segments
    BY <1>3, <2>3
  <2>5. ASSUME NEW i \in 1..Len(x7), i <= Chat!Skipped, ~(i <= x8), x7[i] \notin Segments PROVE FALSE
    <3>1. Chat!Skipped <= i - 1
      BY <1>2, <2>3, <2>5
    <3>. QED BY <1>1, <2>4, <2>5, <3>1
  <2>. QED BY <1>1, <2>4, <2>5
<1>. QED BY <1>4, <1>5

LEMMA SkippedBound == ASSUME ChatInv PROVE Chat!Skipped \in 0..MaxSession
<1>1. Chat!Skipped \in Nat /\ Chat!Skipped <= Len(x7) /\ Len(x7) \in Nat /\ MaxSession \in Nat
  BY SkippedIs, ChatTypes
<1>2. Len(x7) <= MaxSession
  <2>1. CASE x7 = <<>>
    BY <1>1, <2>1
  <2>2. CASE x7 # <<>>
    BY <1>1, <2>2, FormerIs
  <2>. QED BY <2>1, <2>2
<1>. QED BY <1>1, <1>2

LEMMA Fronted ==
  ASSUME NEW T, NEW q \in Seq(T), NEW e \in T
  PROVE  /\ <<e>> \o q \in Seq(T) /\ Len(<<e>> \o q) = Len(q) + 1 /\ (<<e>> \o q)[1] = e
         /\ \A i \in 2..Len(q) + 1 : (<<e>> \o q)[i] = q[i - 1]
  OBVIOUS

LEMMA NextAsked == ASSUME ChatInv, Chat!LoadNext PROVE ChatInv'
<1> DEFINE n == Chat!Skipped
<1>1. /\ x11 = 0 /\ UNCHANGED <<x1, x2, x3, x4, x5, x6, x7, x10, x12, x13>> /\ x8' = n
      /\ \/ n >= Len(x7) /\ x9' = TRUE /\ x11' = x11
         \/ ~(n >= Len(x7)) /\ x9' = x9 /\ x11' \in {x7[n + 1], 0}
  BY DEF Chat!LoadNext, Chat!loads, Chat!None
<1>2. /\ n \in Nat /\ Len(x7) \in Nat /\ (n < Len(x7) => x7[n + 1] \notin Segments)
      /\ \A i \in 1..Len(x7) : i <= n => i <= x8 \/ x7[i] \in Segments
  BY SkippedIs, ChatTypes
<1> HIDE DEF n
<1>3. Lately' = Lately /\ Accounted' = Accounted /\ Segments' = Segments
  BY <1>1 DEF Lately, Accounted, Segments
<1>4. \A i \in 1..Len(x7') : i <= x8' => x7'[i] \in Accounted'
  BY <1>1, <1>2, <1>3 DEF ChatInv, Accounted
<1>5. n \in 0..MaxSession
  BY SkippedBound DEF n
<1>6. ASSUME n < Len(x7)
      PROVE  /\ x7[n + 1] \in Chat!Sessions /\ n < MaxSession
             /\ x7[n + 1] < Opened => x7[n + 1] + 1..Opened - 1 \subseteq Accounted
  <2>1. PICK s \in Opened..x1 : Len(x7) = s - 1 /\ Len(x7) < MaxSession /\ \A i \in 1..s - 1 : x7[i] = s - i
    <3>1. x7 # <<>>
      BY <1>2, <1>6
    <3>. QED BY <3>1, FormerIs
  <2>2. s \in Nat /\ s >= Opened /\ Opened \in Nat /\ x7[n + 1] = s - (n + 1) /\ MaxSession \in Nat
    BY <1>2, <1>6, <2>1, ChatTypes
  <2>3. ASSUME NEW z \in x7[n + 1] + 1..Opened - 1 PROVE z \in Accounted
    <3> DEFINE i == s - z
    <3>1. z \in Nat /\ i \in 1..s - 1 /\ i <= n /\ s - i = z
      BY <1>2, <1>6, <2>1, <2>2
    <3> HIDE DEF i
    <3>2. x7[i] = z
      BY <2>1, <3>1
    <3>3. i \in 1..Len(x7) /\ i <= n
      BY <2>1, <3>1
    <3>. QED BY <1>1, <1>3, <1>4, <3>2, <3>3
  <2>4. x7[n + 1] \in Chat!Sessions
    <3>1. n + 1 \in 1..Len(x7)
      BY <1>2, <1>6
    <3>2. x7 \in Seq(Chat!Sessions)
      BY RowTypes
    <3>. QED BY <3>1, <3>2, ElementOfSeq
  <2>. QED BY <1>2, <1>6, <2>1, <2>2, <2>3, <2>4
<1>7. x11' \in Chat!Sessions \cup {0} /\ x9' \in BOOLEAN
  <2>1. x11 \in Chat!Sessions \cup {0} /\ x9 \in BOOLEAN
    BY RowTypes
  <2>2. CASE n >= Len(x7) /\ x9' = TRUE /\ x11' = x11
    BY <2>1, <2>2
  <2>3. CASE ~(n >= Len(x7)) /\ x9' = x9 /\ x11' \in {x7[n + 1], 0}
    <3>1. x7[n + 1] \in Chat!Sessions
      BY <1>2, <1>6, <2>3
    <3>. QED BY <2>1, <2>3, <3>1
  <2>. QED BY <1>1, <2>2, <2>3
<1>8. Chat!TypeOK'
  BY <1>1, <1>5, <1>7, RowTypes DEF Chat!TypeOK, LoadRow, Chat!None
<1>9. x11' # 0 => /\ x8' < MaxSession
                  /\ x11' < Opened => x11' \notin Segments' /\ x11' + 1..Opened - 1 \subseteq Accounted'
  BY <1>1, <1>2, <1>3, <1>6
<1>. QED BY <1>1, <1>3, <1>4, <1>8, <1>9 DEF ChatInv

\* It is answered, or it fails: the count goes on, and what it leaves behind without
\* a segment was passed over.
LEMMA NextComes == ASSUME ChatInv, Chat!NextAnswered \/ Chat!NextFails PROVE ChatInv'
<1> DEFINE got == IF Chat!NextAnswered THEN x11 ELSE 0
           more == {x7[i] : i \in {j \in 1..Len(x7) : j <= x8 + 1 /\ x7[j] # got /\ ~Chat!HasSegment(x7[j])}}
<1>1. /\ x11 # 0 /\ x11' = 0 /\ UNCHANGED <<x1, x2, x3, x4, x5, x6, x7, x10>> /\ x8' = x8 + 1 /\ x9' \in BOOLEAN
      /\ x13' = x13 \cup more
      /\ \/ got = x11 /\ x12' = <<x11>> \o x12
         \/ got = 0 /\ x12' = x12
  <2>1. CASE Chat!NextAnswered
    BY <2>1, RowTypes DEF Chat!NextAnswered, Chat!Counted, Chat!loads, Chat!None
  <2>2. CASE ~Chat!NextAnswered
    BY <2>2, RowTypes DEF Chat!NextFails, Chat!Counted, Chat!loads, Chat!None
  <2>. QED BY <2>1, <2>2
<1> HIDE DEF got
<1>2. /\ x8 \in Nat /\ MaxSession \in Nat /\ x8 < MaxSession /\ x11 \in Nat /\ x12 \in Seq(Nat) /\ Opened \in Nat
      /\ x7 \in Seq(Nat) /\ Segments \subseteq Nat /\ x13 \subseteq Nat
      /\ x11 < Opened => x11 \notin Segments /\ x11 + 1..Opened - 1 \subseteq Accounted
  BY <1>1, ChatTypes DEF ChatInv
<1>3. /\ Segments \subseteq Segments' /\ Segments' \subseteq Segments \cup {x11}
      /\ got = x11 => Segments' = Segments \cup {x11}
  <2>1. CASE x12' = <<x11>> \o x12
    BY <1>1, <1>2, <2>1, Fronted DEF Segments
  <2>2. CASE x12' = x12
    BY <1>1, <2>2 DEF Segments
  <2>. QED BY <1>1, <2>1, <2>2
<1>4. Accounted \subseteq Accounted' /\ Lately' = Lately
  BY <1>1, <1>3 DEF Accounted, Lately
<1>5. \A i \in 1..Len(x7') : i <= x8' => x7'[i] \in Accounted'
  <2> SUFFICES ASSUME NEW i \in 1..Len(x7), i <= x8 + 1 PROVE x7[i] \in Accounted'
    BY <1>1
  <2>1. CASE x7[i] = got
    <3>1. x7[i] \in Chat!Sessions
      BY RowTypes, ElementOfSeq
    <3>2. x7[i] # 0
      BY <3>1, <1>2 DEF Chat!Sessions
    <3>. QED BY <1>1, <1>3, <2>1, <3>2 DEF Accounted
  <2>2. CASE x7[i] \in Segments
    BY <1>3, <2>2 DEF Accounted
  <2>3. CASE x7[i] # got /\ x7[i] \notin Segments
    <3>1. x7[i] \in more
      BY <2>3, SegmentIs
    <3>. QED BY <1>1, <3>1 DEF Accounted
  <2>. QED BY <2>1, <2>2, <2>3
<1>6. Chat!TypeOK'
  <2>1. more \subseteq Chat!Sessions
    <3>1. \A j \in 1..Len(x7) : x7[j] \in Chat!Sessions
      BY RowTypes, ElementOfSeq
    <3>. QED BY <3>1
  <2>2. x12' \in Seq(Chat!Sessions)
    <3>1. x11 \in Chat!Sessions /\ x12 \in Seq(Chat!Sessions)
      BY <1>1, RowTypes
    <3>2. <<x11>> \o x12 \in Seq(Chat!Sessions)
      BY <3>1, Fronted
    <3>. QED BY <1>1, <3>1, <3>2
  <2>3. x8' \in 0..MaxSession
    BY <1>1, <1>2
  <2> HIDE DEF more
  <2>. QED BY <1>1, <2>1, <2>2, <2>3, RowTypes DEF Chat!TypeOK, LoadRow, Chat!None
<1> HIDE DEF more
<1>7. ASSUME NEW r \in Segments' PROVE r..Opened - 1 \subseteq Accounted'
  <2>1. CASE r \in Segments
    BY <1>4, <2>1 DEF ChatInv
  <2>2. CASE r = x11 /\ x11 \in Segments'
    <3>1. x11 \in Accounted'
      BY <2>2 DEF Accounted
    <3>2. \A z \in x11..Opened - 1 : z = x11 \/ z \in x11 + 1..Opened - 1
      BY <1>2
    <3>3. x11 < Opened => x11..Opened - 1 \subseteq Accounted'
      BY <1>2, <1>4, <3>1, <3>2
    <3>4. ~(x11 < Opened) => x11..Opened - 1 = {}
      BY <1>2
    <3>. QED BY <2>2, <3>3, <3>4
  <2>. QED BY <1>3, <2>1, <2>2
<1>8. Placed(x12', x13')
  <2>1. CASE x12' = x12
    BY <1>1, <2>1 DEF ChatInv, Placed
  <2>2. CASE x12' = <<x11>> \o x12
    <3>0. /\ Len(x12') = Len(x12) + 1 /\ x12'[1] = x11
          /\ \A i \in 2..Len(x12) + 1 : x12'[i] = x12[i - 1]
      BY <1>2, <2>2, Fronted
    <3> SUFFICES ASSUME NEW i \in 1..Len(x12'), NEW j \in 1..Len(x12'), i < j, x12'[i] >= x12'[j]
                 PROVE  x12'[i] >= Opened \/ x12'[i] \in x13'
      BY DEF Placed
    <3>1. CASE i = 1
      <4> DEFINE k == j - 1
      <4>1. k \in 1..Len(x12) /\ x12'[j] = x12[k] /\ x12'[i] = x11
        BY <1>2, <3>0, <3>1
      <4> HIDE DEF k
      <4>2. x12[k] \in Segments /\ x12[k] \in Nat /\ x11 >= x12[k]
        BY <1>2, <4>1 DEF Segments
      <4>3. x11 < Opened => x11 \in x12[k]..Opened - 1
        BY <1>2, <4>2
      <4>4. x12[k]..Opened - 1 \subseteq Accounted
        BY <4>2 DEF ChatInv
      <4>5. x11 < Opened => x11 \in x13
        BY <1>2, <4>3, <4>4 DEF Accounted
      <4>. QED BY <1>1, <1>2, <4>1, <4>5
    <3>2. CASE i # 1
      <4> DEFINE k == j - 1
                 l == i - 1
      <4>1. k \in 1..Len(x12) /\ x12'[j] = x12[k] /\ l \in 1..Len(x12) /\ x12'[i] = x12[l] /\ l < k
        BY <1>2, <3>0, <3>2
      <4> HIDE DEF k, l
      <4>. QED BY <1>1, <4>1 DEF ChatInv, Placed
    <3>. QED BY <3>1, <3>2
  <2>. QED BY <1>1, <2>1, <2>2
<1>. QED BY <1>1, <1>4, <1>5, <1>6, <1>7, <1>8 DEF ChatInv

LEMMA ChatStep == ChatInv /\ Chat!Next => ChatInv'
  BY ChatLoads, ChatCommands, ListComes, NextAsked, NextComes DEF Chat!Next

LEMMA ChatStays == ChatInv => Chat!Timeline
<1> SUFFICES ASSUME ChatInv PROVE Chat!Timeline
  OBVIOUS
<1>1. Chat!TypeOK /\ Placed(x12, x13)
  BY DEF ChatInv
<1>2. DOMAIN x12 = 1..Len(x12)
  BY ChatTypes
<1>. QED BY <1>1, <1>2 DEF Chat!Timeline, Placed

\* Nothing changes.
LEMMA ChatSame ==
  ASSUME ChatInv, UNCHANGED <<x1, x2, x3, x4, x5, x6, x7, x8, x9, x10, x11, x12, x13>> PROVE ChatInv'
<1>1. Chat!TypeOK'
  BY DEF ChatInv, Chat!TypeOK
<1>2. Lately' = Lately /\ Segments' = Segments /\ Accounted' = Accounted
  BY DEF Lately, Segments, Accounted
<1>3. Placed(x12', x13')
  BY DEF ChatInv
<1>. QED BY <1>1, <1>2, <1>3 DEF ChatInv

LEMMA StoresSame ==
  ASSUME StoresInv, UNCHANGED <<x1, x2, x3, x4, x5, x6, x7, x8, x9, x10>> PROVE StoresInv'
<1>1. Stores!TypeOK'
  BY DEF StoresInv, Stores!TypeOK
<1>. QED BY <1>1 DEF StoresInv, Stores!Held


-----------------------------------------------------------------------------
(* The tab *)

\* The invariant of all three.
TabInv ==
    /\ part = "lists" => ListsInv
    /\ part = "agents" => Agents!NeverStuck
    /\ part = "drafts" => Drafts!DraftsOwn

\* What a tab lists agrees with what it was told: a topic is listed as it was
\* last heard of, nothing of the agents and the dashboard is left loading by a
\* load of an entry that was removed, and drafts are the user's own.
THEOREM TabListsAgree == TabSpec => []ListsAgree
<1>1. TabInit => TabInv
  <2>1. Agents!Init => Agents!NeverStuck
    <3>1. Agents!NoEntry \in Agents!Entry /\ ~Agents!NoEntry.loading
      BY DEF Agents!Entry, Agents!NoEntry
    <3>. QED BY <3>1 DEF Agents!Init, Agents!NeverStuck, Agents!TypeOK
  <2>2. Drafts!Init => Drafts!DraftsOwn
    <3>1. Drafts!NoRefresh \in [on : BOOLEAN, prev : Drafts!Someone, answer : Drafts!Someone]
      BY DEF Drafts!NoRefresh, Drafts!Someone
    <3>2. Nobody \in Drafts!Someone /\ Users \subseteq Drafts!Someone
      BY DEF Drafts!Someone
    <3>3. Drafts!Init => Drafts!TypeOK
      BY <3>1, <3>2 DEF Drafts!Init, Drafts!TypeOK
    <3>4. Drafts!Init => Drafts!Own(x1, x2) /\ \A u \in Users : Drafts!Own(u, x3[u])
      BY <3>2 DEF Drafts!Init, Drafts!Own
    <3>. QED BY <3>3, <3>4 DEF Drafts!DraftsOwn
  <2>. QED BY <2>1, <2>2, ListsInit DEF TabInit, TabInv
<1>2. TabInv /\ [TabNext]_allVars => TabInv'
  <2>1. ASSUME TabInv, UNCHANGED allVars PROVE TabInv'
    <3>1. ListsInv => ListsInv'
      BY <2>1 DEF allVars, ListsInv, TopicsInv, SessionsInv, CarriesHeard
    <3>2. Agents!NeverStuck => Agents!NeverStuck'
      BY <2>1 DEF allVars, Agents!NeverStuck, Agents!TypeOK
    <3>3. Drafts!DraftsOwn => Drafts!DraftsOwn'
      BY <2>1 DEF allVars, Drafts!DraftsOwn, Drafts!TypeOK
    <3>. QED BY <2>1, <3>1, <3>2, <3>3 DEF TabInv, allVars
  <2>2. ASSUME TabInv, TabNext PROVE TabInv'
    BY <2>2, ListsNext, AgentsNext, DraftsNext DEF TabInv, TabNext
  <2>. QED BY <2>1, <2>2
<1>3. TabInv => ListsAgree
  BY ListsImplied DEF TabInv, ListsAgree
<1>. QED BY <1>1, <1>2, <1>3, PTL DEF TabSpec

\* The invariant of the other three.
ShownInv ==
    /\ part = "chat" => ChatInv
    /\ part = "stores" => StoresInv
    /\ part = "turn" => TurnInv(x1, x2, x3)

\* What the page shows of a chat is all there is, once and in order: no former session
\* is left out or comes twice, unless one ended while the chat was open; the store on
\* the screen is the one the manager has; and a turn that was streamed is shown as it
\* is when it is loaded, whatever the agent thought, said and called in it.
THEOREM TabChatShown == TabSpec => []ChatShown
<1>1. TabInit => ShownInv
  BY ChatInit, StoresInit, TurnStarts DEF TabInit, ShownInv
<1>2. ShownInv /\ [TabNext]_allVars => ShownInv'
  <2>1. ASSUME ShownInv, UNCHANGED allVars PROVE ShownInv'
    <3>0. UNCHANGED <<part, x1, x2, x3, x4, x5, x6, x7, x8, x9, x10, x11, x12, x13>>
      BY <2>1 DEF allVars
    <3>1. ChatInv => ChatInv'
      BY <3>0, ChatSame
    <3>2. StoresInv => StoresInv'
      BY <3>0, StoresSame
    <3>3. TurnInv(x1, x2, x3) => TurnInv(x1', x2', x3')
      BY <3>0
    <3>. QED BY <2>1, <3>0, <3>1, <3>2, <3>3 DEF ShownInv
  <2>2. ASSUME ShownInv, TabNext PROVE ShownInv'
    <3>1. part' = part
      BY <2>2 DEF TabNext
    <3>2. ASSUME part = "chat" PROVE ChatInv'
      BY <2>2, <3>2, ChatStep DEF TabNext, ShownInv
    <3>3. ASSUME part = "stores" PROVE StoresInv'
      BY <2>2, <3>3, StoresStep DEF TabNext, ShownInv
    <3>4. ASSUME part = "turn" PROVE TurnInv(x1', x2', x3')
      BY <2>2, <3>4, TurnNext DEF TabNext, ShownInv
    <3>. QED BY <3>1, <3>2, <3>3, <3>4 DEF ShownInv
  <2>. QED BY <2>1, <2>2
<1>3. ShownInv => ChatShown
  BY ChatStays, StoresStay, TurnImplies DEF ShownInv, ChatShown
<1>. QED BY <1>1, <1>2, <1>3, PTL DEF TabSpec

=============================================================================
