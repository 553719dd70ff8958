----------------------------- MODULE UserDrafts -----------------------------
(***************************************************************************)
(* The drafts of the messages of a tab and the user they belong to:        *)
(* src/ui/src/stores/draft.store.js with the actions of auth.store.js that *)
(* change the user.  Of a text the model keeps whose it is; there is one   *)
(* chat.  The API answers in any order.                                    *)
(***************************************************************************)
EXTENDS Naturals

CONSTANTS
    Users,
    Nobody               \* no user is logged in

VARIABLES
    user,                \* auth store: user
    draft,               \* drafts, in memory: whose, or Nobody's: none
    stored,              \* the storage, per user
    refresh,             \* refreshSession: prevUserId, and what it will be answered
    crossed              \* a refresh has come to its end under another user

vars == <<user, draft, stored, refresh, crossed>>

Someone == Users \cup {Nobody}
NoRefresh == [on |-> FALSE, prev |-> Nobody, answer |-> Nobody]

TypeOK ==
    /\ user \in Someone /\ draft \in Someone
    /\ stored \in [Someone -> Someone]
    /\ refresh \in [on : BOOLEAN, prev : Someone, answer : Someone]
    /\ crossed \in BOOLEAN

Init ==
    /\ user = Nobody /\ draft = Nobody /\ stored = [u \in Someone |-> Nobody]
    /\ refresh = NoRefresh /\ crossed = FALSE

-----------------------------------------------------------------------------
(* The draft store *)

\* setDraft and clearDraft
Type == user # Nobody /\ draft' = user /\ UNCHANGED <<user, stored, refresh, crossed>>
Clear == draft' = Nobody /\ UNCHANGED <<user, stored, refresh, crossed>>

\* persist, when the page is hidden or unloaded
Persisted == [stored EXCEPT ![user] = draft]
Hide == stored' = Persisted /\ UNCHANGED <<user, draft, refresh, crossed>>

\* onUserChanged: nothing in memory is kept.  And what is there is, if there is
\* nothing in the storage.
MergeWith(u, st) == IF st[u] = Nobody THEN draft ELSE st[u]
RestoreOf(u, st) == st[u]

\* The page is loaded anew, or the process was killed.
Reload ==
    /\ stored' \in {Persisted, stored}
    /\ user' = Nobody /\ draft' = stored'[Nobody] /\ refresh' = NoRefresh
    /\ UNCHANGED crossed

-----------------------------------------------------------------------------
(* The auth store *)

\* login and register; a login that fails takes the user and leaves the drafts.
Login(u) ==
    /\ user = Nobody
    /\ user' = u /\ draft' = RestoreOf(u, stored)
    /\ UNCHANGED <<stored, refresh, crossed>>

LoginFails ==
    /\ user' = Nobody
    /\ UNCHANGED <<draft, stored, refresh, crossed>>

Logout ==
    /\ user # Nobody
    /\ stored' = Persisted
    /\ user' = Nobody /\ draft' = RestoreOf(Nobody, stored')
    /\ UNCHANGED <<refresh, crossed>>

\* refreshSession: the server answers with the user there is by then.
Refresh(u) ==
    /\ ~refresh.on
    /\ user = Nobody \/ u \in {user, Nobody}
    /\ refresh' = [on |-> TRUE, prev |-> user, answer |-> u]
    /\ UNCHANGED <<user, draft, stored, crossed>>

Refreshed ==
    /\ refresh.on
    /\ user' = refresh.answer
    /\ draft' = IF user' = refresh.prev THEN draft ELSE RestoreOf(user', stored)
    /\ crossed' = (crossed \/ user # refresh.prev)
    /\ refresh' = NoRefresh
    /\ UNCHANGED stored

RefreshFails == refresh.on /\ refresh' = NoRefresh /\ UNCHANGED <<user, draft, stored, crossed>>

Next ==
    \/ Type \/ Clear \/ Hide \/ Reload \/ LoginFails \/ Logout \/ Refreshed \/ RefreshFails
    \/ \E u \in Users : Login(u)
    \/ \E u \in Someone : Refresh(u)

Spec == Init /\ [][Next]_vars

-----------------------------------------------------------------------------
(* Properties *)

\* What is found in the chat is the user's own draft, and what is stored for a
\* user is; unless the answer to a refresh has come under another user than it
\* was asked for.
Own(u, d) == u = Nobody \/ d \in {u, Nobody}
DraftsOwn ==
    /\ TypeOK
    /\ crossed \/ (Own(user, draft) /\ \A u \in Users : Own(u, stored[u]))
=============================================================================
