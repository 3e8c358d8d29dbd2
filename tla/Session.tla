------------------------------ MODULE Session ------------------------------
(***************************************************************************)
(* The sign-in sessions of the web client.  Every store of the platform is *)
(* served from one origin, so the tabs of a browser share one localStorage *)
(* in which a token is kept per slot: one slot for the admin panel and one *)
(* for each store.  A tab keeps the session of the page it shows in Redux, *)
(* swaps it on navigation, re-reads it when another tab has written, and   *)
(* drops a session that turns out to belong to another store.              *)
(*                                                                         *)
(* Sources: client/src/features/auth (token.ts, authSlice.ts,              *)
(* sessionSync.ts, hooks/useAuth.ts), client/src/api/client.ts and         *)
(* client/src/features/tenant/TenantLoader.tsx.                            *)
(***************************************************************************)
EXTENDS Naturals, FiniteSets

CONSTANTS
  Tabs,      \* the browser's tabs
  Stores,    \* the stores; the slot of a store is named after its slug, the store itself
  IdSlots,   \* slots named after a tenantId that is no store's slug
  Admin,     \* the slot of the admin panel
  Tokens,    \* the tokens the server may issue
  Staff,     \* those of staff: admin, store_manager, super_admin
  TenantOf,  \* the store a token is for; None for a super admin
  UserOf,    \* the user a token names
  IdSlot,    \* the slot that the tenantId of a store names
  Revocable, \* bound: the tokens the server may stop accepting
  ShortLived,\* bound: the tokens that may expire
  Starts,    \* bound: the tokens that can come into play together (the others expired long
             \* ago), and the one of them that is kept under the old key
  MaxLogins, \* bound: sign-ins waited for at once, over all tabs
  MaxRequests, \* bound: requests waited for at once, over all tabs
  None

StoreSlots == Stores \cup IdSlots
Slots == StoreSlots \cup {Admin}
Customers == Tokens \ Staff

ASSUME SessionConstants ==
  /\ Staff \subseteq Tokens
  /\ TenantOf \in [Tokens -> Stores \cup {None}]
  /\ \A k \in Customers : TenantOf[k] \in Stores
  /\ IdSlot \in [Stores -> StoreSlots]
  /\ Starts \subseteq [fresh : SUBSET Tokens, legacy : Tokens \cup {None}]
  /\ \A start \in Starts : start.legacy \in start.fresh \cup {None}
  /\ Admin \notin StoreSlots
  /\ None \notin Tokens \cup Slots \cup {UserOf[k] : k \in Tokens}

VARIABLES
  storage,  \* localStorage: the token kept in each slot
  legacy,   \* localStorage: the token under the old single key
  issued,   \* tokens the server has issued
  expired,  \* tokens past their expiry
  revoked,  \* tokens the server no longer accepts
  view,     \* the Redux session of each tab: slot, token, staff, tenant, key
  stale,    \* tabs with a storage event still to be delivered
  login,    \* the sign-in each tab waits for: the store, or Admin
  request   \* the API request each tab waits for: its slot and token

vars == <<storage, legacy, issued, expired, revoked, view, stale, login, request>>

TokenOrNone == Tokens \cup {None}
NoKey == <<None, None>>

-----------------------------------------------------------------------------
(* Reading and writing the slots (token.ts). *)

Usable(k) == k # None /\ k \notin expired

\* A slot only ever holds its own kind of session.
Fits(s, k) == IF s = Admin THEN k \in Staff ELSE k \in Customers

\* getStoredAccessToken: the token a read of the slot returns ...
Stored(st, s) == IF Usable(st[s]) /\ Fits(s, st[s]) THEN st[s] ELSE None

\* ... and what the read leaves behind: a token that is expired or of the
\* wrong kind is removed.
Swept(st, s) == [st EXCEPT ![s] = Stored(st, s)]

\* Mutant: the role is not looked at.
SlotForTokenAnyRole(k, context) ==
  IF context \in StoreSlots THEN context
  ELSE IF TenantOf[k] = None THEN Admin ELSE IdSlot[TenantOf[k]]

\* slotForToken: staff tokens go to the admin slot even when signing in on a
\* storefront, customer tokens to the store being viewed or, outside a
\* storefront, to the slot of their tenantId.
SlotForToken(k, context) ==
  IF k \in Staff THEN Admin
  ELSE IF context \in StoreSlots THEN context
  ELSE IdSlot[TenantOf[k]]

\* migrateLegacyToken: the token of the old single key moves to the slot of
\* its kind, unless that slot holds a usable one.
Migrated(st) ==
  IF ~Usable(legacy) THEN st
  ELSE LET s == IF legacy \in Staff THEN Admin ELSE IdSlot[TenantOf[legacy]]
       IN  IF Usable(st[s]) THEN st ELSE [st EXCEPT ![s] = legacy]

\* adoptTenantIdSlot: a session saved under the tenantId of store s can be
\* moved to the slot of its slug.
Adoptable(st, s) ==
  LET k == st[IdSlot[s]]
  IN  /\ IdSlot[s] # s
      /\ ~Usable(st[s])
      /\ Usable(k) /\ k \in Customers /\ TenantOf[k] = s

Adopted(st, s) == [st EXCEPT ![s] = st[IdSlot[s]], ![IdSlot[s]] = None]

-----------------------------------------------------------------------------
(* A dispatch works on the pair of the storage and the tab's session:     *)
(* w = [st |-> storage, me |-> view[t]].                                   *)

UserOrNone(k) == IF k = None THEN None ELSE UserOf[k]

\* readSession: the session of slot s as Redux shows it.
ReadSession(w, s) ==
  LET one == Swept(w.st, s)
      two == Swept(one, Admin)
  IN  [st |-> two,
       me |-> [w.me EXCEPT !.slot = s, !.token = Stored(w.st, s),
                           !.staff = UserOrNone(Stored(one, Admin))]]

\* The reducer syncAuthSession.  It keeps the old state object when slot,
\* token and staff user are the same, which is then the same session.
SyncSession(w, s) == ReadSession(w, s)

\* Mutant: whatever token is in the slot is dropped.
DropTokenAlways(w, s, k) == ReadSession([w EXCEPT !.st[s] = None], w.me.slot)

\* The reducer logout with an explicit slot and ifToken: only the token that
\* was rejected is dropped.
DropToken(w, s, k) ==
  IF Stored(w.st, s) # k THEN [w EXCEPT !.st = Swept(w.st, s)]
  ELSE ReadSession([w EXCEPT !.st[s] = None], w.me.slot)

\* One run of checkTenant, the store subscriber of sessionSync.ts.
CheckTenant(w) ==
  LET me == w.me
      key == <<me.tenant, me.token>>
      marked == [w EXCEPT !.me.key = key]
  IN  IF me.tenant = None \/ me.slot = Admin THEN [w EXCEPT !.me.key = NoKey]
      ELSE IF me.tenant # me.slot \/ key = me.key THEN w
      ELSE IF me.token = None /\ Adoptable(w.st, me.slot)
           THEN SyncSession([marked EXCEPT !.st = Adopted(w.st, me.slot)], me.slot)
      ELSE IF me.token # None /\ TenantOf[me.token] # me.tenant
           THEN DropToken(marked, me.slot, me.token)
      ELSE marked

\* What a tab's script has done to the storage and to its own session.  The
\* other tabs get a storage event for every change; pending are the tabs
\* that one is still on its way to.
World(t) == [st |-> storage, me |-> view[t]]
Open(t) == view[t].slot # None

\* Mutant: the other tabs do not hear of a write.
CommitUnheard(t, pending, w) ==
  /\ storage' = w.st
  /\ view' = [view EXCEPT ![t] = w.me]
  /\ stale' = pending

Commit(t, pending, w) ==
  /\ storage' = w.st
  /\ view' = [view EXCEPT ![t] = w.me]
  /\ stale' = pending \cup {u \in Tabs \ {t} : Open(u) /\ w.st # storage}

\* Mutant: a dispatch does not check the tenant.
Unchecked(t, pending, w) == Commit(t, pending, w)

\* Every dispatch runs checkTenant, whose own dispatches run it again.  Three
\* runs settle: drop another store's session, adopt the tenantId's, find
\* nothing more to do.
Dispatch(t, pending, w) ==
  \E done \in {w} : \E one \in {CheckTenant(done)} : \E two \in {CheckTenant(one)} :
    Commit(t, pending, CheckTenant(two))

-----------------------------------------------------------------------------
Closed == [slot |-> None, token |-> None, staff |-> None, tenant |-> None, key |-> NoKey]
Idle == [slot |-> None, token |-> None]

Init ==
  /\ storage = [s \in Slots |-> None]
  /\ \E start \in Starts :
       /\ legacy = start.legacy
       /\ expired = Tokens \ start.fresh
       /\ issued = expired \cup ({legacy} \ {None})
  /\ revoked = {}
  /\ view = [t \in Tabs |-> Closed]
  /\ stale = {}
  /\ login = [t \in Tabs |-> None]
  /\ request = [t \in Tabs |-> Idle]

Server == <<issued, expired, revoked>>

\* The tab is opened at a page of slot s, or reloaded there: the old key is
\* migrated and removed, and the session is read; what the old page waited
\* for is lost.
Load(t, s) ==
  LET w == [st |-> Migrated(storage), me |-> Closed]
  IN  /\ view[t].slot \in {None, s}
      /\ Commit(t, stale \ {t}, ReadSession(w, s))
      /\ legacy' = None
      /\ login' = [login EXCEPT ![t] = None]
      /\ request' = [request EXCEPT ![t] = Idle]
      /\ UNCHANGED Server

\* The router reports another pathname, of slot s.
Navigate(t, s) ==
  /\ Open(t)
  /\ Dispatch(t, stale, SyncSession(World(t), s))
  /\ UNCHANGED <<legacy, Server, login, request>>

\* TenantLoader puts the store of the page into Redux.
TenantArrives(t) ==
  /\ view[t].slot \in Stores
  /\ view[t].tenant # view[t].slot
  /\ Dispatch(t, stale, [World(t) EXCEPT !.me.tenant = view[t].slot])
  /\ UNCHANGED <<legacy, Server, login, request>>

\* The browser tells the tab that another one wrote a session key.
StorageEvent(t) ==
  /\ t \in stale
  /\ Dispatch(t, stale \ {t}, SyncSession(World(t), view[t].slot))
  /\ UNCHANGED <<legacy, Server, login, request>>

\* The sign-in form is sent, for the store shown or on the admin panel.
SubmitLogin(t) ==
  /\ login[t] = None
  /\ Open(t)
  /\ view[t].slot \in Stores => view[t].tenant = view[t].slot
  /\ Cardinality({u \in Tabs : login[u] # None}) < MaxLogins
  /\ login' = [login EXCEPT ![t] = view[t].slot]
  /\ UNCHANGED <<storage, legacy, Server, view, stale, request>>

\* The server signs the user in; loginSuccess saves the token by the slot the
\* tab shows by now, which need not be the one the form was sent from.
LoginAnswered(t, k) ==
  /\ Open(t) /\ login[t] # None
  /\ k \notin issued
  /\ login[t] \in Stores => TenantOf[k] \in {login[t], None}
  /\ issued' = issued \cup {k}
  /\ login' = [login EXCEPT ![t] = None]
  /\ LET s == SlotForToken(k, view[t].slot)
     IN  Dispatch(t, stale, ReadSession([World(t) EXCEPT !.st[s] = k], view[t].slot))
  /\ UNCHANGED <<legacy, expired, revoked, request>>

LoginRefused(t) ==
  /\ login[t] # None
  /\ login' = [login EXCEPT ![t] = None]
  /\ UNCHANGED <<storage, legacy, Server, view, stale, request>>

\* The request interceptor reads the slot again (removing what no longer
\* fits, without a dispatch) and tags the request with what it read.  The
\* answer to a request without a token changes nothing and is not waited for.
SendRequest(t) ==
  /\ Open(t)
  /\ request[t] = Idle
  /\ Cardinality({u \in Tabs : request[u] # Idle}) < MaxRequests
  /\ LET s == view[t].slot
     IN  /\ Commit(t, stale, [World(t) EXCEPT !.st = Swept(storage, s)])
         /\ request' = [request EXCEPT ![t] = IF Stored(storage, s) = None THEN Idle
                                              ELSE [slot |-> s, token |-> Stored(storage, s)]]
  /\ UNCHANGED <<legacy, Server, login>>

\* A 401 signs out the session that was rejected, if it is still there.
Refused(t) ==
  LET r == request[t]
  IN  /\ Open(t) /\ r.slot # None
      /\ r.token \in expired \cup revoked
      /\ request' = [request EXCEPT ![t] = Idle]
      /\ Dispatch(t, stale, DropToken(World(t), r.slot, r.token))
      /\ UNCHANGED <<legacy, Server, login>>

Answered(t) ==
  /\ request[t].slot # None
  /\ request' = [request EXCEPT ![t] = Idle]
  /\ UNCHANGED <<storage, legacy, Server, view, stale, login>>

\* useAuth.logout: sign out of the slot being viewed only.
SignOut(t) ==
  /\ Open(t)
  /\ Dispatch(t, stale, ReadSession([World(t) EXCEPT !.st[view[t].slot] = None], view[t].slot))
  /\ UNCHANGED <<legacy, Server, login, request>>

\* useAuth.logoutEverywhere and the page /logout.
SignOutEverywhere(t) ==
  /\ Open(t)
  /\ Dispatch(t, stale, ReadSession([World(t) EXCEPT !.st = [s \in Slots |-> None]], view[t].slot))
  /\ legacy' = None
  /\ UNCHANGED <<Server, login, request>>

Expire(k) ==
  /\ k \in (issued \cap ShortLived) \ expired
  /\ expired' = expired \cup {k}
  /\ UNCHANGED <<storage, legacy, issued, revoked, view, stale, login, request>>

Revoke(k) ==
  /\ k \in (issued \cap Revocable) \ revoked
  /\ revoked' = revoked \cup {k}
  /\ UNCHANGED <<storage, legacy, issued, expired, view, stale, login, request>>

UserAction(t) ==
  \/ \E k \in Tokens : LoginAnswered(t, k)
  \/ SignOut(t)
  \/ SignOutEverywhere(t)

Next ==
  \/ \E t \in Tabs, s \in Stores \cup {Admin} : Load(t, s) \/ Navigate(t, s)
  \/ \E t \in Tabs : TenantArrives(t)
  \/ \E t \in Tabs : StorageEvent(t)
  \/ \E t \in Tabs : SubmitLogin(t)
  \/ \E t \in Tabs : LoginRefused(t)
  \/ \E t \in Tabs : SendRequest(t)
  \/ \E t \in Tabs : Refused(t)
  \/ \E t \in Tabs : Answered(t)
  \/ \E t \in Tabs : UserAction(t)
  \/ \E k \in Tokens : Expire(k)
  \/ \E k \in Tokens : Revoke(k)

Spec == Init /\ [][Next]_vars

-----------------------------------------------------------------------------
SessionTypeOK ==
  /\ storage \in [Slots -> TokenOrNone]
  /\ legacy \in TokenOrNone
  /\ issued \subseteq Tokens /\ expired \subseteq issued /\ revoked \subseteq issued
  /\ view \in [Tabs -> [slot : Slots \cup {None}, token : TokenOrNone,
                        staff : {UserOf[k] : k \in Tokens} \cup {None},
                        tenant : Stores \cup {None},
                        key : (Stores \cup {None}) \X TokenOrNone]]
  /\ stale \subseteq Tabs
  /\ login \in [Tabs -> Slots \cup {None}]
  /\ request \in [Tabs -> [slot : Slots \cup {None}, token : TokenOrNone]]

\* A customer's session never ends up as the admin panel's and a staff
\* session never as a shopper's: not in storage, not on screen, not on the
\* wire, whatever the tabs do meanwhile (token.ts: "A slot only ever holds
\* its own kind of session").
SlotsKeepTheirKind ==
  /\ \A s \in Slots : storage[s] # None => Fits(s, storage[s])
  /\ \A t \in Tabs : view[t].token # None => Fits(view[t].slot, view[t].token)
  /\ \A t \in Tabs : request[t].token # None => Fits(request[t].slot, request[t].token)

\* Once the store of the page is known, the shopper shown is a customer of
\* that store: a sign-in that was answered after the user moved on to
\* another store, or a session another tab left there, has been dropped.
\* (Not while a storage event is on its way, nor for an expired session.)
ShopperOfThisStore ==
  \A t \in Tabs :
    LET v == view[t]
    IN  (/\ v.slot \in Stores /\ v.tenant = v.slot /\ v.token # None
         /\ t \notin stale /\ v.token \notin expired)
        => TenantOf[v.token] = v.slot

\* A tab that has seen every storage event shows the session that is in
\* storage, unless it has expired.
TabsAgreeWithStorage ==
  \A t \in Tabs \ stale :
    /\ Open(t) /\ view[t].token \notin expired => Stored(storage, view[t].slot) = view[t].token

\* A session in storage ends only when the user signs in or out, when it has
\* expired or was rejected by the server, or when it is in the slot of a
\* store it is not for: no late 401, no other tab and no migration ends it.
SessionsEndForAReason ==
  [][\A s \in Slots :
       LET k == storage[s]
       IN  (k # None /\ storage'[s] # k)
           => \/ k \in expired \cup revoked
              \/ s \in StoreSlots /\ s # TenantOf[k]
              \/ \E t \in Tabs : UserAction(t)]_vars

\* What authSlice.ts says of state.auth ("the session of the context being
\* viewed"), expiry included: a tab without pending events that shows a
\* signed-in user has that session in storage.
ShownSessionIsStored ==
  \A t \in Tabs \ stale :
    view[t].token # None => storage[view[t].slot] = view[t].token
=============================================================================
