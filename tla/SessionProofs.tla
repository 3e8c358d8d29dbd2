--------------------------- MODULE SessionProofs ---------------------------
(***************************************************************************)
(* What Session guarantees for every number of tabs, stores and tokens,    *)
(* whatever the tabs do and in whatever order storage events, answers and  *)
(* 401s arrive: a slot keeps its own kind of session; a tab shows what is  *)
(* in storage, a storefront a customer of its store; and a session ends    *)
(* for a reason only.                                                      *)
(***************************************************************************)
EXTENDS Session, TLAPS

Users == {UserOf[k] : k \in Tokens}
StorageType == [Slots -> TokenOrNone]
ViewType == [slot : Slots \cup {None}, token : TokenOrNone, staff : Users \cup {None},
             tenant : Stores \cup {None}, key : (Stores \cup {None}) \X TokenOrNone]
WorldType == [st : StorageType, me : ViewType]

\* Each slot holds its own kind of token, and so does the session of a tab.
KindedStorage(st) == \A s \in Slots : st[s] # None => Fits(s, st[s])
KindedView(v) == v.token # None => Fits(v.slot, v.token)

\* What a dispatch of an open tab keeps.
Good(w) ==
  /\ w \in WorldType
  /\ w.me.slot \in Slots
  /\ KindedStorage(w.st)
  /\ KindedView(w.me)

-----------------------------------------------------------------------------
(* The operators on slots and sessions *)

LEMMA StoredFits ==
  ASSUME NEW st \in StorageType, NEW s \in Slots
  PROVE  /\ Stored(st, s) \in TokenOrNone
         /\ Stored(st, s) # None => Fits(s, Stored(st, s))
BY DEF Stored, StorageType, TokenOrNone

LEMMA SweptKinded ==
  ASSUME NEW st \in StorageType, NEW s \in Slots, KindedStorage(st)
  PROVE  Swept(st, s) \in StorageType /\ KindedStorage(Swept(st, s))
<1>1. Swept(st, s) \in StorageType
  BY StoredFits DEF Swept, StorageType
<1>2. \A x \in Slots : Swept(st, s)[x] = IF x = s THEN Stored(st, s) ELSE st[x]
  BY DEF Swept, StorageType
<1>3. ASSUME NEW x \in Slots, Swept(st, s)[x] # None
      PROVE  Fits(x, Swept(st, s)[x])
  BY <1>2, <1>3, StoredFits DEF KindedStorage
<1> QED
  BY <1>1, <1>3 DEF KindedStorage

LEMMA ReadSessionGood ==
  ASSUME NEW w \in WorldType, NEW s \in Slots, KindedStorage(w.st)
  PROVE  Good(ReadSession(w, s)) /\ ReadSession(w, s).me.slot = s
<1> USE SessionConstants
<1> DEFINE one == Swept(w.st, s)
           two == Swept(one, Admin)
<1>1. w.st \in StorageType /\ w.me \in ViewType /\ Admin \in Slots
  BY DEF WorldType, Slots
<1>2. one \in StorageType /\ KindedStorage(one)
  BY <1>1, SweptKinded
<1>3. two \in StorageType /\ KindedStorage(two)
  BY <1>1, <1>2, SweptKinded
<1>4. /\ Stored(w.st, s) \in TokenOrNone
      /\ Stored(w.st, s) # None => Fits(s, Stored(w.st, s))
      /\ Stored(one, Admin) \in TokenOrNone
  BY <1>1, <1>2, StoredFits
<1>5. UserOrNone(Stored(one, Admin)) \in Users \cup {None}
  BY <1>4 DEF UserOrNone, Users, TokenOrNone
<1> DEFINE v == [w.me EXCEPT !.slot = s, !.token = Stored(w.st, s),
                             !.staff = UserOrNone(Stored(one, Admin))]
<1>6. v \in ViewType /\ v.slot = s /\ v.token = Stored(w.st, s)
  BY <1>1, <1>4, <1>5 DEF ViewType
<1>7. ReadSession(w, s) = [st |-> two, me |-> v]
  BY DEF ReadSession
<1> DEFINE r == [st |-> two, me |-> v]
<1> HIDE DEF two, v
<1>8. r \in WorldType /\ r.st = two /\ r.me = v
  BY <1>3, <1>6 DEF WorldType
<1>9. KindedView(v)
  BY <1>4, <1>6 DEF KindedView
<1> QED
  BY <1>3, <1>6, <1>7, <1>8, <1>9 DEF Good

LEMMA ClearedKinded ==
  ASSUME NEW w \in WorldType, NEW s \in Slots, KindedStorage(w.st)
  PROVE  /\ [w EXCEPT !.st[s] = None] \in WorldType
         /\ KindedStorage([w EXCEPT !.st[s] = None].st)
         /\ [w EXCEPT !.st[s] = None].me = w.me
BY SessionConstants DEF WorldType, StorageType, KindedStorage, TokenOrNone

LEMMA DropTokenGood ==
  ASSUME NEW w, Good(w), NEW s \in Slots, NEW k \in Tokens
  PROVE  Good(DropToken(w, s, k)) /\ DropToken(w, s, k).me.slot = w.me.slot
<1>0. w \in WorldType /\ w.st \in StorageType /\ KindedStorage(w.st) /\ w.me.slot \in Slots
  BY DEF Good, WorldType
<1>1. CASE Stored(w.st, s) # k
  <2>1. DropToken(w, s, k) = [w EXCEPT !.st = Swept(w.st, s)]
    BY <1>1 DEF DropToken
  <2>2. Swept(w.st, s) \in StorageType /\ KindedStorage(Swept(w.st, s))
    BY <1>0, SweptKinded
  <2> QED
    BY <1>0, <2>1, <2>2 DEF Good, WorldType
<1>2. CASE Stored(w.st, s) = k
  <2> DEFINE u == [w EXCEPT !.st[s] = None]
  <2>1. u \in WorldType /\ KindedStorage(u.st) /\ u.me = w.me
    BY <1>0, ClearedKinded
  <2>2. DropToken(w, s, k) = ReadSession(u, w.me.slot)
    BY <1>2 DEF DropToken
  <2>3. Good(ReadSession(u, w.me.slot)) /\ ReadSession(u, w.me.slot).me.slot = w.me.slot
    BY <1>0, <2>1, ReadSessionGood
  <2> QED
    BY <2>2, <2>3
<1> QED
  BY <1>1, <1>2

LEMMA AdoptedKinded ==
  ASSUME NEW st \in StorageType, NEW s \in Stores, KindedStorage(st), Adoptable(st, s)
  PROVE  Adopted(st, s) \in StorageType /\ KindedStorage(Adopted(st, s))
<1> USE SessionConstants
<1> DEFINE i == IdSlot[s]
<1>1. s \in Slots /\ i \in Slots /\ s # Admin /\ i # s
  BY DEF Slots, StoreSlots, Adoptable
<1>2. st[i] \in Customers /\ st[i] \in TokenOrNone /\ None \in TokenOrNone
  BY <1>1 DEF Adoptable, Customers, TokenOrNone
<1>3. Adopted(st, s) \in StorageType
  BY <1>1, <1>2 DEF Adopted, StorageType
<1>4. \A x \in Slots : Adopted(st, s)[x] = IF x = i THEN None ELSE IF x = s THEN st[i] ELSE st[x]
  BY <1>1 DEF Adopted, StorageType
<1>5. ASSUME NEW x \in Slots, Adopted(st, s)[x] # None
      PROVE  Fits(x, Adopted(st, s)[x])
  BY <1>1, <1>2, <1>4, <1>5 DEF KindedStorage, Fits
<1> QED
  BY <1>3, <1>5 DEF KindedStorage

LEMMA CheckTenantGood ==
  ASSUME NEW w, Good(w)
  PROVE  Good(CheckTenant(w)) /\ CheckTenant(w).me.slot = w.me.slot
<1> USE SessionConstants
<1> DEFINE me == w.me
           key == <<me.tenant, me.token>>
           marked == [w EXCEPT !.me.key = key]
           blank == [w EXCEPT !.me.key = NoKey]
<1>0. /\ w \in WorldType /\ me \in ViewType /\ w.st \in StorageType
      /\ me.slot \in Slots /\ KindedStorage(w.st) /\ KindedView(me)
      /\ me.tenant \in Stores \cup {None} /\ me.token \in TokenOrNone
  BY DEF Good, WorldType, ViewType
<1>1. key \in (Stores \cup {None}) \X TokenOrNone /\ NoKey \in (Stores \cup {None}) \X TokenOrNone
  BY <1>0 DEF NoKey, TokenOrNone
<1>2. /\ [me EXCEPT !.key = key] \in ViewType /\ [me EXCEPT !.key = NoKey] \in ViewType
      /\ KindedView([me EXCEPT !.key = key]) /\ KindedView([me EXCEPT !.key = NoKey])
  BY <1>0, <1>1 DEF ViewType, KindedView
<1>3. /\ marked = [st |-> w.st, me |-> [me EXCEPT !.key = key]]
      /\ blank = [st |-> w.st, me |-> [me EXCEPT !.key = NoKey]]
  BY <1>0 DEF WorldType
<1>4. Good(marked) /\ marked.me.slot = me.slot /\ Good(blank) /\ blank.me.slot = me.slot
  BY <1>0, <1>2, <1>3 DEF Good, WorldType, ViewType
<1>5. CASE me.tenant = None \/ me.slot = Admin
  BY <1>4, <1>5 DEF CheckTenant
<1>6. CASE ~(me.tenant = None \/ me.slot = Admin) /\ (me.tenant # me.slot \/ key = me.key)
  BY <1>0, <1>6 DEF CheckTenant
<1>7. CASE /\ ~(me.tenant = None \/ me.slot = Admin) /\ ~(me.tenant # me.slot \/ key = me.key)
           /\ me.token = None /\ Adoptable(w.st, me.slot)
  <2> DEFINE u == [marked EXCEPT !.st = Adopted(w.st, me.slot)]
  <2>1. me.slot \in Stores
    BY <1>0, <1>7
  <2>2. Adopted(w.st, me.slot) \in StorageType /\ KindedStorage(Adopted(w.st, me.slot))
    BY <1>0, <1>7, <2>1, AdoptedKinded
  <2>3. u \in WorldType /\ KindedStorage(u.st)
    BY <1>2, <1>3, <2>2 DEF WorldType
  <2>4. CheckTenant(w) = ReadSession(u, me.slot)
    BY <1>7 DEF CheckTenant, SyncSession
  <2> HIDE DEF u, marked, key
  <2>5. Good(ReadSession(u, me.slot)) /\ ReadSession(u, me.slot).me.slot = me.slot
    BY <1>0, <2>3, ReadSessionGood
  <2> QED
    BY <2>4, <2>5
<1>8. CASE /\ ~(me.tenant = None \/ me.slot = Admin) /\ ~(me.tenant # me.slot \/ key = me.key)
           /\ ~(me.token = None /\ Adoptable(w.st, me.slot))
           /\ me.token # None /\ TenantOf[me.token] # me.tenant
  <2>1. CheckTenant(w) = DropToken(marked, me.slot, me.token)
    BY <1>8 DEF CheckTenant
  <2>2. me.slot \in Slots /\ me.token \in Tokens
    BY <1>0, <1>8 DEF TokenOrNone
  <2> HIDE DEF marked, key
  <2> QED
    BY <1>4, <2>1, <2>2, DropTokenGood
<1>9. CASE /\ ~(me.tenant = None \/ me.slot = Admin) /\ ~(me.tenant # me.slot \/ key = me.key)
           /\ ~(me.token = None /\ Adoptable(w.st, me.slot))
           /\ ~(me.token # None /\ TenantOf[me.token] # me.tenant)
  BY <1>4, <1>9 DEF CheckTenant
<1> QED
  BY <1>5, <1>6, <1>7, <1>8, <1>9
-----------------------------------------------------------------------------
(* The inductive invariant *)

\* Storage events are delivered to open pages only.
StaleIsOpen == \A t \in stale : Open(t)

IInv ==
  /\ SessionTypeOK
  /\ SlotsKeepTheirKind
  /\ StaleIsOpen

\* What a step of one tab leaves of the storage and of the open pages.
PagesOK ==
  /\ storage \in StorageType /\ KindedStorage(storage)
  /\ view \in [Tabs -> ViewType]
  /\ \A t \in Tabs : KindedView(view[t])
  /\ stale \subseteq Tabs /\ StaleIsOpen

RequestsOK ==
  /\ request \in [Tabs -> [slot : Slots \cup {None}, token : TokenOrNone]]
  /\ \A t \in Tabs : request[t].token # None => Fits(request[t].slot, request[t].token)

BooksOK ==
  /\ legacy \in TokenOrNone
  /\ issued \subseteq Tokens /\ expired \subseteq issued /\ revoked \subseteq issued
  /\ login \in [Tabs -> Slots \cup {None}]

LEMMA IInvParts == IInv <=> PagesOK /\ RequestsOK /\ BooksOK
BY DEF IInv, SessionTypeOK, SlotsKeepTheirKind, PagesOK, RequestsOK, BooksOK, StorageType,
       ViewType, Users, KindedStorage, KindedView

LEMMA OpenIsGood ==
  ASSUME PagesOK, NEW t \in Tabs, Open(t)
  PROVE  Good(World(t)) /\ World(t).st = storage /\ World(t).me = view[t]
<1>1. view[t] \in ViewType /\ view[t].slot \in Slots /\ KindedView(view[t])
  BY DEF PagesOK, ViewType, Open
<1> QED
  BY <1>1 DEF Good, World, WorldType, PagesOK

LEMMA CommitKeeps ==
  ASSUME PagesOK, NEW t \in Tabs, NEW pending \in SUBSET stale, NEW w, Good(w),
         Commit(t, pending, w)
  PROVE  PagesOK'
<1>1. /\ w.st \in StorageType /\ w.me \in ViewType /\ w.me.slot # None
      /\ KindedStorage(w.st) /\ KindedView(w.me)
  BY SessionConstants DEF Good, WorldType
<1>2. storage' \in StorageType /\ KindedStorage(storage')
  BY <1>1 DEF Commit
<1>3. view' \in [Tabs -> ViewType] /\ \A u \in Tabs : view'[u] = IF u = t THEN w.me ELSE view[u]
  BY <1>1 DEF Commit, PagesOK
<1>4. \A u \in Tabs : KindedView(view'[u])
  BY <1>1, <1>3 DEF PagesOK
<1>5. stale' \subseteq Tabs
  BY DEF Commit, PagesOK
<1>6. \A u \in stale' : view'[u].slot # None
  BY <1>1, <1>3, <1>5 DEF Commit, PagesOK, StaleIsOpen, Open
<1> QED
  BY <1>2, <1>3, <1>4, <1>5, <1>6 DEF PagesOK, StaleIsOpen, Open

LEMMA DispatchKeeps ==
  ASSUME PagesOK, NEW t \in Tabs, NEW pending \in SUBSET stale, NEW w, Good(w),
         Dispatch(t, pending, w)
  PROVE  PagesOK'
<1> DEFINE one == CheckTenant(w)
           two == CheckTenant(one)
           end == CheckTenant(two)
<1>1. Good(one)
  BY CheckTenantGood
<1> HIDE DEF one
<1>2. Good(two)
  BY <1>1, CheckTenantGood
<1> HIDE DEF two
<1>3. Good(end)
  BY <1>2, CheckTenantGood
<1>4. Commit(t, pending, end)
  BY DEF Dispatch, one, two
<1> HIDE DEF end
<1> QED
  BY <1>3, <1>4, CommitKeeps

LEMMA MigratedKinded ==
  ASSUME PagesOK, BooksOK
  PROVE  Migrated(storage) \in StorageType /\ KindedStorage(Migrated(storage))
<1> USE SessionConstants
<1> DEFINE s == IF legacy \in Staff THEN Admin ELSE IdSlot[TenantOf[legacy]]
<1>1. CASE ~Usable(legacy) \/ Usable(storage[s])
  BY <1>1 DEF Migrated, PagesOK
<1>2. CASE Usable(legacy) /\ ~Usable(storage[s])
  <2>1. legacy \in Tokens
    BY <1>2 DEF Usable, BooksOK, TokenOrNone
  <2>2. s \in Slots /\ Fits(s, legacy)
    BY <2>1 DEF Slots, StoreSlots, Customers, Fits
  <2>3. Migrated(storage) = [storage EXCEPT ![s] = legacy]
    BY <1>2 DEF Migrated
  <2> HIDE DEF s
  <2> QED
    BY <2>1, <2>2, <2>3 DEF PagesOK, StorageType, KindedStorage, TokenOrNone
<1> QED
  BY <1>1, <1>2

LEMMA SlotForTokenFits ==
  ASSUME NEW k \in Tokens, NEW s \in Slots
  PROVE  SlotForToken(k, s) \in Slots /\ Fits(SlotForToken(k, s), k)
BY SessionConstants DEF SlotForToken, Slots, StoreSlots, Customers, Fits

\* The old page's requests are given up, or one request is answered.
LEMMA GivenUp ==
  ASSUME RequestsOK, NEW t \in Tabs, request' = [request EXCEPT ![t] = Idle]
  PROVE  RequestsOK'
BY SessionConstants DEF RequestsOK, Idle, TokenOrNone

-----------------------------------------------------------------------------
LEMMA InitIInv == Init => IInv
<1> SUFFICES ASSUME Init PROVE PagesOK /\ RequestsOK /\ BooksOK
  BY IInvParts
<1> USE SessionConstants DEF Init
<1>1. Closed \in ViewType /\ KindedView(Closed)
  BY DEF Closed, ViewType, KindedView, TokenOrNone, NoKey
<1>2. PagesOK
  BY <1>1 DEF PagesOK, StorageType, KindedStorage, TokenOrNone, StaleIsOpen
<1>3. RequestsOK
  BY DEF RequestsOK, Idle, TokenOrNone
<1>4. BooksOK
  <2>1. PICK start \in Starts : /\ legacy = start.legacy
                                /\ expired = Tokens \ start.fresh
                                /\ issued = expired \cup ({legacy} \ {None})
    OBVIOUS
  <2>2. legacy \in Tokens \cup {None}
    BY <2>1
  <2> QED
    BY <2>1, <2>2 DEF BooksOK, TokenOrNone
<1> QED
  BY <1>2, <1>3, <1>4

LEMMA PartsNext ==
  PagesOK /\ RequestsOK /\ BooksOK /\ [Next]_vars => PagesOK' /\ RequestsOK' /\ BooksOK'
<1> SUFFICES ASSUME PagesOK, RequestsOK, BooksOK, [Next]_vars
             PROVE  PagesOK' /\ RequestsOK' /\ BooksOK'
  OBVIOUS
<1> USE SessionConstants
<1>1. ASSUME NEW t \in Tabs, NEW s \in Stores \cup {Admin}, Load(t, s)
      PROVE  PagesOK' /\ RequestsOK' /\ BooksOK'
  <2> DEFINE w == [st |-> Migrated(storage), me |-> Closed]
  <2>1. w \in WorldType /\ KindedStorage(w.st) /\ s \in Slots
    BY MigratedKinded DEF WorldType, ViewType, Closed, NoKey, TokenOrNone, Slots, StoreSlots
  <2>2. Commit(t, stale \ {t}, ReadSession(w, s))
    BY <1>1 DEF Load
  <2> HIDE DEF w
  <2>3. Good(ReadSession(w, s))
    BY <2>1, ReadSessionGood
  <2>4. stale \ {t} \in SUBSET stale
    OBVIOUS
  <2>5. PagesOK'
    BY <2>2, <2>3, <2>4, CommitKeeps
  <2>6. RequestsOK'
    BY <1>1, GivenUp DEF Load
  <2> QED
    BY <1>1, <2>5, <2>6 DEF Load, BooksOK, Server, TokenOrNone
<1>2. ASSUME NEW t \in Tabs, NEW s \in Stores \cup {Admin}, Navigate(t, s)
      PROVE  PagesOK' /\ RequestsOK' /\ BooksOK'
  <2>1. Good(World(t)) /\ s \in Slots /\ stale \in SUBSET stale
    BY <1>2, OpenIsGood DEF Navigate, Slots, StoreSlots, PagesOK
  <2>2. Good(SyncSession(World(t), s))
    BY <2>1, ReadSessionGood DEF Good, SyncSession
  <2>3. Dispatch(t, stale, SyncSession(World(t), s))
    BY <1>2 DEF Navigate
  <2>4. PagesOK'
    BY <2>1, <2>2, <2>3, DispatchKeeps
  <2> QED
    BY <1>2, <2>4 DEF Navigate, RequestsOK, BooksOK, Server
<1>3. ASSUME NEW t \in Tabs, TenantArrives(t)
      PROVE  PagesOK' /\ RequestsOK' /\ BooksOK'
  <2> DEFINE w == [World(t) EXCEPT !.me.tenant = view[t].slot]
  <2>0. Open(t)
    BY <1>3 DEF TenantArrives, Open, Slots, StoreSlots
  <2>1. Good(World(t)) /\ World(t).me = view[t] /\ World(t).st = storage
    BY <2>0, OpenIsGood
  <2>2. w = [st |-> storage, me |-> [view[t] EXCEPT !.tenant = view[t].slot]]
    BY DEF World
  <2>3. [view[t] EXCEPT !.tenant = view[t].slot] \in ViewType
    BY <1>3, <2>1 DEF TenantArrives, Good, WorldType, ViewType
  <2>4. Good(w)
    BY <2>1, <2>2, <2>3 DEF Good, WorldType, ViewType, KindedView
  <2>5. Dispatch(t, stale, w) /\ stale \in SUBSET stale
    BY <1>3 DEF TenantArrives, PagesOK
  <2> HIDE DEF w
  <2>6. PagesOK'
    BY <2>4, <2>5, DispatchKeeps
  <2> QED
    BY <1>3, <2>6 DEF TenantArrives, RequestsOK, BooksOK, Server
<1>4. ASSUME NEW t \in Tabs, StorageEvent(t)
      PROVE  PagesOK' /\ RequestsOK' /\ BooksOK'
  <2>1. Open(t)
    BY <1>4 DEF StorageEvent, PagesOK, StaleIsOpen
  <2>2. Good(World(t)) /\ view[t].slot \in Slots /\ stale \ {t} \in SUBSET stale
    BY <2>1, OpenIsGood DEF Good
  <2>3. Good(SyncSession(World(t), view[t].slot))
    BY <2>2, ReadSessionGood DEF Good, SyncSession
  <2>4. Dispatch(t, stale \ {t}, SyncSession(World(t), view[t].slot))
    BY <1>4 DEF StorageEvent
  <2>5. PagesOK'
    BY <2>2, <2>3, <2>4, DispatchKeeps
  <2> QED
    BY <1>4, <2>5 DEF StorageEvent, RequestsOK, BooksOK, Server
<1>5. ASSUME NEW t \in Tabs, SubmitLogin(t)
      PROVE  PagesOK' /\ RequestsOK' /\ BooksOK'
  <2>1. view[t].slot \in Slots \cup {None}
    BY DEF PagesOK, ViewType
  <2> QED
    BY <1>5, <2>1 DEF SubmitLogin, PagesOK, RequestsOK, BooksOK, Server, StaleIsOpen, Open
<1>6. ASSUME NEW t \in Tabs, LoginRefused(t)
      PROVE  PagesOK' /\ RequestsOK' /\ BooksOK'
  BY <1>6 DEF LoginRefused, PagesOK, RequestsOK, BooksOK, Server, StaleIsOpen, Open
<1>7. ASSUME NEW t \in Tabs, SendRequest(t)
      PROVE  PagesOK' /\ RequestsOK' /\ BooksOK'
  <2> DEFINE s == view[t].slot
             w == [World(t) EXCEPT !.st = Swept(storage, s)]
  <2>1. Good(World(t)) /\ s \in Slots /\ World(t).me = view[t] /\ storage \in StorageType
    BY <1>7, OpenIsGood DEF SendRequest, Good, PagesOK
  <2>2. Swept(storage, s) \in StorageType /\ KindedStorage(Swept(storage, s))
    BY <2>1, SweptKinded DEF PagesOK
  <2>3. w = [st |-> Swept(storage, s), me |-> view[t]]
    BY DEF World
  <2>4. Good(w)
    BY <2>1, <2>2, <2>3 DEF Good, WorldType
  <2>5. Commit(t, stale, w)
    BY <1>7 DEF SendRequest
  <2>6. /\ Stored(storage, s) \in TokenOrNone
        /\ Stored(storage, s) # None => Fits(s, Stored(storage, s))
    BY <2>1, StoredFits
  <2>7. request' = [request EXCEPT ![t] = IF Stored(storage, s) = None THEN Idle
                                          ELSE [slot |-> s, token |-> Stored(storage, s)]]
    BY <1>7 DEF SendRequest
  <2>8. RequestsOK'
    BY <2>1, <2>6, <2>7 DEF RequestsOK, Idle, TokenOrNone
  <2> HIDE DEF w, s
  <2>9. PagesOK'
    BY <2>4, <2>5, CommitKeeps
  <2> QED
    BY <1>7, <2>8, <2>9 DEF SendRequest, BooksOK, Server
<1>8. ASSUME NEW t \in Tabs, Refused(t)
      PROVE  PagesOK' /\ RequestsOK' /\ BooksOK'
  <2> DEFINE r == request[t]
  <2>1. r.slot \in Slots /\ r.token \in Tokens
    BY <1>8 DEF Refused, RequestsOK, BooksOK, TokenOrNone
  <2>2. Dispatch(t, stale, DropToken(World(t), r.slot, r.token))
    BY <1>8 DEF Refused
  <2> HIDE DEF r
  <2>3. Open(t)
    BY <1>8 DEF Refused
  <2>4. Good(DropToken(World(t), r.slot, r.token))
    BY <2>1, <2>3, OpenIsGood, DropTokenGood
  <2>5. PagesOK'
    BY <2>2, <2>4, DispatchKeeps
  <2>6. RequestsOK'
    BY <1>8, GivenUp DEF Refused
  <2> QED
    BY <1>8, <2>5, <2>6 DEF Refused, BooksOK, Server
<1>9. ASSUME NEW t \in Tabs, Answered(t)
      PROVE  PagesOK' /\ RequestsOK' /\ BooksOK'
  <2>1. RequestsOK'
    BY <1>9, GivenUp DEF Answered
  <2> QED
    BY <1>9, <2>1 DEF Answered, PagesOK, BooksOK, Server, StaleIsOpen, Open
<1>10. ASSUME NEW t \in Tabs, NEW k \in Tokens, LoginAnswered(t, k)
       PROVE  PagesOK' /\ RequestsOK' /\ BooksOK'
  <2> DEFINE s == SlotForToken(k, view[t].slot)
             w == [World(t) EXCEPT !.st[s] = k]
  <2>1. Open(t)
    BY <1>10 DEF LoginAnswered
  <2>2. Good(World(t)) /\ World(t).st = storage /\ World(t).me = view[t]
        /\ view[t].slot \in Slots /\ storage \in StorageType
    BY <2>1, OpenIsGood DEF Good, PagesOK
  <2>3. s \in Slots /\ Fits(s, k)
    BY <2>2, SlotForTokenFits
  <2>4. w = [st |-> [storage EXCEPT ![s] = k], me |-> view[t]]
    BY DEF World
  <2>5. Dispatch(t, stale, ReadSession(w, view[t].slot))
    BY <1>10 DEF LoginAnswered
  <2> HIDE DEF s
  <2>6. w \in WorldType /\ KindedStorage(w.st)
    BY <2>2, <2>3, <2>4 DEF WorldType, StorageType, KindedStorage, PagesOK, TokenOrNone
  <2> HIDE DEF w
  <2>7. Good(ReadSession(w, view[t].slot))
    BY <2>2, <2>6, ReadSessionGood
  <2>8. PagesOK'
    BY <2>5, <2>7, DispatchKeeps
  <2> QED
    BY <1>10, <2>8 DEF LoginAnswered, RequestsOK, BooksOK
<1>11. ASSUME NEW t \in Tabs, SignOut(t)
       PROVE  PagesOK' /\ RequestsOK' /\ BooksOK'
  <2> DEFINE w == [World(t) EXCEPT !.st[view[t].slot] = None]
  <2>1. Good(World(t)) /\ view[t].slot \in Slots
    BY <1>11, OpenIsGood DEF SignOut, Good
  <2>2. w \in WorldType /\ KindedStorage(w.st)
    BY <2>1, ClearedKinded DEF Good
  <2>3. Dispatch(t, stale, ReadSession(w, view[t].slot))
    BY <1>11 DEF SignOut
  <2> HIDE DEF w
  <2>4. PagesOK'
    BY <2>1, <2>2, <2>3, ReadSessionGood, DispatchKeeps
  <2> QED
    BY <1>11, <2>4 DEF SignOut, RequestsOK, BooksOK, Server
<1>12. ASSUME NEW t \in Tabs, SignOutEverywhere(t)
       PROVE  PagesOK' /\ RequestsOK' /\ BooksOK'
  <2> DEFINE w == [World(t) EXCEPT !.st = [s \in Slots |-> None]]
  <2>1. Good(World(t)) /\ view[t].slot \in Slots /\ view[t] \in ViewType
    BY <1>12, OpenIsGood DEF SignOutEverywhere, Good, PagesOK
  <2>2. w = [st |-> [s \in Slots |-> None], me |-> view[t]]
    BY DEF World
  <2>3. w \in WorldType /\ KindedStorage(w.st)
    BY <2>1, <2>2 DEF WorldType, StorageType, KindedStorage, TokenOrNone
  <2>4. Dispatch(t, stale, ReadSession(w, view[t].slot))
    BY <1>12 DEF SignOutEverywhere
  <2> HIDE DEF w
  <2>5. PagesOK'
    BY <2>1, <2>3, <2>4, ReadSessionGood, DispatchKeeps
  <2> QED
    BY <1>12, <2>5 DEF SignOutEverywhere, RequestsOK, BooksOK, Server, TokenOrNone
<1>13. ASSUME NEW k \in Tokens, Expire(k) \/ Revoke(k)
       PROVE  PagesOK' /\ RequestsOK' /\ BooksOK'
  BY <1>13 DEF Expire, Revoke, PagesOK, RequestsOK, BooksOK, StaleIsOpen, Open
<1>14. CASE UNCHANGED vars
  BY <1>14 DEF vars, PagesOK, RequestsOK, BooksOK, StaleIsOpen, Open
<1> QED
  BY <1>1, <1>2, <1>3, <1>4, <1>5, <1>6, <1>7, <1>8, <1>9, <1>10, <1>11, <1>12, <1>13, <1>14
     DEF Next, UserAction

LEMMA NextIInv == IInv /\ [Next]_vars => IInv'
BY IInvParts, PartsNext, PTL

\* Whatever the tabs do, every variable keeps its type.
THEOREM SessionTypes == Spec => []SessionTypeOK
<1>1. IInv => SessionTypeOK
  BY DEF IInv
<1> QED
  BY <1>1, InitIInv, NextIInv, PTL DEF Spec

\* Whatever the tabs do, and however storage events, sign-in answers and 401s
\* interleave, no slot, page or request holds the other kind of session.
THEOREM SlotsKeepTheirKindAlways == Spec => []SlotsKeepTheirKind
<1>1. IInv => SlotsKeepTheirKind
  BY DEF IInv
<1> QED
  BY <1>1, InitIInv, NextIInv, PTL DEF Spec

-----------------------------------------------------------------------------
(* What a dispatch does to the slots: a session ends there for a reason, and *)
(* one that comes there, other than by a sign-in, is for that store.         *)

Reason(s, k) == k \in expired \cup revoked \/ (s \in StoreSlots /\ s # TenantOf[k])

Moves(st, new) ==
  \A s \in Slots :
    /\ new[s] = st[s] \/ new[s] = None \/ (s \in Stores /\ TenantOf[new[s]] = s)
    /\ st[s] # None /\ new[s] # st[s] => Reason(s, st[s])

\* The tokens of the slots and of the tab are among known.
Within(w, known) ==
  /\ \A s \in Slots : w.st[s] \in known \cup {None}
  /\ w.me.token \in known \cup {None} /\ w.me.key[2] \in known \cup {None}

\* The tab shows what its slot holds, unless that has expired.
Agrees(w) == w.me.token \notin expired => Stored(w.st, w.me.slot) = w.me.token

\* The tab has checked the session it shows against the store it shows.
Settled(w) ==
  w.me.slot \in Stores /\ w.me.tenant = w.me.slot
    => w.me.key = <<w.me.tenant, w.me.token>>

\* A session that a tab has found to be another store's is gone from its slot.
Gone(st, key) ==
  key[1] \in Stores /\ key[2] # None /\ TenantOf[key[2]] # key[1] => st[key[1]] # key[2]

Sound(w, known) == Good(w) /\ Within(w, known) /\ Gone(w.st, w.me.key)

LEMMA MovesReflexive == \A st : Moves(st, st)
BY DEF Moves

LEMMA MovesTransitive ==
  ASSUME NEW st, NEW mid, NEW new, Moves(st, mid), Moves(mid, new)
  PROVE  Moves(st, new)
<1> SUFFICES ASSUME NEW s \in Slots
             PROVE  /\ new[s] = st[s] \/ new[s] = None \/ (s \in Stores /\ TenantOf[new[s]] = s)
                    /\ st[s] # None /\ new[s] # st[s] => Reason(s, st[s])
  BY DEF Moves
<1>1. /\ mid[s] = st[s] \/ mid[s] = None \/ (s \in Stores /\ TenantOf[mid[s]] = s)
      /\ st[s] # None /\ mid[s] # st[s] => Reason(s, st[s])
  BY DEF Moves
<1>2. /\ new[s] = mid[s] \/ new[s] = None \/ (s \in Stores /\ TenantOf[new[s]] = s)
      /\ mid[s] # None /\ new[s] # mid[s] => Reason(s, mid[s])
  BY DEF Moves
<1> QED
  BY <1>1, <1>2

LEMMA GoneStays ==
  ASSUME NEW st, NEW new, Moves(st, new), NEW key, Gone(st, key)
  PROVE  Gone(new, key)
<1> SUFFICES ASSUME key[1] \in Stores, key[2] # None, TenantOf[key[2]] # key[1]
             PROVE  new[key[1]] # key[2]
  BY DEF Gone
<1>1. st[key[1]] # key[2] /\ key[1] \in Slots
  BY DEF Gone, Slots, StoreSlots
<1> QED
  BY <1>1 DEF Moves

\* Reading a slot hides nothing usable.
LEMMA SweptMoves ==
  ASSUME NEW st \in StorageType, NEW s \in Slots, KindedStorage(st)
  PROVE  /\ Moves(st, Swept(st, s))
         /\ \A x \in Slots : Stored(Swept(st, s), x) = Stored(st, x)
         /\ Swept(st, s)[s] = Stored(st, s)
         /\ \A x \in Slots : Swept(st, s)[x] \in {st[x], None}
<1>1. \A x \in Slots : Swept(st, s)[x] = IF x = s THEN Stored(st, s) ELSE st[x]
  BY DEF Swept, StorageType
<1>2. Stored(st, s) \in {st[s], None}
  BY DEF Stored
<1>3. st[s] # None /\ Stored(st, s) # st[s] => st[s] \in expired
  BY DEF Stored, Usable, KindedStorage
<1>4. Moves(st, Swept(st, s))
  BY <1>1, <1>2, <1>3 DEF Moves, Reason
<1>5. ASSUME NEW x \in Slots PROVE Stored(Swept(st, s), x) = Stored(st, x)
  BY <1>1 DEF Stored, Usable
<1> QED
  BY <1>1, <1>2, <1>4, <1>5

LEMMA ReadSessionMoves ==
  ASSUME NEW w \in WorldType, NEW s \in Slots, KindedStorage(w.st), NEW known,
         Within(w, known)
  PROVE  LET r == ReadSession(w, s)
         IN  /\ Good(r) /\ Within(r, known) /\ Moves(w.st, r.st) /\ Agrees(r)
             /\ r.me.slot = s /\ r.me.tenant = w.me.tenant /\ r.me.key = w.me.key
             /\ r.me.token = Stored(w.st, s)
             /\ \A x \in Slots : r.st[x] \in {w.st[x], None}
<1> DEFINE one == Swept(w.st, s)
           two == Swept(one, Admin)
           r == ReadSession(w, s)
<1>1. w.st \in StorageType /\ w.me \in ViewType /\ Admin \in Slots
  BY DEF WorldType, Slots
<1>2. /\ one \in StorageType /\ KindedStorage(one) /\ Moves(w.st, one)
      /\ \A x \in Slots : Stored(one, x) = Stored(w.st, x) /\ one[x] \in {w.st[x], None}
  BY <1>1, SweptKinded, SweptMoves
<1>3. r.st = two /\ r.me.token = Stored(w.st, s) /\ r.me.slot = s
      /\ r.me.tenant = w.me.tenant /\ r.me.key = w.me.key
  BY <1>1 DEF ReadSession, ViewType
<1> HIDE DEF one
<1>4. /\ Moves(one, two)
      /\ \A x \in Slots : Stored(two, x) = Stored(one, x) /\ two[x] \in {one[x], None}
  BY <1>1, <1>2, SweptMoves
<1> HIDE DEF two
<1>5. Good(r)
  BY ReadSessionGood
<1> HIDE DEF r
<1>6. Moves(w.st, r.st)
  BY <1>2, <1>3, <1>4, MovesTransitive
<1>7. \A x \in Slots : r.st[x] \in {w.st[x], None}
  BY <1>2, <1>3, <1>4
<1>8. r.me.token \in known \cup {None}
  BY <1>3 DEF Stored, Within
<1>9. Within(r, known)
  BY <1>3, <1>7, <1>8 DEF Within
<1>10. Agrees(r)
  BY <1>2, <1>3, <1>4 DEF Agrees
<1> QED
  BY <1>3, <1>5, <1>6, <1>7, <1>9, <1>10 DEF r

\* A slot is emptied for a reason.
LEMMA ClearedMoves ==
  ASSUME NEW w \in WorldType, NEW s \in Slots, KindedStorage(w.st), NEW known,
         Within(w, known), w.st[s] # None => Reason(s, w.st[s])
  PROVE  LET u == [w EXCEPT !.st[s] = None]
         IN  /\ u \in WorldType /\ KindedStorage(u.st) /\ u.me = w.me
             /\ Within(u, known) /\ Moves(w.st, u.st) /\ u.st[s] = None
<1> DEFINE u == [w EXCEPT !.st[s] = None]
<1>1. u \in WorldType /\ KindedStorage(u.st) /\ u.me = w.me
  BY ClearedKinded
<1>2. \A x \in Slots : u.st[x] = IF x = s THEN None ELSE w.st[x]
  BY DEF WorldType, StorageType
<1> HIDE DEF u
<1>3. Within(u, known) /\ Moves(w.st, u.st) /\ u.st[s] = None
  BY <1>1, <1>2 DEF Within, Moves
<1> QED
  BY <1>1, <1>3 DEF u

LEMMA DropTokenMoves ==
  ASSUME NEW w, Good(w), NEW s \in Slots, NEW k \in Tokens, NEW known, Within(w, known),
         Reason(s, k)
  PROVE  LET d == DropToken(w, s, k)
         IN  /\ Good(d) /\ Within(d, known) /\ Moves(w.st, d.st) /\ d.st[s] # k
             /\ Agrees(w) => Agrees(d)
             /\ d.me.slot = w.me.slot /\ d.me.tenant = w.me.tenant /\ d.me.key = w.me.key
             /\ d.me.token = w.me.token \/ (s = w.me.slot => d.me.token = None)
<1> USE SessionConstants
<1> DEFINE d == DropToken(w, s, k)
<1>0. /\ w \in WorldType /\ w.st \in StorageType /\ KindedStorage(w.st) /\ w.me.slot \in Slots
      /\ k # None
  BY DEF Good, WorldType
<1>1. Good(d) /\ d.me.slot = w.me.slot
  BY DropTokenGood
<1>2. CASE Stored(w.st, s) # k
  <2>1. d = [w EXCEPT !.st = Swept(w.st, s)]
    BY <1>2 DEF DropToken
  <2>2. d.st = Swept(w.st, s) /\ d.me = w.me
    BY <1>0, <2>1 DEF WorldType
  <2> HIDE DEF d
  <2>3. /\ Moves(w.st, d.st) /\ d.st[s] # k
        /\ \A x \in Slots : Stored(d.st, x) = Stored(w.st, x) /\ d.st[x] \in {w.st[x], None}
    BY <1>0, <1>2, <2>2, SweptMoves
  <2>4. Within(d, known) /\ (Agrees(w) => Agrees(d))
    BY <1>0, <2>2, <2>3 DEF Within, Agrees
  <2> QED
    BY <1>1, <2>2, <2>3, <2>4 DEF d
<1>3. CASE Stored(w.st, s) = k
  <2> DEFINE u == [w EXCEPT !.st[s] = None]
  <2>1. w.st[s] = k
    BY <1>0, <1>3 DEF Stored
  <2>2. /\ u \in WorldType /\ KindedStorage(u.st) /\ u.me = w.me
        /\ Within(u, known) /\ Moves(w.st, u.st) /\ u.st[s] = None
    BY <1>0, <2>1, ClearedMoves
  <2>3. d = ReadSession(u, w.me.slot)
    BY <1>3 DEF DropToken
  <2> HIDE DEF u, d
  <2>4. /\ Within(d, known) /\ Moves(u.st, d.st) /\ Agrees(d)
        /\ d.me.tenant = u.me.tenant /\ d.me.key = u.me.key
        /\ d.me.token = Stored(u.st, w.me.slot) /\ d.st[s] \in {u.st[s], None}
    BY <1>0, <2>2, <2>3, ReadSessionMoves
  <2>5. Moves(w.st, d.st) /\ d.st[s] # k
    BY <1>0, <2>2, <2>4, MovesTransitive
  <2>6. s = w.me.slot => d.me.token = None
    BY <2>2, <2>4 DEF Stored
  <2> QED
    BY <1>1, <2>2, <2>4, <2>5, <2>6 DEF d
<1> QED
  BY <1>2, <1>3

\* A session found under the store's tenantId is moved to its slug.
LEMMA AdoptedMoves ==
  ASSUME NEW st \in StorageType, NEW s \in Stores, Adoptable(st, s), NEW known,
         \A x \in Slots : st[x] \in known \cup {None}
  PROVE  /\ Moves(st, Adopted(st, s))
         /\ \A x \in Slots : Adopted(st, s)[x] \in known \cup {None}
         /\ Stored(Adopted(st, s), s) # None /\ TenantOf[Stored(Adopted(st, s), s)] = s
<1> USE SessionConstants
<1> DEFINE i == IdSlot[s]
           k == st[i]
<1>1. /\ i \in StoreSlots /\ i # s /\ s \in StoreSlots /\ s # Admin /\ k # None
      /\ Usable(k) /\ k \in Customers /\ TenantOf[k] = s /\ ~Usable(st[s])
  BY DEF Adoptable, StoreSlots, Usable
<1>2. \A x \in Slots : Adopted(st, s)[x] = IF x = i THEN None ELSE IF x = s THEN k ELSE st[x]
  BY <1>1 DEF Adopted, StorageType, Slots
<1>3. i \in Slots /\ s \in Slots
  BY <1>1 DEF Slots
<1> DEFINE a == Adopted(st, s)
<1> HIDE DEF a, k, i
<1>4. a[s] = k /\ a[i] = None /\ \A x \in Slots : x # i /\ x # s => a[x] = st[x]
  BY <1>1, <1>2, <1>3 DEF a
<1>5. st[i] # None => Reason(i, st[i])
  BY <1>1 DEF Reason, k
<1>6. st[s] # None => Reason(s, st[s])
  BY <1>1 DEF Reason, Usable
<1>7. Moves(st, a)
  <2> SUFFICES ASSUME NEW x \in Slots
               PROVE  /\ a[x] = st[x] \/ a[x] = None \/ (x \in Stores /\ TenantOf[a[x]] = x)
                      /\ st[x] # None /\ a[x] # st[x] => Reason(x, st[x])
    BY DEF Moves
  <2> QED
    BY <1>1, <1>4, <1>5, <1>6
<1>8. \A x \in Slots : a[x] \in known \cup {None}
  BY <1>3, <1>4 DEF k
<1>9. Stored(a, s) = k
  BY <1>1, <1>4 DEF Stored, Fits
<1> QED
  BY <1>1, <1>7, <1>8, <1>9 DEF a

\* The tab shows nothing it would have to check again ...
Ripe(w) ==
  IF w.me.token = None THEN ~Adoptable(w.st, w.me.slot)
  ELSE TenantOf[w.me.token] = w.me.tenant

\* ... or nothing at all.
Bare(w) == w.me.token = None

LEMMA CheckTenantMoves ==
  ASSUME NEW w, NEW known, Sound(w, known)
  PROVE  LET c == CheckTenant(w)
         IN  /\ Sound(c, known) /\ Moves(w.st, c.st) /\ (Agrees(w) => Agrees(c))
             /\ Settled(c) \/ Ripe(c) \/ Bare(c)
             /\ Bare(w) => Settled(c) \/ Ripe(c)
             /\ Ripe(w) \/ Settled(w) => Settled(c)
<1> USE SessionConstants
<1> DEFINE me == w.me
           key == <<me.tenant, me.token>>
           marked == [w EXCEPT !.me.key = key]
           blank == [w EXCEPT !.me.key = NoKey]
           c == CheckTenant(w)
<1>0. /\ w \in WorldType /\ me \in ViewType /\ w.st \in StorageType
      /\ me.slot \in Slots /\ KindedStorage(w.st) /\ KindedView(me)
      /\ me.tenant \in Stores \cup {None} /\ me.token \in TokenOrNone
      /\ Good(w) /\ Within(w, known) /\ Gone(w.st, me.key) /\ None \notin Stores
      /\ Admin \notin Stores
  BY DEF Sound, Good, WorldType, ViewType, Slots, StoreSlots
<1>1. key \in (Stores \cup {None}) \X TokenOrNone /\ NoKey \in (Stores \cup {None}) \X TokenOrNone
  BY <1>0 DEF NoKey, TokenOrNone
<1>2. /\ marked.st = w.st /\ marked.me = [me EXCEPT !.key = key] /\ marked \in WorldType
      /\ blank.st = w.st /\ blank.me = [me EXCEPT !.key = NoKey] /\ blank \in WorldType
  BY <1>0, <1>1 DEF WorldType, ViewType
<1>3. /\ marked.me.slot = me.slot /\ marked.me.tenant = me.tenant
      /\ marked.me.token = me.token /\ marked.me.key = key
      /\ blank.me.slot = me.slot /\ blank.me.tenant = me.tenant
      /\ blank.me.token = me.token /\ blank.me.key = NoKey
  BY <1>0, <1>2 DEF ViewType
<1>4. /\ key[1] = me.tenant /\ key[2] = me.token /\ NoKey[1] = None /\ NoKey[2] = None
  BY DEF NoKey
<1>5. Good(c) /\ c.me.slot = me.slot
  BY <1>0, CheckTenantGood
<1> HIDE DEF c, marked, blank, key
<1>6. /\ Good(marked) /\ Within(marked, known) /\ (Agrees(w) => Agrees(marked))
      /\ Within(blank, known) /\ (Agrees(w) => Agrees(blank))
  BY <1>0, <1>2, <1>3, <1>4 DEF Good, KindedView, Within, Agrees
<1>7. CASE me.tenant = None \/ me.slot = Admin
  <2>1. c = blank
    BY <1>7 DEF CheckTenant, c, blank
  <2>2. Gone(c.st, c.me.key)
    BY <1>0, <1>3, <1>4, <2>1 DEF Gone
  <2>3. Settled(c)
    BY <1>0, <1>3, <1>7, <2>1 DEF Settled
  <2>4. Moves(w.st, c.st)
    BY <1>2, <2>1, MovesReflexive
  <2> QED
    BY <1>5, <1>6, <2>1, <2>2, <2>3, <2>4 DEF Sound, c
<1>8. CASE ~(me.tenant = None \/ me.slot = Admin) /\ (me.tenant # me.slot \/ key = me.key)
  <2>1. c = w
    BY <1>8 DEF CheckTenant, c, key
  <2>2. Settled(c)
    BY <1>8, <2>1 DEF Settled, key
  <2> QED
    BY <2>1, <2>2, MovesReflexive DEF c
<1>9. CASE /\ ~(me.tenant = None \/ me.slot = Admin) /\ ~(me.tenant # me.slot \/ key = me.key)
           /\ me.token = None /\ Adoptable(w.st, me.slot)
  <2> DEFINE u == [marked EXCEPT !.st = Adopted(w.st, me.slot)]
  <2>1. me.slot \in Stores /\ me.tenant = me.slot
    BY <1>0, <1>9
  <2>2. Adopted(w.st, me.slot) \in StorageType /\ KindedStorage(Adopted(w.st, me.slot))
    BY <1>0, <1>9, <2>1, AdoptedKinded
  <2>3. /\ Moves(w.st, Adopted(w.st, me.slot))
        /\ \A x \in Slots : Adopted(w.st, me.slot)[x] \in known \cup {None}
        /\ Stored(Adopted(w.st, me.slot), me.slot) # None
        /\ TenantOf[Stored(Adopted(w.st, me.slot), me.slot)] = me.slot
    BY SMTT(30), <1>0, <1>9, <2>1, AdoptedMoves DEF Within
  <2>4. u \in WorldType /\ u.st = Adopted(w.st, me.slot) /\ u.me = marked.me
    BY <1>2, <2>2 DEF WorldType
  <2>5. c = ReadSession(u, me.slot)
    BY <1>9 DEF CheckTenant, SyncSession, c, marked, key
  <2> HIDE DEF u
  <2>6. Within(u, known)
    BY <1>6, <2>3, <2>4 DEF Within
  <2>7. /\ Within(c, known) /\ Moves(u.st, c.st) /\ Agrees(c)
        /\ c.me.tenant = me.tenant /\ c.me.key = key /\ c.me.token = Stored(u.st, me.slot)
    BY <1>0, <1>3, <2>2, <2>4, <2>5, <2>6, ReadSessionMoves
  <2>8. Moves(w.st, c.st)
    BY <2>3, <2>4, <2>7, MovesTransitive
  <2>9. Gone(c.st, c.me.key)
    BY <1>4, <1>9, <2>7 DEF Gone
  <2>10. Ripe(c) /\ ~Ripe(w) /\ ~Settled(w)
    BY <1>9, <2>1, <2>3, <2>4, <2>7 DEF Ripe, Settled, key
  <2> QED
    BY <1>5, <2>7, <2>8, <2>9, <2>10 DEF Sound, c
<1>10. CASE /\ ~(me.tenant = None \/ me.slot = Admin) /\ ~(me.tenant # me.slot \/ key = me.key)
            /\ ~(me.token = None /\ Adoptable(w.st, me.slot))
            /\ me.token # None /\ TenantOf[me.token] # me.tenant
  <2>1. c = DropToken(marked, me.slot, me.token)
    BY <1>10 DEF CheckTenant, c, marked, key
  <2>2. me.slot \in Stores /\ me.token \in Tokens /\ me.tenant = me.slot
    BY <1>0, <1>10 DEF TokenOrNone
  <2>3. Reason(me.slot, me.token)
    BY <1>10, <2>2 DEF Reason, StoreSlots
  <2>4. /\ Within(c, known) /\ Moves(marked.st, c.st) /\ c.st[me.slot] # me.token
        /\ Agrees(marked) => Agrees(c)
        /\ c.me.tenant = marked.me.tenant /\ c.me.key = marked.me.key
        /\ c.me.token = marked.me.token \/ (me.slot = marked.me.slot => c.me.token = None)
    BY <1>0, <1>6, <2>1, <2>2, <2>3, DropTokenMoves
  <2>5. Gone(c.st, c.me.key)
    BY <1>3, <1>4, <2>2, <2>4 DEF Gone
  <2>6. Settled(c) \/ Bare(c)
    BY <1>3, <2>4 DEF Settled, Bare, key
  <2>7. ~Bare(w) /\ ~Ripe(w) /\ ~Settled(w)
    BY <1>10, <2>2 DEF Bare, Ripe, Settled, key
  <2> QED
    BY <1>2, <1>5, <1>6, <2>4, <2>5, <2>6, <2>7 DEF Sound, c
<1>11. CASE /\ ~(me.tenant = None \/ me.slot = Admin) /\ ~(me.tenant # me.slot \/ key = me.key)
            /\ ~(me.token = None /\ Adoptable(w.st, me.slot))
            /\ ~(me.token # None /\ TenantOf[me.token] # me.tenant)
  <2>1. c = marked
    BY <1>11 DEF CheckTenant, c, marked, key
  <2>2. Gone(c.st, c.me.key)
    BY <1>3, <1>4, <1>11, <2>1 DEF Gone
  <2>3. Settled(c)
    BY <1>3, <2>1 DEF Settled, key
  <2>4. Moves(w.st, c.st)
    BY <1>2, <2>1, MovesReflexive
  <2> QED
    BY <1>5, <1>6, <2>1, <2>2, <2>3, <2>4 DEF Sound, c
<1> QED
  BY <1>7, <1>8, <1>9, <1>10, <1>11

\* Three checks settle.
LEMMA ThreeChecks ==
  ASSUME NEW w, NEW known, Sound(w, known)
  PROVE  LET end == CheckTenant(CheckTenant(CheckTenant(w)))
         IN  /\ Sound(end, known) /\ Moves(w.st, end.st) /\ (Agrees(w) => Agrees(end))
             /\ Settled(end)
<1> DEFINE one == CheckTenant(w)
           two == CheckTenant(one)
           end == CheckTenant(two)
<1>1. /\ Sound(one, known) /\ Moves(w.st, one.st) /\ (Agrees(w) => Agrees(one))
      /\ Settled(one) \/ Ripe(one) \/ Bare(one)
  BY CheckTenantMoves
<1> HIDE DEF one
<1>2. /\ Sound(two, known) /\ Moves(one.st, two.st) /\ (Agrees(one) => Agrees(two))
      /\ Settled(two) \/ Ripe(two)
  BY <1>1, CheckTenantMoves
<1> HIDE DEF two
<1>3. /\ Sound(end, known) /\ Moves(two.st, end.st) /\ (Agrees(two) => Agrees(end))
      /\ Settled(end)
  BY <1>2, CheckTenantMoves
<1> HIDE DEF end
<1>4. Moves(w.st, end.st)
  BY <1>1, <1>2, <1>3, MovesTransitive
<1> QED
  BY <1>1, <1>2, <1>3, <1>4 DEF one, two, end

-----------------------------------------------------------------------------
(* The tabs together *)

Known == issued \cup {None}

\* The old key is migrated by the first page that is opened.  An open tab has checked
\* what it shows, and shows what is in storage unless an event is on its way to it.
ViewsOK ==
  /\ legacy \in Known /\ \A s \in Slots : storage[s] \in Known
  /\ \A t \in Tabs : Open(t) \/ view[t].key[2] = None
  /\ \A t \in Tabs : view[t].token \in Known /\ view[t].key[2] \in Known
  /\ \A t \in Tabs : Gone(storage, view[t].key)
  /\ \A t \in Tabs : Settled(World(t))
  /\ \A t \in Tabs : Open(t) => legacy = None /\ (t \notin stale => Agrees(World(t)))

\* No session ended in storage without a reason.
EndsForAReason ==
  \A s \in Slots :
    storage[s] # None /\ storage'[s] # storage[s]
      => Reason(s, storage[s]) \/ \E t \in Tabs : UserAction(t)

LEMMA WorldOf ==
  ASSUME NEW t \in Tabs
  PROVE  World(t).st = storage /\ World(t).me = view[t]
BY DEF World

LEMMA WorldOfNext ==
  ASSUME NEW t \in Tabs
  PROVE  World(t)'.st = storage' /\ World(t)'.me = view'[t]
BY DEF World

LEMMA OpenIsSound ==
  ASSUME PagesOK, ViewsOK, NEW t \in Tabs, Open(t)
  PROVE  Sound(World(t), issued) /\ World(t).st = storage /\ World(t).me = view[t]
<1>1. Good(World(t)) /\ World(t).st = storage /\ World(t).me = view[t]
  BY OpenIsGood
<1>2. Within(World(t), issued)
  BY <1>1 DEF ViewsOK, Known, Within
<1> QED
  BY <1>1, <1>2 DEF Sound, ViewsOK

\* What a tab leaves behind when it commits what its script has done.
LEMMA CommitShows ==
  ASSUME PagesOK, ViewsOK, NEW t \in Tabs, NEW pending, pending \in {stale, stale \ {t}},
         NEW w, Commit(t, pending, w), Sound(w, issued'), Settled(w),
         t \notin pending => Agrees(w),
         \A u \in Tabs : Gone(storage, view[u].key) => Gone(w.st, view[u].key),
         issued \subseteq issued', UNCHANGED expired,
         legacy' = None
  PROVE  ViewsOK'
<1>1. storage' = w.st /\ view' = [view EXCEPT ![t] = w.me]
      /\ stale' = pending \cup {u \in Tabs \ {t} : Open(u) /\ w.st # storage}
  BY DEF Commit
<1>2. view'[t] = w.me /\ \A u \in Tabs : u # t => view'[u] = view[u]
  BY <1>1 DEF PagesOK
<1>3. \A u \in Tabs : World(u)'.st = w.st /\ World(u)'.me = view'[u]
  BY <1>1, WorldOfNext
<1>4. Within(w, issued') /\ Gone(w.st, w.me.key)
  BY DEF Sound
<1>5. legacy' \in Known' /\ \A s \in Slots : storage'[s] \in Known'
  BY <1>1, <1>4 DEF Within, Known
<1>6. \A u \in Tabs : view'[u].token \in Known' /\ view'[u].key[2] \in Known'
  BY <1>2, <1>4 DEF Within, Known, ViewsOK
<1>7. \A u \in Tabs : Gone(storage', view'[u].key)
  BY <1>1, <1>2, <1>4 DEF ViewsOK
<1>8. \A u \in Tabs : Settled(World(u)')
  BY <1>2, <1>3, WorldOf DEF Settled, ViewsOK
<1>9. ASSUME NEW u \in Tabs, Open(u)', u \notin stale' PROVE Agrees(World(u))'
  <2>1. CASE u = t
    <3>1. Agrees(w)
      BY <1>1, <1>9, <2>1
    <3> QED
      BY <1>2, <1>3, <2>1, <3>1 DEF Agrees, Stored, Usable
  <2>2. CASE u # t
    <3>1. Open(u) /\ w.st = storage /\ u \notin stale
      BY <1>1, <1>2, <1>9, <2>2 DEF Open
    <3>2. Agrees(World(u))
      BY <3>1 DEF ViewsOK
    <3> QED
      BY <1>2, <1>3, <2>2, <3>1, <3>2, WorldOf DEF Agrees, Stored, Usable
  <2> QED
    BY <2>1, <2>2
<1>10. \A u \in Tabs : Open(u)' \/ view'[u].key[2] = None
  BY <1>2, SessionConstants DEF Sound, Good, Open, ViewsOK
<1> QED
  BY <1>5, <1>6, <1>7, <1>8, <1>9, <1>10 DEF ViewsOK

LEMMA CommitMoves ==
  ASSUME NEW t \in Tabs, NEW pending, NEW w, Commit(t, pending, w), Moves(storage, w.st)
  PROVE  EndsForAReason
BY DEF Commit, Moves, EndsForAReason

\* A dispatch that starts from what is in storage, or from a sign-in or sign-out.
LEMMA DispatchShows ==
  ASSUME PagesOK, ViewsOK, NEW t \in Tabs, NEW pending, pending \in {stale, stale \ {t}},
         NEW w, Dispatch(t, pending, w), Sound(w, issued'), t \notin pending => Agrees(w),
         \A u \in Tabs : Gone(storage, view[u].key) => Gone(w.st, view[u].key),
         issued \subseteq issued', UNCHANGED expired, legacy' = None
  PROVE  ViewsOK' /\ (Moves(storage, w.st) => EndsForAReason)
<1> DEFINE end == CheckTenant(CheckTenant(CheckTenant(w)))
<1>1. /\ Sound(end, issued') /\ Moves(w.st, end.st) /\ (Agrees(w) => Agrees(end))
      /\ Settled(end)
  BY ThreeChecks
<1>2. Commit(t, pending, end)
  BY DEF Dispatch
<1> HIDE DEF end
<1>3. \A u \in Tabs : Gone(storage, view[u].key) => Gone(end.st, view[u].key)
  BY <1>1, GoneStays
<1>4. ViewsOK'
  BY <1>1, <1>2, <1>3, CommitShows
<1>5. Moves(storage, w.st) => EndsForAReason
  BY <1>1, <1>2, MovesTransitive, CommitMoves
<1> QED
  BY <1>4, <1>5

\* Nothing but removals.
LEMMA GoneInLess ==
  ASSUME NEW st, NEW new, \A x \in Slots : new[x] \in {st[x], None}, NEW key, Gone(st, key)
  PROVE  Gone(new, key)
BY DEF Gone, Slots, StoreSlots

LEMMA LoadShows ==
  ASSUME PagesOK, BooksOK, ViewsOK, NEW t \in Tabs, NEW s \in Stores \cup {Admin}, Load(t, s)
  PROVE  ViewsOK' /\ EndsForAReason
<1> USE SessionConstants
<1> DEFINE w == [st |-> Migrated(storage), me |-> Closed]
           r == ReadSession(w, s)
<1>1. w \in WorldType /\ KindedStorage(w.st) /\ s \in Slots
  BY MigratedKinded DEF WorldType, ViewType, Closed, NoKey, TokenOrNone, Slots, StoreSlots
<1>2. /\ Commit(t, stale \ {t}, r) /\ legacy' = None
      /\ UNCHANGED <<issued, expired>>
  BY DEF Load, Server
<1>3. w.st = Migrated(storage) /\ w.me.token = None /\ w.me.tenant = None
      /\ w.me.key[1] = None /\ w.me.key[2] = None
  BY DEF Closed, NoKey
<1>4. \A x \in Slots :
        \/ Migrated(storage)[x] = storage[x]
        \/ Migrated(storage)[x] = legacy /\ legacy # None /\ ~Usable(storage[x])
  <2> DEFINE y == IF legacy \in Staff THEN Admin ELSE IdSlot[TenantOf[legacy]]
  <2>1. CASE ~Usable(legacy) \/ Usable(storage[y])
    BY <2>1 DEF Migrated
  <2>2. CASE Usable(legacy) /\ ~Usable(storage[y])
    <3>1. Migrated(storage) = [storage EXCEPT ![y] = legacy]
      BY <2>2 DEF Migrated
    <3> QED
      BY <2>2, <3>1 DEF Usable, PagesOK, StorageType
  <2> QED
    BY <2>1, <2>2
<1> HIDE DEF w, r
<1>5. Within(w, issued)
  BY <1>3, <1>4 DEF Within, ViewsOK, Known
<1>6. /\ Good(r) /\ Within(r, issued) /\ Moves(w.st, r.st) /\ Agrees(r)
      /\ r.me.slot = s /\ r.me.tenant = w.me.tenant /\ r.me.key = w.me.key
      /\ \A x \in Slots : r.st[x] \in {w.st[x], None}
  BY <1>1, <1>5, ReadSessionMoves DEF r
<1>7. Sound(r, issued) /\ Settled(r)
  BY <1>1, <1>3, <1>6 DEF Sound, Gone, Settled
<1>8. ASSUME NEW u \in Tabs, Gone(storage, view[u].key) PROVE Gone(r.st, view[u].key)
  <2>1. Gone(w.st, view[u].key)
    <3>1. CASE legacy = None
      BY <1>3, <1>4, <1>8, <3>1 DEF Gone, Slots, StoreSlots
    <3>2. CASE legacy # None
      BY <3>2 DEF ViewsOK, Gone
    <3> QED
      BY <3>1, <3>2
  <2> QED
    BY <1>6, <2>1, GoneInLess
<1>9. ViewsOK'
  BY <1>2, <1>6, <1>7, <1>8, CommitShows
<1>10. EndsForAReason
  <2> SUFFICES ASSUME NEW x \in Slots, storage[x] # None, storage'[x] # storage[x]
               PROVE  Reason(x, storage[x])
    BY DEF EndsForAReason
  <2>1. storage'[x] = r.st[x]
    BY <1>2 DEF Commit
  <2>2. CASE w.st[x] = storage[x]
    BY <1>6, <2>1, <2>2 DEF Moves
  <2>3. CASE w.st[x] # storage[x]
    BY <1>3, <1>4, <2>3 DEF Usable, Reason
  <2> QED
    BY <2>2, <2>3
<1> QED
  BY <1>9, <1>10

\* The session is read again, for the slot shown or for another.
LEMMA ReadShows ==
  ASSUME PagesOK, ViewsOK, NEW t \in Tabs, Open(t), NEW s \in Slots,
         NEW pending, pending \in {stale, stale \ {t}},
         Dispatch(t, pending, SyncSession(World(t), s)), UNCHANGED <<legacy, issued, expired>>
  PROVE  ViewsOK' /\ EndsForAReason
<1> DEFINE r == ReadSession(World(t), s)
<1>1. Sound(World(t), issued) /\ World(t).st = storage /\ World(t).me = view[t]
  BY OpenIsSound
<1>2. /\ Good(r) /\ Within(r, issued) /\ Moves(storage, r.st) /\ Agrees(r)
      /\ r.me.key = view[t].key
  BY <1>1, ReadSessionMoves DEF Sound, Good
<1>3. Dispatch(t, pending, r) /\ legacy' = None
  BY DEF SyncSession, ViewsOK
<1> HIDE DEF r
<1>4. \A u \in Tabs : Gone(storage, view[u].key) => Gone(r.st, view[u].key)
  BY <1>2, GoneStays
<1>5. Sound(r, issued)
  BY <1>2, <1>4 DEF Sound, ViewsOK
<1> QED
  BY <1>2, <1>3, <1>4, <1>5, DispatchShows

LEMMA TenantShows ==
  ASSUME PagesOK, ViewsOK, NEW t \in Tabs, TenantArrives(t)
  PROVE  ViewsOK' /\ EndsForAReason
<1> USE SessionConstants
<1> DEFINE w == [World(t) EXCEPT !.me.tenant = view[t].slot]
<1>1. Open(t) /\ view[t].slot \in Stores
  BY DEF TenantArrives, Open, Slots, StoreSlots
<1>2. Sound(World(t), issued) /\ World(t).st = storage /\ World(t).me = view[t]
  BY <1>1, OpenIsSound
<1>3. /\ w = [st |-> storage, me |-> [view[t] EXCEPT !.tenant = view[t].slot]]
      /\ view[t] \in ViewType
  BY <1>2 DEF World, Sound, Good, WorldType
<1>4. /\ [view[t] EXCEPT !.tenant = view[t].slot] \in ViewType /\ w.st = storage
      /\ w.me.slot = view[t].slot /\ w.me.token = view[t].token /\ w.me.key = view[t].key
  BY <1>1, <1>3 DEF ViewType
<1>5. Dispatch(t, stale, w) /\ UNCHANGED <<legacy, issued, expired>>
  BY DEF TenantArrives, Server
<1>6. w \in WorldType
  BY <1>2, <1>3, <1>4 DEF Sound, Good, WorldType
<1> HIDE DEF w
<1>7. Sound(w, issued)
  BY <1>2, <1>4, <1>6 DEF Sound, Good, KindedView, Within
<1>8. t \notin stale => Agrees(w)
  BY <1>1, <1>2, <1>4 DEF ViewsOK, Agrees
<1>9. legacy' = None
  BY <1>1, <1>5 DEF ViewsOK
<1> QED
  BY <1>4, <1>5, <1>7, <1>8, <1>9, MovesReflexive, DispatchShows

LEMMA SendShows ==
  ASSUME PagesOK, ViewsOK, NEW t \in Tabs, SendRequest(t)
  PROVE  ViewsOK' /\ EndsForAReason
<1> DEFINE s == view[t].slot
           w == [World(t) EXCEPT !.st = Swept(storage, s)]
<1>1. Open(t) /\ Commit(t, stale, w) /\ UNCHANGED <<legacy, issued, expired>>
  BY DEF SendRequest, Server
<1>2. Sound(World(t), issued) /\ World(t).st = storage /\ World(t).me = view[t]
  BY <1>1, OpenIsSound
<1>3. storage \in StorageType /\ KindedStorage(storage) /\ s \in Slots
  BY <1>2 DEF Sound, Good, WorldType
<1>4. /\ Moves(storage, Swept(storage, s))
      /\ \A x \in Slots : Stored(Swept(storage, s), x) = Stored(storage, x)
      /\ \A x \in Slots : Swept(storage, s)[x] \in {storage[x], None}
      /\ Swept(storage, s) \in StorageType /\ KindedStorage(Swept(storage, s))
  BY <1>3, SweptMoves, SweptKinded
<1>5. w = [st |-> Swept(storage, s), me |-> view[t]]
  BY DEF World
<1>6. w.st = Swept(storage, s) /\ w.me = view[t] /\ w \in WorldType
  BY <1>2, <1>4, <1>5 DEF Sound, Good, WorldType
<1> HIDE DEF w
<1>7. \A u \in Tabs : Gone(storage, view[u].key) => Gone(w.st, view[u].key)
  BY <1>4, <1>6, GoneStays
<1>8. Sound(w, issued)
  BY <1>2, <1>4, <1>6, <1>7 DEF Sound, Good, Within
<1>9. Settled(w)
  BY <1>2, <1>6 DEF ViewsOK, Settled
<1>10. t \notin stale => Agrees(w)
  BY <1>1, <1>2, <1>3, <1>4, <1>6 DEF ViewsOK, Agrees
<1>11. legacy' = None
  BY <1>1 DEF ViewsOK
<1>12. ViewsOK'
  BY <1>1, <1>7, <1>8, <1>9, <1>10, <1>11, CommitShows
<1>13. EndsForAReason
  BY <1>1, <1>4, <1>6, CommitMoves
<1> QED
  BY <1>12, <1>13

LEMMA RefusedShows ==
  ASSUME PagesOK, RequestsOK, BooksOK, ViewsOK, NEW t \in Tabs, Refused(t)
  PROVE  ViewsOK' /\ EndsForAReason
<1> USE SessionConstants
<1> PICK r : r = request[t]
  OBVIOUS
<1> DEFINE d == DropToken(World(t), r.slot, r.token)
<1>1. /\ Open(t) /\ r.slot \in Slots /\ r.token \in Tokens /\ r.token \in expired \cup revoked
      /\ Dispatch(t, stale, d) /\ UNCHANGED <<legacy, issued, expired>>
  BY DEF Refused, RequestsOK, BooksOK, TokenOrNone, Server
<1>2. Sound(World(t), issued) /\ World(t).st = storage /\ World(t).me = view[t]
  BY <1>1, OpenIsSound
<1>3. Reason(r.slot, r.token)
  BY <1>1 DEF Reason
<1>4. /\ Good(d) /\ Within(d, issued) /\ Moves(storage, d.st)
      /\ Agrees(World(t)) => Agrees(d)
      /\ d.me.key = view[t].key
  BY <1>1, <1>2, <1>3, DropTokenMoves DEF Sound
<1> HIDE DEF d
<1>5. \A u \in Tabs : Gone(storage, view[u].key) => Gone(d.st, view[u].key)
  BY <1>4, GoneStays
<1>6. Sound(d, issued)
  BY <1>4, <1>5 DEF Sound, ViewsOK
<1>7. (t \notin stale => Agrees(d)) /\ legacy' = None
  BY <1>1, <1>4 DEF ViewsOK
<1> QED
  BY <1>1, <1>4, <1>5, <1>6, <1>7, DispatchShows

LEMMA LoginShows ==
  ASSUME PagesOK, ViewsOK, NEW t \in Tabs, NEW k \in Tokens, LoginAnswered(t, k)
  PROVE  ViewsOK'
<1> USE SessionConstants
<1> DEFINE s == SlotForToken(k, view[t].slot)
           w == [World(t) EXCEPT !.st[s] = k]
           r == ReadSession(w, view[t].slot)
<1>1. /\ Open(t) /\ k \notin issued /\ issued' = issued \cup {k} /\ Dispatch(t, stale, r)
      /\ UNCHANGED <<legacy, expired>>
  BY DEF LoginAnswered
<1>2. Sound(World(t), issued) /\ World(t).st = storage /\ World(t).me = view[t]
  BY <1>1, OpenIsSound
<1>3. /\ storage \in StorageType /\ KindedStorage(storage) /\ view[t].slot \in Slots
      /\ World(t) \in WorldType /\ view[t] \in ViewType
  BY <1>2 DEF Sound, Good, WorldType
<1>4. s \in Slots /\ Fits(s, k)
  BY <1>3, SlotForTokenFits
<1>5. w = [st |-> [storage EXCEPT ![s] = k], me |-> view[t]]
  BY DEF World
<1> HIDE DEF s
<1>6. /\ w \in WorldType /\ w.me = view[t]
      /\ \A x \in Slots : w.st[x] = IF x = s THEN k ELSE storage[x]
  BY <1>3, <1>4, <1>5 DEF WorldType, StorageType, TokenOrNone
<1> HIDE DEF w, r
<1>7. KindedStorage(w.st)
  BY <1>3, <1>4, <1>6 DEF KindedStorage
<1>8. Within(w, issued')
  BY <1>1, <1>2, <1>6 DEF Sound, Within
<1>9. /\ Good(r) /\ Within(r, issued') /\ Agrees(r) /\ r.me.key = view[t].key
      /\ \A x \in Slots : r.st[x] \in {w.st[x], None}
  BY <1>3, <1>6, <1>7, <1>8, ReadSessionMoves DEF r
<1>10. ASSUME NEW u \in Tabs, Gone(storage, view[u].key) PROVE Gone(r.st, view[u].key)
  <2>1. view[u].key[2] # None => view[u].key[2] # k
    BY <1>1 DEF ViewsOK, Known
  <2>2. Gone(w.st, view[u].key)
    BY <1>6, <1>10, <2>1 DEF Gone, Slots, StoreSlots
  <2> QED
    BY <1>9, <2>2, GoneInLess
<1>11. Sound(r, issued')
  BY <1>9, <1>10 DEF Sound, ViewsOK
<1>12. legacy' = None
  BY <1>1 DEF ViewsOK
<1> QED
  BY <1>1, <1>9, <1>10, <1>11, <1>12, DispatchShows

\* Sessions are taken out of storage, and the tab reads what is left.
LEMMA SignOutShows ==
  ASSUME PagesOK, ViewsOK, NEW t \in Tabs, Open(t), NEW w \in WorldType, w.me = view[t],
         \A x \in Slots : w.st[x] \in {storage[x], None},
         Dispatch(t, stale, ReadSession(w, view[t].slot)), UNCHANGED <<issued, expired>>,
         legacy' = None
  PROVE  ViewsOK'
<1> DEFINE r == ReadSession(w, view[t].slot)
<1>1. Sound(World(t), issued) /\ World(t).st = storage /\ World(t).me = view[t]
  BY OpenIsSound
<1>2. KindedStorage(w.st) /\ Within(w, issued) /\ view[t].slot \in Slots
  BY <1>1 DEF Sound, Good, KindedStorage, Within
<1>3. /\ Good(r) /\ Within(r, issued) /\ Agrees(r) /\ r.me.key = view[t].key
      /\ \A x \in Slots : r.st[x] \in {w.st[x], None}
  BY <1>2, ReadSessionMoves
<1>4. Dispatch(t, stale, r)
  OBVIOUS
<1> HIDE DEF r
<1>5. \A x \in Slots : r.st[x] \in {storage[x], None}
  BY <1>3
<1>6. \A u \in Tabs : Gone(storage, view[u].key) => Gone(r.st, view[u].key)
  BY <1>5, GoneInLess
<1>7. Sound(r, issued)
  BY <1>3, <1>6 DEF Sound, ViewsOK
<1> QED
  BY <1>3, <1>4, <1>6, <1>7, DispatchShows

LEMMA SignsOutShow ==
  ASSUME PagesOK, ViewsOK, NEW t \in Tabs, SignOut(t) \/ SignOutEverywhere(t)
  PROVE  ViewsOK'
<1> USE SessionConstants
<1>1. /\ Open(t) /\ UNCHANGED <<issued, expired>> /\ legacy' = None
      /\ storage \in StorageType /\ view[t] \in ViewType /\ view[t].slot \in Slots
  BY OpenIsSound DEF SignOut, SignOutEverywhere, Server, ViewsOK, Sound, Good, WorldType
<1>2. CASE SignOut(t)
  <2> DEFINE w == [World(t) EXCEPT !.st[view[t].slot] = None]
  <2>1. Dispatch(t, stale, ReadSession(w, view[t].slot))
    BY <1>2 DEF SignOut
  <2>2. w = [st |-> [storage EXCEPT ![view[t].slot] = None], me |-> view[t]]
    BY DEF World
  <2>3. /\ w \in WorldType /\ w.me = view[t]
        /\ \A x \in Slots : w.st[x] \in {storage[x], None}
    BY <1>1, <2>2 DEF WorldType, StorageType, TokenOrNone
  <2> HIDE DEF w
  <2> QED
    BY <1>1, <2>1, <2>3, SignOutShows
<1>3. CASE SignOutEverywhere(t)
  <2> DEFINE w == [World(t) EXCEPT !.st = [s \in Slots |-> None]]
  <2>1. Dispatch(t, stale, ReadSession(w, view[t].slot))
    BY <1>3 DEF SignOutEverywhere
  <2>2. w = [st |-> [s \in Slots |-> None], me |-> view[t]]
    BY DEF World
  <2>3. /\ w \in WorldType /\ w.me = view[t]
        /\ \A x \in Slots : w.st[x] \in {storage[x], None}
    BY <1>1, <2>2 DEF WorldType, StorageType, TokenOrNone
  <2> HIDE DEF w
  <2> QED
    BY <1>1, <2>1, <2>3, SignOutShows
<1> QED
  BY <1>2, <1>3

\* What does not touch pages or storage.
LEMMA ElsewhereShows ==
  ASSUME ViewsOK, UNCHANGED <<storage, view, stale, legacy, issued>>, expired \subseteq expired'
  PROVE  ViewsOK' /\ EndsForAReason
<1>1. \A t \in Tabs : World(t)' = World(t) /\ (Open(t)' <=> Open(t))
  BY DEF World, Open
<1>2. \A t \in Tabs : Agrees(World(t)) => Agrees(World(t))'
  BY <1>1 DEF Agrees, Stored, Usable
<1>3. \A t \in Tabs : Settled(World(t)')
  BY <1>1 DEF ViewsOK
<1> QED
  BY <1>1, <1>2, <1>3 DEF ViewsOK, Known, EndsForAReason

LEMMA InitShows == Init => ViewsOK
<1> SUFFICES ASSUME Init PROVE ViewsOK
  OBVIOUS
<1> USE SessionConstants
<1>1. \A t \in Tabs : view[t] = Closed
  BY DEF Init
<1>2. /\ Closed.slot = None /\ Closed.token = None /\ Closed.tenant = None
      /\ Closed.key[1] = None /\ Closed.key[2] = None
  BY DEF Closed, NoKey
<1>3. legacy \in Known /\ \A s \in Slots : storage[s] \in Known
  BY DEF Init, Known
<1>4. \A t \in Tabs : ~Open(t) /\ Gone(storage, view[t].key) /\ Settled(World(t))
  BY <1>1, <1>2, WorldOf DEF Open, Gone, Settled, Slots, StoreSlots
<1> QED
  BY <1>1, <1>2, <1>3, <1>4 DEF ViewsOK, Known

LEMMA StepShows ==
  PagesOK /\ RequestsOK /\ BooksOK /\ ViewsOK /\ [Next]_vars => ViewsOK' /\ EndsForAReason
<1> SUFFICES ASSUME PagesOK, RequestsOK, BooksOK, ViewsOK, [Next]_vars
             PROVE  ViewsOK' /\ EndsForAReason
  OBVIOUS
<1>1. ASSUME NEW t \in Tabs, NEW s \in Stores \cup {Admin}, Load(t, s)
      PROVE  ViewsOK' /\ EndsForAReason
  BY <1>1, LoadShows
<1>2. ASSUME NEW t \in Tabs, NEW s \in Stores \cup {Admin}, Navigate(t, s)
      PROVE  ViewsOK' /\ EndsForAReason
  <2>1. s \in Slots /\ stale \in {stale, stale \ {t}}
    BY DEF Slots, StoreSlots
  <2>2. /\ Open(t) /\ Dispatch(t, stale, SyncSession(World(t), s))
        /\ UNCHANGED <<legacy, issued, expired>>
    BY <1>2 DEF Navigate, Server
  <2> QED
    BY <2>1, <2>2, ReadShows
<1>3. ASSUME NEW t \in Tabs, StorageEvent(t)
      PROVE  ViewsOK' /\ EndsForAReason
  <2>1. /\ Open(t) /\ Dispatch(t, stale \ {t}, SyncSession(World(t), view[t].slot))
        /\ UNCHANGED <<legacy, issued, expired>> /\ stale \ {t} \in {stale, stale \ {t}}
    BY <1>3 DEF StorageEvent, Server, PagesOK, StaleIsOpen
  <2>2. view[t].slot \in Slots
    BY <2>1, OpenIsSound DEF Sound, Good
  <2> QED
    BY <2>1, <2>2, ReadShows
<1>4. ASSUME NEW t \in Tabs, TenantArrives(t) \/ SendRequest(t) \/ Refused(t)
      PROVE  ViewsOK' /\ EndsForAReason
  BY <1>4, TenantShows, SendShows, RefusedShows
<1>5. ASSUME NEW t \in Tabs, UserAction(t)
      PROVE  ViewsOK' /\ EndsForAReason
  <2>1. ViewsOK'
    BY <1>5, LoginShows, SignsOutShow DEF UserAction
  <2> QED
    BY <1>5, <2>1 DEF EndsForAReason
<1>6. ASSUME NEW t \in Tabs, SubmitLogin(t) \/ LoginRefused(t) \/ Answered(t)
      PROVE  ViewsOK' /\ EndsForAReason
  BY <1>6, ElsewhereShows DEF SubmitLogin, LoginRefused, Answered, Server
<1>7. ASSUME NEW k \in Tokens, Expire(k) \/ Revoke(k)
      PROVE  ViewsOK' /\ EndsForAReason
  BY <1>7, ElsewhereShows DEF Expire, Revoke
<1>8. CASE UNCHANGED vars
  BY <1>8, ElsewhereShows DEF vars
<1> QED
  BY <1>1, <1>2, <1>3, <1>4, <1>5, <1>6, <1>7, <1>8 DEF Next

ShowInv == PagesOK /\ RequestsOK /\ BooksOK /\ ViewsOK

LEMMA InitShowInv == Init => ShowInv
BY InitIInv, IInvParts, InitShows DEF ShowInv

LEMMA NextShowInv == ShowInv /\ [Next]_vars => ShowInv' /\ EndsForAReason
BY PartsNext, StepShows DEF ShowInv

\* A tab that has seen every storage event shows the session that is in storage, unless
\* it has expired, for any number of tabs.
THEOREM TabsAgree == Spec => []TabsAgreeWithStorage
<1>1. ShowInv => TabsAgreeWithStorage
  BY WorldOf DEF ShowInv, ViewsOK, Agrees, TabsAgreeWithStorage
<1> QED
  BY InitShowInv, NextShowInv, <1>1, PTL DEF Spec

\* The shopper a storefront shows is a customer of its store: a session of another
\* store's is found out by the first check and never comes back.
THEOREM ShoppersOfTheirStore == Spec => []ShopperOfThisStore
<1>1. ShowInv => ShopperOfThisStore
  <2> SUFFICES ASSUME ShowInv, NEW t \in Tabs, view[t].slot \in Stores,
                      view[t].tenant = view[t].slot, view[t].token # None,
                      t \notin stale, view[t].token \notin expired
               PROVE  TenantOf[view[t].token] = view[t].slot
    BY DEF ShopperOfThisStore
  <2>1. Open(t)
    BY SessionConstants DEF Open, Slots, StoreSlots
  <2>2. Agrees(World(t)) /\ Settled(World(t)) /\ Gone(storage, view[t].key)
    BY <2>1 DEF ShowInv, ViewsOK
  <2>3. storage[view[t].slot] = view[t].token
    BY <2>2, WorldOf DEF Agrees, Stored
  <2>4. view[t].key = <<view[t].tenant, view[t].token>>
    BY <2>2, WorldOf DEF Settled
  <2>5. view[t].key[1] = view[t].slot /\ view[t].key[2] = view[t].token
    BY <2>4
  <2> QED
    BY <2>2, <2>3, <2>5 DEF Gone
<1> QED
  BY InitShowInv, NextShowInv, <1>1, PTL DEF Spec

\* A session in storage ends only because the user signs in or out, because it has
\* expired or was rejected, or because it is in the slot of a store it is not for.
THEOREM NoSessionEndsOtherwise == Spec => SessionsEndForAReason
<1>1. EndsForAReason =>
        [\A s \in Slots :
           LET k == storage[s]
           IN  (k # None /\ storage'[s] # k)
               => \/ k \in expired \cup revoked
                  \/ s \in StoreSlots /\ s # TenantOf[k]
                  \/ \E t \in Tabs : UserAction(t)]_vars
  BY DEF EndsForAReason, Reason
<1> QED
  BY InitShowInv, NextShowInv, <1>1, PTL DEF Spec, SessionsEndForAReason
=============================================================================
