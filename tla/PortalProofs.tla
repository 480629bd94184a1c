---------------------------- MODULE PortalProofs ----------------------------
(***************************************************************************)
(* Machine-checked proofs about Portal, for any number of tenants, products,*)
(* requests in flight and sessions.  The inductive invariant says of every  *)
(* request in flight what the component that waits for it shows by now.     *)
(***************************************************************************)
EXTENDS Portal, SequenceTheorems, FiniteSetTheorems, WellFoundedInduction, TLAPS

\* The requests of a tenant's view, all about the tenant it was opened for.
OfTenantView == {"tenant", "change", "delete"}

\* Of a request r, with m, o and l for the page's me, openId and logins: no
\* dashboard is mounted unless somebody is in,
Unmounted(r, m) == r.kind \in OfViews \cup OfDashboard /\ m # "in" => ~r.dash

\* what a mounted view waits for is about the tenant that is open,
AboutOpen(r, o) == r.kind \in OfTenantView /\ r.view => r.of = o

\* a login the API has let in is for one session more,
HasRoom(r, l) == r.kind = "login" /\ r.answer = "ok" => l < MaxSessions

\* and no tenant is registered without an address.
Addressed(r) == r.kind = "create" /\ r.answer = "none" => r.raw \in Typed

Consistent(r, m, o, l) == Unmounted(r, m) /\ AboutOpen(r, o) /\ HasRoom(r, l) /\ Addressed(r)

\* Login has one button.
OneLogin == \A m, n \in Slots : net[m].kind = "login" /\ net[n].kind = "login" => m = n

DetailIsOpen == d # None => d = openId

PInv ==
    /\ PortalTypeOK /\ DetailIsOpen /\ OneLogin
    /\ \A n \in Slots : Consistent(net[n], me, openId, logins)

-----------------------------------------------------------------------------
(* The records.                                                             *)

LEMMA NothingAsked == NoRequest.kind = "none" /\ NoRequest \notin Request
<1>1. NoRequest.kind = "none"
  BY DEF NoRequest
<1>2. \A r \in Request : r.kind \in Reads \cup Writes
  BY DEF Request
<1> QED
  BY <1>1, <1>2 DEF Reads, Writes

LEMMA AskFields ==
    ASSUME NEW kind, NEW of, NEW raw
    PROVE  LET r == Ask(kind, of, raw) IN
           /\ r.kind = kind /\ r.of = of /\ r.raw = raw /\ r.cookie = cookie
           /\ r.tab = None /\ r.view /\ r.dash /\ r.answer = "none" /\ r.data = {}
  BY DEF Ask

LEMMA AskType ==
    ASSUME PortalTypeOK, NEW kind \in Reads \cup Writes,
           NEW of \in Products \cup Tenants \cup {None}, NEW raw \in Typed \cup {None}
    PROVE  Ask(kind, of, raw) \in Request
<1>1. cookie \in 0 .. MaxSessions
  BY PortalAssumption DEF PortalTypeOK
<1> QED
  BY <1>1 DEF Ask, Request

LEMMA LeavingFields ==
    ASSUME NEW r \in Request \cup {NoRequest}
    PROVE  /\ Leaving(r) \in Request \cup {NoRequest}
           /\ Leaving(r).kind = r.kind
           /\ r \in Request => /\ Leaving(r).of = r.of /\ Leaving(r).dash = r.dash
                               /\ Leaving(r).answer = r.answer /\ Leaving(r).raw = r.raw
           /\ r.kind \in OfViews => ~Leaving(r).view
<1>1. CASE r \in Request /\ r.kind \in OfViews
  BY <1>1 DEF Leaving, Request
<1>2. CASE r.kind \notin OfViews
  BY <1>2 DEF Leaving
<1>3. CASE r = NoRequest
  BY <1>3, NothingAsked DEF Leaving, OfViews
<1> QED
  BY <1>1, <1>2, <1>3

LEMMA GoneFields ==
    ASSUME NEW r \in Request \cup {NoRequest}
    PROVE  /\ Gone(r) \in Request \cup {NoRequest}
           /\ Gone(r).kind = r.kind
           /\ r \in Request => Gone(r).answer = r.answer /\ Gone(r).raw = r.raw
           /\ r.kind \in OfViews => ~Gone(r).view
           /\ r.kind \in OfViews \cup OfDashboard => ~Gone(r).dash
<1>1. CASE r \in Request /\ r.kind \in OfViews
  BY <1>1 DEF Gone, Request, OfViews, OfDashboard
<1>2. CASE r \in Request /\ r.kind \in OfDashboard /\ r.kind \notin OfViews
  BY <1>2 DEF Gone, Request
<1>3. CASE r \in Request /\ r.kind \notin OfViews \cup OfDashboard
  BY <1>3 DEF Gone
<1>4. CASE r = NoRequest
  BY <1>4, NothingAsked DEF Gone, OfViews, OfDashboard
<1> QED
  BY <1>1, <1>2, <1>3, <1>4

\* A request whose view is left agrees with whatever is open next, and one whose
\* dashboard is gone with whoever is in next.
LEMMA LeavingConsistent ==
    ASSUME NEW q \in Request \cup {NoRequest}, NEW m, NEW o, NEW l, NEW o2,
           Consistent(q, m, o, l)
    PROVE  Consistent(Leaving(q), m, o2, l)
<1>1. CASE q.kind \in OfViews
  BY <1>1, LeavingFields, NothingAsked
  DEF Consistent, Unmounted, AboutOpen, HasRoom, Addressed, OfViews, OfDashboard, OfTenantView
<1>2. CASE q.kind \notin OfViews
  BY <1>2
  DEF Leaving, Consistent, Unmounted, AboutOpen, HasRoom, Addressed, OfViews, OfTenantView
<1> QED
  BY <1>1, <1>2

LEMMA GoneConsistent ==
    ASSUME NEW q \in Request \cup {NoRequest}, NEW m, NEW o, NEW l, NEW m2, NEW o2,
           Consistent(q, m, o, l)
    PROVE  Consistent(Gone(q), m2, o2, l)
<1>1. CASE q \in Request
  BY <1>1, GoneFields
  DEF Consistent, Unmounted, AboutOpen, HasRoom, Addressed, OfViews, OfTenantView
<1>2. CASE q = NoRequest
  BY <1>2, NothingAsked
  DEF Gone, Consistent, Unmounted, AboutOpen, HasRoom, Addressed, OfViews, OfDashboard, OfTenantView
<1> QED
  BY <1>1, <1>2

LEMMA NothingConsistent ==
    ASSUME NEW m, NEW o, NEW l
    PROVE  Consistent(NoRequest, m, o, l)
  BY NothingAsked
  DEF Consistent, Unmounted, AboutOpen, HasRoom, Addressed, OfViews, OfDashboard, OfTenantView

\* What a click asks for is consistent while its page is shown.
LEMMA AskConsistent ==
    ASSUME NEW kind, NEW of, NEW raw, NEW m, NEW o, NEW l,
           kind \in OfViews \cup OfDashboard => m = "in",
           kind \in OfTenantView => of = o,
           kind = "create" => raw \in Typed
    PROVE  Consistent(Ask(kind, of, raw), m, o, l)
  BY AskFields DEF Consistent, Unmounted, AboutOpen, HasRoom, Addressed

\* The slot a request takes was free.
LEMMA FreeSlot ==
    ASSUME NEW r, Send(r)
    PROVE  \E k \in Slots : net[k] = NoRequest /\ net' = [net EXCEPT ![k] = r]
  BY DEF Send, Free

LEMMA SwitchSlot ==
    ASSUME NEW r, Switch(r)
    PROVE  \E k \in Slots : /\ net[k] = NoRequest
                            /\ net' = [m \in Slots |-> IF m = k THEN r ELSE Leaving(net[m])]
  BY DEF Switch, Free

\* A request sent beside the others, which stay as they are.
LEMMA SendKeeps ==
    ASSUME PInv, NEW r \in Request, Send(r), UNCHANGED <<me, openId, logins>>,
           Consistent(r, me, openId, logins),
           r.kind = "login" => InFlight({"login"}) = {}
    PROVE  /\ net' \in [Slots -> Request \cup {NoRequest}] /\ OneLogin'
           /\ \A n \in Slots : Consistent(net'[n], me', openId', logins')
<1>1. PICK k \in Slots : net[k] = NoRequest /\ net' = [net EXCEPT ![k] = r]
  BY FreeSlot
<1>2. net \in [Slots -> Request \cup {NoRequest}]
  BY DEF PInv, PortalTypeOK
<1>3. net' \in [Slots -> Request \cup {NoRequest}]
  BY <1>1, <1>2
<1>4. \A n \in Slots : net'[n] = IF n = k THEN r ELSE net[n]
  BY <1>1, <1>2
<1>5. OneLogin'
  BY <1>4 DEF PInv, OneLogin, InFlight
<1>6. \A n \in Slots : Consistent(net'[n], me', openId', logins')
  BY <1>4 DEF PInv
<1> QED
  BY <1>3, <1>5, <1>6

\* A request sent as the view below the dashboard is replaced.
LEMMA SwitchKeeps ==
    ASSUME PInv, NEW r \in Request, Switch(r), UNCHANGED <<me, logins>>,
           Consistent(r, me, openId', logins), r.kind # "login"
    PROVE  /\ net' \in [Slots -> Request \cup {NoRequest}] /\ OneLogin'
           /\ \A n \in Slots : Consistent(net'[n], me', openId', logins')
<1>1. PICK k \in Slots : /\ net[k] = NoRequest
                         /\ net' = [m \in Slots |-> IF m = k THEN r ELSE Leaving(net[m])]
  BY SwitchSlot
<1>2. net \in [Slots -> Request \cup {NoRequest}]
  BY DEF PInv, PortalTypeOK
<1>3. net' \in [Slots -> Request \cup {NoRequest}]
  BY <1>1, <1>2, LeavingFields
<1>4. \A n \in Slots : net'[n].kind = "login" => net[n].kind = "login"
  BY <1>1, <1>2, LeavingFields
<1>5. OneLogin'
  BY <1>4 DEF PInv, OneLogin
<1>6. ASSUME NEW n \in Slots PROVE Consistent(net'[n], me', openId', logins')
  <2>1. Consistent(Leaving(net[n]), me, openId', logins)
    BY <1>2, LeavingConsistent DEF PInv
  <2> QED
    BY <2>1, <1>1
<1> QED
  BY <1>3, <1>5, <1>6

-----------------------------------------------------------------------------
(* What the operator does.                                                  *)

LEMMA LoginKeeps == PInv /\ LoginClick => PInv'
<1> SUFFICES ASSUME PInv, LoginClick PROVE PInv'
  OBVIOUS
<1>1. PICK r : r = Ask("login", None, None)
  OBVIOUS
<1>2. r \in Request /\ r.kind = "login"
  BY <1>1, AskType, AskFields DEF PInv, Writes
<1>3. Consistent(r, me, openId, logins)
  BY <1>1, AskConsistent DEF OfViews, OfDashboard, OfTenantView
<1>4. Send(r) /\ UNCHANGED <<me, active, tenants, openId, d, cookie, logins, alive, url>>
      /\ InFlight({"login"}) = {}
  BY <1>1 DEF LoginClick, page, api
<1>5. /\ net' \in [Slots -> Request \cup {NoRequest}] /\ OneLogin'
      /\ \A n \in Slots : Consistent(net'[n], me', openId', logins')
  BY <1>2, <1>3, <1>4, SendKeeps
<1> QED
  BY <1>4, <1>5 DEF PInv, PortalTypeOK, DetailIsOpen

\* The requests a dashboard sends beside those on their way.
LEMMA SendFromDashboard ==
    ASSUME PInv, NEW r \in Request, Send(r), r.kind # "login",
           Consistent(r, me, openId, logins), UNCHANGED <<page, api>>
    PROVE  PInv'
<1>1. /\ net' \in [Slots -> Request \cup {NoRequest}] /\ OneLogin'
      /\ \A n \in Slots : Consistent(net'[n], me', openId', logins')
  BY SendKeeps DEF page, api
<1> QED
  BY <1>1 DEF PInv, PortalTypeOK, DetailIsOpen, page, api

LEMMA LogoutKeeps == PInv /\ LogoutClick => PInv'
<1> SUFFICES ASSUME PInv, LogoutClick PROVE PInv'
  OBVIOUS
<1>1. PICK r : r = Ask("logout", None, None)
  OBVIOUS
<1>2. r \in Request /\ r.kind = "logout"
  BY <1>1, AskType, AskFields DEF PInv, Writes
<1>3. Consistent(r, me, openId, logins)
  BY <1>1, AskConsistent DEF OfViews, OfDashboard, OfTenantView
<1> QED
  BY <1>1, <1>2, <1>3, SendFromDashboard DEF LogoutClick

LEMMA CreateKeeps == ASSUME NEW raw \in Typed, PInv, CreateClick(raw) PROVE PInv'
<1>1. PICK r : r = Ask("create", active, raw)
  OBVIOUS
<1>2. r \in Request /\ r.kind = "create"
  BY <1>1, AskType, AskFields DEF PInv, PortalTypeOK, Writes
<1>3. Consistent(r, me, openId, logins)
  BY <1>1, AskConsistent DEF CreateClick, OfTenantView
<1> QED
  BY <1>1, <1>2, <1>3, SendFromDashboard DEF CreateClick

\* The buttons of a tenant's view act on the tenant that is open.
LEMMA ChangeKeeps == ASSUME NEW raw \in Typed \cup {None}, PInv, ChangeClick(raw) PROVE PInv'
<1>1. PICK r : r = Ask("change", openId, raw)
  OBVIOUS
<1>2. r \in Request /\ r.kind = "change"
  BY <1>1, AskType, AskFields DEF PInv, PortalTypeOK, Writes
<1>3. Consistent(r, me, openId, logins)
  BY <1>1, AskConsistent DEF ChangeClick
<1> QED
  BY <1>1, <1>2, <1>3, SendFromDashboard DEF ChangeClick

LEMMA DeleteKeeps == PInv /\ DeleteClick => PInv'
<1> SUFFICES ASSUME PInv, DeleteClick PROVE PInv'
  OBVIOUS
<1>1. PICK q : q = Ask("delete", openId, None)
  OBVIOUS
<1>2. PICK r : r = [q EXCEPT !.tab = active]
  OBVIOUS
<1>3. q \in Request /\ q.kind = "delete" /\ q.of = openId /\ q.answer = "none"
  BY <1>1, AskType, AskFields DEF PInv, PortalTypeOK, Writes
<1>4. r \in Request /\ r.kind = "delete" /\ r.of = openId
  BY <1>2, <1>3 DEF Request, PInv, PortalTypeOK
<1>5. Consistent(r, me, openId, logins)
  BY <1>4 DEF DeleteClick, Consistent, Unmounted, AboutOpen, HasRoom, Addressed
<1> QED
  BY <1>1, <1>2, <1>4, <1>5, SendFromDashboard DEF DeleteClick

\* A tenant is opened from the list, where no detail is shown.
LEMMA OpenKeeps == ASSUME NEW t \in Tenants, PInv, OpenClick(t) PROVE PInv'
<1>1. PICK r : r = Ask("tenant", t, None)
  OBVIOUS
<1>2. r \in Request /\ r.kind = "tenant"
  BY <1>1, AskType, AskFields DEF PInv, Reads
<1>3. Consistent(r, me, openId', logins)
  BY <1>1, AskConsistent DEF OpenClick
<1>4. /\ net' \in [Slots -> Request \cup {NoRequest}] /\ OneLogin'
      /\ \A n \in Slots : Consistent(net'[n], me', openId', logins')
  BY <1>1, <1>2, <1>3, SwitchKeeps DEF OpenClick, api
<1>5. d = None
  BY DEF PInv, DetailIsOpen, OpenClick
<1> QED
  BY <1>4, <1>5 DEF PInv, PortalTypeOK, DetailIsOpen, OpenClick, api

LEMMA BackKeeps == PInv /\ BackClick => PInv'
<1> SUFFICES ASSUME PInv, BackClick PROVE PInv'
  OBVIOUS
<1>1. PICK r : r = Ask("tenants", active, None)
  OBVIOUS
<1>2. r \in Request /\ r.kind = "tenants"
  BY <1>1, AskType, AskFields DEF PInv, PortalTypeOK, Reads
<1>3. Consistent(r, me, openId', logins)
  BY <1>1, AskConsistent DEF BackClick, OfTenantView
<1>4. /\ net' \in [Slots -> Request \cup {NoRequest}] /\ OneLogin'
      /\ \A n \in Slots : Consistent(net'[n], me', openId', logins')
  BY <1>1, <1>2, <1>3, SwitchKeeps DEF BackClick, api
<1> QED
  BY <1>4 DEF PInv, PortalTypeOK, DetailIsOpen, BackClick, api

\* A tab leaves the view of an open tenant, and only another tab asks for a list.
LEMMA TabKeeps == ASSUME NEW p \in Products, PInv, TabClick(p) PROVE PInv'
<1>1. me' = me /\ logins' = logins /\ openId' = None /\ d' = None /\ active' = p
      /\ tenants' = tenants /\ cookie' = cookie /\ alive' = alive /\ me = "in"
  BY DEF TabClick, api
<1>2. net \in [Slots -> Request \cup {NoRequest}] /\ openId \in Tenants \cup {None}
  BY DEF PInv, PortalTypeOK
<1>3. PICK r : r = Ask("tenants", p, None)
  OBVIOUS
<1>4. r \in Request /\ r.kind = "tenants"
  BY <1>3, AskType, AskFields DEF PInv, Reads
<1>5. Consistent(r, me, openId', logins)
  BY <1>1, <1>3, AskConsistent DEF OfTenantView
<1>6. /\ net' \in [Slots -> Request \cup {NoRequest}] /\ OneLogin'
      /\ \A n \in Slots : Consistent(net'[n], me', openId', logins')
  <2>1. CASE p = active /\ openId # None
    <3>1. net' = [m \in Slots |-> Leaving(net[m])]
      BY <2>1 DEF TabClick
    <3>2. net' \in [Slots -> Request \cup {NoRequest}]
      BY <3>1, <1>2, LeavingFields
    <3>3. OneLogin'
      BY <3>1, <1>2, LeavingFields DEF PInv, OneLogin
    <3>4. ASSUME NEW n \in Slots PROVE Consistent(Leaving(net[n]), me, openId', logins)
      BY <1>2, LeavingConsistent DEF PInv
    <3> QED
      BY <1>1, <3>1, <3>2, <3>3, <3>4
  <2>2. CASE p = active /\ openId = None
    <3>1. net' = net
      BY <2>2, <1>2 DEF TabClick
    <3> QED
      BY <1>1, <1>2, <2>2, <3>1 DEF PInv, OneLogin
  <2>3. CASE p # active /\ openId # None
    BY <1>1, <1>3, <1>4, <1>5, <2>3, SwitchKeeps DEF TabClick
  <2>4. CASE p # active /\ openId = None
    BY <1>1, <1>3, <1>4, <1>5, <2>4, SendKeeps DEF TabClick
  <2> QED
    BY <2>1, <2>2, <2>3, <2>4
<1> QED
  BY <1>1, <1>6 DEF PInv, PortalTypeOK, DetailIsOpen

LEMMA ClickKeeps == PInv /\ Click => PInv'
  BY LoginKeeps, LogoutKeeps, BackKeeps, DeleteKeeps, TabKeeps, OpenKeeps, CreateKeeps, ChangeKeeps
  DEF Click

-----------------------------------------------------------------------------
(* What the API does.                                                       *)

\* An answer changes nothing that the page looks at before it arrives.
LEMMA AnsweredKeeps ==
    ASSUME PInv, NEW n \in Slots, net[n] # NoRequest,
           NEW answer \in {"ok", "401", "error"}, NEW data \in SUBSET Tenants,
           Answered(n, answer, data),
           answer = "ok" /\ net[n].kind = "login" => logins < MaxSessions,
           UNCHANGED <<me, active, tenants, openId, d, cookie, logins>>,
           alive' \subseteq alive
    PROVE  PInv'
<1>1. net \in [Slots -> Request \cup {NoRequest}] /\ net[n] \in Request
  BY DEF PInv, PortalTypeOK
<1>2. PICK r : r = [net[n] EXCEPT !.answer = answer, !.data = data, !.cookie = 0, !.raw = None]
  OBVIOUS
<1>3. net' = [net EXCEPT ![n] = r]
  BY <1>1, <1>2 DEF Answered
<1>4. 0 \in 0 .. MaxSessions
  BY PortalAssumption
<1>5. /\ r \in Request /\ r.kind = net[n].kind /\ r.of = net[n].of
      /\ r.view = net[n].view /\ r.dash = net[n].dash /\ r.answer = answer
  BY <1>1, <1>2, <1>4 DEF Request
<1>6. \A m \in Slots : net'[m] = IF m = n THEN r ELSE net[m]
  BY <1>1, <1>3
<1>7. net' \in [Slots -> Request \cup {NoRequest}]
  BY <1>1, <1>3, <1>5
<1>8. OneLogin'
  BY <1>5, <1>6 DEF PInv, OneLogin
<1>9. Consistent(r, me', openId', logins')
  BY <1>5 DEF PInv, Consistent, Unmounted, AboutOpen, HasRoom, Addressed
<1>10. \A m \in Slots : Consistent(net'[m], me', openId', logins')
  BY <1>6, <1>9 DEF PInv
<1> QED
  BY <1>7, <1>8, <1>10 DEF PInv, PortalTypeOK, DetailIsOpen

LEMMA ServeKeeps == ASSUME NEW n \in Slots, PInv, Serve(n) PROVE PInv'
<1>1. net[n] # NoRequest /\ UNCHANGED <<me, active, tenants, openId, d, cookie, logins>>
  BY DEF Serve, page
<1>2. alive' \subseteq alive
  BY DEF Serve
<1>3. PICK listed : listed = {t \in Tenants : url[t] # None /\ ProductOf[t] = net[n].of}
  OBVIOUS
<1>4. \/ Answered(n, "error", {}) \/ Answered(n, "401", {})
      \/ Answered(n, "ok", {}) /\ (net[n].kind = "login" => logins < MaxSessions)
      \/ Answered(n, "ok", listed) /\ net[n].kind # "login"
  BY <1>3 DEF Serve
<1> QED
  BY <1>1, <1>2, <1>3, <1>4, AnsweredKeeps

LEMMA SessionEndsKeeps == PInv /\ SessionEnds => PInv'
<1> SUFFICES ASSUME PInv, SessionEnds PROVE PInv'
  OBVIOUS
<1>1. alive' \subseteq alive /\ UNCHANGED <<me, active, tenants, openId, d, net, cookie, logins>>
  BY DEF SessionEnds, page
<1> QED
  BY <1>1 DEF PInv, PortalTypeOK, DetailIsOpen, OneLogin

-----------------------------------------------------------------------------
(* What the page does with an answer.                                       *)

LEMMA ShowLoginKeeps == ASSUME NEW n \in Slots, PInv, ShowLogin(n) PROVE PInv'
<1>1. net \in [Slots -> Request \cup {NoRequest}]
  BY DEF PInv, PortalTypeOK
<1>2. net' = [m \in Slots |-> IF m = n THEN NoRequest ELSE Gone(net[m])]
  BY DEF ShowLogin
<1>3. net' \in [Slots -> Request \cup {NoRequest}]
  BY <1>1, <1>2, GoneFields
<1>4. \A m \in Slots : net'[m].kind = "login" => net[m].kind = "login"
  BY <1>1, <1>2, GoneFields, NothingAsked
<1>5. OneLogin'
  BY <1>4 DEF PInv, OneLogin
<1>6. ASSUME NEW m \in Slots PROVE Consistent(net'[m], me', openId', logins')
  <2>1. Consistent(Gone(net[m]), me', openId', logins)
    BY <1>1, GoneConsistent DEF PInv
  <2>2. Consistent(NoRequest, me', openId', logins)
    BY NothingConsistent
  <2> QED
    BY <2>1, <2>2, <1>2 DEF ShowLogin
<1> QED
  BY <1>3, <1>5, <1>6, PortalAssumption DEF PInv, PortalTypeOK, DetailIsOpen, ShowLogin

\* The request whose answer has arrived makes room for the one that follows it.
LEMMA InPlace ==
    ASSUME PInv, NEW n \in Slots, NEW r \in Request \cup {NoRequest}, r.kind # "login",
           net' = [net EXCEPT ![n] = r],
           \A m \in Slots \ {n} : Consistent(net[m], me', openId', logins'),
           Consistent(r, me', openId', logins')
    PROVE  /\ net' \in [Slots -> Request \cup {NoRequest}] /\ OneLogin'
           /\ \A m \in Slots : Consistent(net'[m], me', openId', logins')
<1>1. net \in [Slots -> Request \cup {NoRequest}]
  BY DEF PInv, PortalTypeOK
<1>2. \A m \in Slots : net'[m] = IF m = n THEN r ELSE net[m]
  BY <1>1
<1>3. OneLogin'
  BY <1>2 DEF PInv, OneLogin
<1> QED
  BY <1>1, <1>2, <1>3

\* A dashboard is shown for the session that was asked about or opened, the one
\* after the last.
LEMMA ShowDashboardKeeps ==
    ASSUME NEW n \in Slots, PInv, net[n] # NoRequest,
           net[n].kind \in {"me", "login"}, net[n].answer = "ok", ShowDashboard(n)
    PROVE  PInv'
<1>1. PICK q : q = Ask("products", None, None)
  OBVIOUS
<1>2. q \in Request /\ q.kind = "products"
  BY <1>1, AskType, AskFields DEF PInv, Reads
<1>3. /\ cookie' \in 0 .. logins' /\ logins' \in 1 .. MaxSessions
      /\ alive' \subseteq 1 .. MaxSessions
      /\ net[n].kind # "login" => logins' = logins
  BY PortalAssumption DEF PInv, PortalTypeOK, ShowDashboard, Consistent, HasRoom, Addressed
<1>4. PICK r : r = [q EXCEPT !.cookie = cookie']
  OBVIOUS
<1>5. cookie' \in 0 .. MaxSessions
  BY <1>3, PortalAssumption
<1>6. r \in Request /\ r.kind = "products"
  BY <1>2, <1>4, <1>5 DEF Request
<1>7. me' = "in" /\ UNCHANGED <<active, tenants, openId, d>> /\ net' = [net EXCEPT ![n] = r]
  BY <1>1, <1>4 DEF ShowDashboard
<1>8. \A m \in Slots \ {n} : Consistent(net[m], me', openId', logins')
  BY <1>3, <1>7 DEF PInv, OneLogin, Consistent, Unmounted, AboutOpen, HasRoom, Addressed
<1>9. Consistent(r, me', openId', logins')
  BY <1>6, <1>7 DEF Consistent, Unmounted, AboutOpen, HasRoom, Addressed, OfTenantView
<1>10. /\ net' \in [Slots -> Request \cup {NoRequest}] /\ OneLogin'
       /\ \A m \in Slots : Consistent(net'[m], me', openId', logins')
  BY <1>6, <1>7, <1>8, <1>9, InPlace
<1> QED
  BY <1>3, <1>7, <1>10 DEF PInv, PortalTypeOK, DetailIsOpen

\* An answer after which nothing is asked.
LEMMA DropKeeps ==
    ASSUME PInv, NEW n \in Slots, Drop(n), UNCHANGED <<me, openId, logins>>
    PROVE  /\ net' \in [Slots -> Request \cup {NoRequest}] /\ OneLogin'
           /\ \A m \in Slots : Consistent(net'[m], me', openId', logins')
<1>1. PICK r : r = NoRequest
  OBVIOUS
<1>2. r.kind # "login" /\ Consistent(r, me', openId', logins')
  BY <1>1, NothingAsked, NothingConsistent
<1> QED
  BY <1>1, <1>2, InPlace DEF Drop, PInv

\* A callback asks on behalf of the component that was waiting, mounted or not.
LEMMA FollowKeeps ==
    ASSUME PInv, NEW n \in Slots, net[n] # NoRequest, NEW kind \in {"tenants", "tenant"},
           NEW of \in Products \cup Tenants \cup {None},
           net[n].kind \in OfViews \cup OfDashboard,
           kind = "tenant" => net[n].kind \in OfTenantView /\ net[n].of = of,
           Follow(n, kind, of), UNCHANGED <<me, openId, logins>>
    PROVE  /\ net' \in [Slots -> Request \cup {NoRequest}] /\ OneLogin'
           /\ \A m \in Slots : Consistent(net'[m], me', openId', logins')
<1>1. net[n] \in Request /\ Consistent(net[n], me, openId, logins)
  BY DEF PInv, PortalTypeOK
<1>2. net[n].view \in BOOLEAN /\ net[n].dash \in BOOLEAN
  BY <1>1 DEF Request
<1>3. PICK q : q = Ask(kind, of, None)
  OBVIOUS
<1>4. PICK v \in BOOLEAN : v = (kind \in OfViews => net[n].view)
  OBVIOUS
<1>5. q \in Request /\ q.kind = kind /\ q.of = of
  BY <1>3, AskType, AskFields DEF PInv, Reads
<1>6. PICK r : r = [q EXCEPT !.view = v, !.dash = net[n].dash]
  OBVIOUS
<1>7. r \in Request /\ r.kind = kind /\ r.of = of /\ r.view = v /\ r.dash = net[n].dash
  BY <1>2, <1>4, <1>5, <1>6 DEF Request
<1>8. Consistent(r, me', openId', logins')
  BY <1>1, <1>4, <1>7
  DEF Consistent, Unmounted, AboutOpen, HasRoom, Addressed, OfViews, OfDashboard, OfTenantView
<1>9. net' = [net EXCEPT ![n] = r]
  BY <1>3, <1>4, <1>6 DEF Follow
<1> QED
  BY <1>7, <1>8, <1>9, InPlace DEF PInv

\* The list is shown again after a deletion, in place of whichever view is open.
LEMMA DeletedKeeps ==
    ASSUME PInv, NEW n \in Slots, net[n] # NoRequest, net[n].dash, net[n].kind = "delete",
           openId' = None, d' = None, UNCHANGED <<me, active, tenants, api>>,
           net' = [m \in Slots |-> IF m = n THEN Ask("tenants", net[n].tab, None)
                                   ELSE Leaving(net[m])]
    PROVE  PInv'
<1>1. net \in [Slots -> Request \cup {NoRequest}] /\ net[n] \in Request
  BY DEF PInv, PortalTypeOK
<1>2. me = "in" /\ net[n].tab \in Products \cup {None}
  BY <1>1 DEF PInv, Consistent, Unmounted, OfViews, Request
<1>3. PICK r : r = Ask("tenants", net[n].tab, None)
  OBVIOUS
<1>4. r \in Request /\ r.kind = "tenants"
  BY <1>2, <1>3, AskType, AskFields DEF PInv, Reads
<1>5. Consistent(r, me, openId', logins)
  BY <1>2, <1>3, AskConsistent DEF OfTenantView
<1>6. net' = [m \in Slots |-> IF m = n THEN r ELSE Leaving(net[m])]
  BY <1>3
<1>7. net' \in [Slots -> Request \cup {NoRequest}]
  BY <1>1, <1>4, <1>6, LeavingFields
<1>8. \A m \in Slots : net'[m].kind = "login" => net[m].kind = "login"
  BY <1>1, <1>4, <1>6, LeavingFields
<1>9. OneLogin'
  BY <1>8 DEF PInv, OneLogin
<1>10. ASSUME NEW m \in Slots PROVE Consistent(net'[m], me', openId', logins')
  <2>1. Consistent(Leaving(net[m]), me, openId', logins)
    BY <1>1, LeavingConsistent DEF PInv
  <2> QED
    BY <2>1, <1>5, <1>6 DEF api
<1> QED
  BY <1>7, <1>9, <1>10 DEF PInv, PortalTypeOK, DetailIsOpen, api

LEMMA DeliverKeeps == ASSUME NEW n \in Slots, PInv, Deliver(n) PROVE PInv'
<1> DEFINE r == net[n]
           ok == r.answer = "ok"
<1>1. r \in Request /\ r # NoRequest /\ Consistent(r, me, openId, logins)
  BY DEF PInv, PortalTypeOK, Deliver
<1>2. CASE ShowLogin(n)
  BY <1>2, ShowLoginKeeps
<1>3. CASE r.kind \in {"me", "login"} /\ ok /\ ShowDashboard(n)
  BY <1>1, <1>3, ShowDashboardKeeps
<1>4. CASE Drop(n) /\ UNCHANGED <<page, api>>
  <2>1. UNCHANGED <<me, active, tenants, openId, d, cookie, logins, alive>>
    BY <1>4 DEF page, api
  <2> QED
    BY <2>1, <1>4, DropKeeps DEF PInv, PortalTypeOK, DetailIsOpen
<1>5. CASE /\ r.kind = "products"
           /\ IF r.dash THEN active' = First /\ Follow(n, "tenants", First)
                        ELSE Drop(n) /\ UNCHANGED active
           /\ UNCHANGED <<me, tenants, openId, d, api>>
  <2>1. UNCHANGED <<me, tenants, openId, d, cookie, logins, alive>>
    BY <1>5 DEF api
  <2>2. CASE r.dash
    <3>1. me = "in"
      BY <1>1, <1>5, <2>2 DEF Consistent, Unmounted, OfDashboard
    <3>2. /\ net' \in [Slots -> Request \cup {NoRequest}] /\ OneLogin'
          /\ \A m \in Slots : Consistent(net'[m], me', openId', logins')
      BY <1>1, <1>5, <2>1, <2>2, FollowKeeps, PortalAssumption DEF OfDashboard
    <3> QED
      BY <1>5, <2>1, <2>2, <3>1, <3>2, PortalAssumption DEF PInv, PortalTypeOK, DetailIsOpen
  <2>3. CASE ~r.dash
    BY <1>5, <2>1, <2>3, DropKeeps DEF PInv, PortalTypeOK, DetailIsOpen
  <2> QED
    BY <2>2, <2>3
<1>6. CASE /\ r.kind = "tenants"
           /\ tenants' = IF r.dash THEN r.data ELSE tenants
           /\ Drop(n) /\ UNCHANGED <<me, active, openId, d, api>>
  <2>1. UNCHANGED <<me, active, openId, d, cookie, logins, alive>>
    BY <1>6 DEF api
  <2>2. tenants' \subseteq Tenants
    BY <1>1, <1>6 DEF PInv, PortalTypeOK, Request
  <2>3. me # "in" => tenants' = tenants
    BY <1>1, <1>6 DEF Consistent, Unmounted, OfDashboard
  <2> QED
    BY <1>6, <2>1, <2>2, <2>3, DropKeeps DEF PInv, PortalTypeOK, DetailIsOpen
<1>7. CASE /\ r.kind = "tenant"
           /\ d' = IF r.view THEN r.of ELSE d
           /\ Drop(n) /\ UNCHANGED <<me, active, tenants, openId, api>>
  <2>1. UNCHANGED <<me, active, tenants, openId, cookie, logins, alive>>
    BY <1>7 DEF api
  <2>2. r.view => d' = openId
    BY <1>1, <1>7 DEF Consistent, AboutOpen, OfTenantView
  <2> QED
    BY <1>7, <2>1, <2>2, DropKeeps DEF PInv, PortalTypeOK, DetailIsOpen
<1>8. CASE /\ r.kind = "change"
           /\ Follow(n, "tenant", r.of) /\ UNCHANGED <<page, api>>
  <2>1. UNCHANGED <<me, active, tenants, openId, d, cookie, logins, alive>>
    BY <1>8 DEF page, api
  <2>2. PICK of \in Products \cup Tenants \cup {None} : of = r.of
    BY <1>1 DEF Request
  <2>3. /\ net' \in [Slots -> Request \cup {NoRequest}] /\ OneLogin'
        /\ \A m \in Slots : Consistent(net'[m], me', openId', logins')
    BY <1>1, <1>8, <2>1, <2>2, FollowKeeps DEF OfViews, OfTenantView
  <2> QED
    BY <2>1, <2>3 DEF PInv, PortalTypeOK, DetailIsOpen
<1>9. CASE /\ r.kind = "create"
           /\ Follow(n, "tenants", r.of) /\ UNCHANGED <<page, api>>
  <2>1. UNCHANGED <<me, active, tenants, openId, d, cookie, logins, alive>>
    BY <1>9 DEF page, api
  <2>2. PICK of \in Products \cup Tenants \cup {None} : of = r.of
    BY <1>1 DEF Request
  <2>3. /\ net' \in [Slots -> Request \cup {NoRequest}] /\ OneLogin'
        /\ \A m \in Slots : Consistent(net'[m], me', openId', logins')
    BY <1>1, <1>9, <2>1, <2>2, FollowKeeps DEF OfViews
  <2> QED
    BY <2>1, <2>3 DEF PInv, PortalTypeOK, DetailIsOpen
<1>10. CASE /\ r.kind = "delete"
            /\ IF r.dash /\ openId # None
               THEN /\ openId' = None /\ d' = None
                    /\ net' = [m \in Slots |->
                          IF m = n THEN Ask("tenants", r.tab, None) ELSE Leaving(net[m])]
               ELSE Follow(n, "tenants", r.tab) /\ UNCHANGED <<openId, d>>
            /\ UNCHANGED <<me, active, tenants, api>>
  <2>1. CASE r.dash /\ openId # None
    BY <1>1, <1>10, <2>1, DeletedKeeps
  <2>2. CASE ~(r.dash /\ openId # None)
    <3>1. UNCHANGED <<me, active, tenants, openId, d, cookie, logins, alive>>
      BY <1>10, <2>2 DEF api
    <3>2. PICK of \in Products \cup Tenants \cup {None} : of = r.tab
      BY <1>1 DEF Request
    <3>3. /\ net' \in [Slots -> Request \cup {NoRequest}] /\ OneLogin'
          /\ \A m \in Slots : Consistent(net'[m], me', openId', logins')
      BY <1>1, <1>10, <2>2, <3>1, <3>2, FollowKeeps DEF OfViews
    <3> QED
      BY <3>1, <3>3 DEF PInv, PortalTypeOK, DetailIsOpen
  <2> QED
    BY <2>1, <2>2
<1> QED
  BY <1>2, <1>3, <1>4, <1>5, <1>6, <1>7, <1>8, <1>9, <1>10 DEF Deliver

-----------------------------------------------------------------------------
(* The theorems.                                                            *)

LEMMA PInvInit == PortalInit => PInv
<1> SUFFICES ASSUME PortalInit PROVE PInv
  OBVIOUS
<1>1. PICK r : r = Ask("me", None, None)
  OBVIOUS
<1>2. cookie = 1 /\ 1 \in 0 .. MaxSessions
  BY PortalAssumption DEF PortalInit
<1>3. r \in Request /\ r.kind = "me"
  BY <1>1, <1>2, AskFields DEF Ask, Request, Reads
<1>4. Consistent(r, me, openId, logins)
  BY <1>3 DEF Consistent, Unmounted, AboutOpen, HasRoom, Addressed, OfViews, OfDashboard, OfTenantView
<1>5. \A n \in Slots : net[n] \in {r, NoRequest}
  BY <1>1 DEF PortalInit
<1>6. net \in [Slots -> Request \cup {NoRequest}]
  BY <1>3, <1>5 DEF PortalInit
<1>7. \A n \in Slots : Consistent(net[n], me, openId, logins)
  BY <1>4, <1>5, NothingConsistent
<1>8. OneLogin
  BY <1>3, <1>5, NothingAsked DEF OneLogin
<1> QED
  BY <1>6, <1>7, <1>8, PortalAssumption DEF PortalInit, PInv, PortalTypeOK, DetailIsOpen

LEMMA PInvNext == PInv /\ [PortalNext]_portalVars => PInv'
<1>1. PInv /\ UNCHANGED portalVars => PInv'
  BY DEF portalVars, page, api, PInv, PortalTypeOK, DetailIsOpen, OneLogin
<1> QED
  BY <1>1, ClickKeeps, SessionEndsKeeps, ServeKeeps, DeliverKeeps DEF PortalNext

LEMMA PInvAlways == PortalSpec => []PInv
  BY PInvInit, PInvNext, PTL DEF PortalSpec

\* The page's state keeps its type, and nothing of a dashboard outlives it: once
\* Login is shown, no late answer brings a tab, a list or a view back.
THEOREM PortalTypeCorrect == PortalSpec => []PortalTypeOK
<1>1. PInv => PortalTypeOK
  BY DEF PInv
<1> QED
  BY <1>1, PInvAlways, PTL

\* The detail shown is always the open tenant's, and every change or deletion the
\* view waits for is about it, whatever the order in which the answers arrive.
THEOREM WhatIsSeenIsActedOn == PortalSpec => []SeenIsActedOn
<1>1. PInv => SeenIsActedOn
  BY DEF PInv, DetailIsOpen, SeenIsActedOn, InFlight, Consistent, AboutOpen, OfTenantView
<1> QED
  BY <1>1, PInvAlways, PTL

-----------------------------------------------------------------------------
(* Addresses: str.rstrip and str.strip.                                     *)

\* What Max of a bounded set of numbers is; that there is a largest one.
LEMMA Largest ==
    ASSUME NEW I \in SUBSET Nat, I # {}, NEW n \in Nat, \A i \in I : i =< n
    PROVE  Max(I) \in I /\ \A i \in I : i =< Max(I)
<1> DEFINE T == {n - i : i \in I}
<1>1. T \subseteq Nat /\ T # {}
  <2>1. \A i \in I : n - i \in Nat
    OBVIOUS
  <2> QED
    BY <2>1
<1>2. PICK x \in T : \A y \in T : ~ (<<y, x>> \in OpToRel(<, Nat))
  BY <1>1, NatLessThanWellFounded, WFMin
<1>3. \A y \in T : ~(y < x)
  BY <1>1, <1>2 DEF OpToRel
<1>4. PICK i \in I : x = n - i
  BY <1>2
<1>5. \A j \in I : j =< i
  <2> SUFFICES ASSUME NEW j \in I PROVE j =< i
    OBVIOUS
  <2>1. n - j \in T
    OBVIOUS
  <2>2. ~(n - j < n - i)
    BY <2>1, <1>3, <1>4
  <2>3. i \in Nat /\ j \in Nat
    OBVIOUS
  <2> HIDE DEF T
  <2> QED
    BY <2>2, <2>3
<1>6. \E m \in I : \A j \in I : m >= j
  BY <1>5
<1> QED
  BY <1>6 DEF Max

\* str.rstrip cuts off a run of the piece, and nothing else.
LEMMA RStripSpec ==
    ASSUME NEW S, NEW u \in Seq(S), NEW piece
    PROVE  \E k \in 0 .. Len(u) :
             /\ RStrip(u, piece) = SubSeq(u, 1, k)
             /\ k = 0 \/ u[k] # piece
             /\ \A i \in k + 1 .. Len(u) : u[i] = piece
<1> DEFINE I == {i \in 1 .. Len(u) : u[i] # piece}
           k == SelectLastInSeq(u, LAMBDA x : x # piece)
<1>1. Len(u) \in Nat
  OBVIOUS
<1>2. k = IF I # {} THEN Max(I) ELSE 0
  BY DEF SelectLastInSeq
<1>3. RStrip(u, piece) = SubSeq(u, 1, k)
  BY DEF RStrip
<1> HIDE DEF k
<1>4. CASE I = {}
  BY <1>1, <1>2, <1>3, <1>4
<1>5. CASE I # {}
  <2>1. I \in SUBSET Nat /\ \A i \in I : i =< Len(u)
    BY <1>1
  <2> HIDE DEF I
  <2>2. Max(I) \in I /\ \A i \in I : i =< Max(I)
    BY <1>1, <1>5, <2>1, Largest
  <2> USE DEF I
  <2>3. k \in 1 .. Len(u) /\ u[k] # piece
    BY <1>2, <1>5, <2>2
  <2>4. \A i \in k + 1 .. Len(u) : u[i] = piece
    BY <1>1, <1>2, <1>5, <2>2, <2>3
  <2> QED
    BY <1>3, <2>3, <2>4
<1> QED
  BY <1>4, <1>5

LEMMA RStripType ==
    ASSUME NEW S, NEW u \in Seq(S), NEW piece
    PROVE  RStrip(u, piece) \in Seq(S)
  BY RStripSpec

\* Nothing is cut off what ends in something else.
LEMMA RStripIdle ==
    ASSUME NEW S, NEW u \in Seq(S), NEW piece, u # <<>>, u[Len(u)] # piece
    PROVE  RStrip(u, piece) = u
<1>1. PICK k \in 0 .. Len(u) :
             /\ RStrip(u, piece) = SubSeq(u, 1, k)
             /\ k = 0 \/ u[k] # piece
             /\ \A i \in k + 1 .. Len(u) : u[i] = piece
  BY RStripSpec
<1>2. Len(u) \in Nat \ {0}
  OBVIOUS
<1>3. k = Len(u)
  BY <1>1, <1>2
<1> QED
  BY <1>1, <1>3, SubSeqFull

LEMMA ReverseSeq ==
    ASSUME NEW S, NEW u \in Seq(S)
    PROVE  /\ Reverse(u) \in Seq(S) /\ Len(Reverse(u)) = Len(u)
           /\ \A i \in 1 .. Len(u) : Reverse(u)[i] = u[Len(u) - i + 1]
<1>1. Len(u) \in Nat /\ \A i \in 1 .. Len(u) : u[Len(u) - i + 1] \in S
  OBVIOUS
<1>2. Reverse(u) \in [1 .. Len(u) -> S]
  BY <1>1 DEF Reverse
<1>3. Reverse(u) \in Seq(S)
  BY <1>1, <1>2, SeqDef
<1> QED
  BY <1>1, <1>2, <1>3 DEF Reverse

LEMMA ReverseTwice ==
    ASSUME NEW S, NEW u \in Seq(S)
    PROVE  Reverse(Reverse(u)) = u
<1>1. PICK v \in Seq(S) : v = Reverse(u)
  BY ReverseSeq
<1>2. Len(v) = Len(u) /\ \A i \in 1 .. Len(u) : v[i] = u[Len(u) - i + 1]
  BY <1>1, ReverseSeq
<1>3. Reverse(v) \in Seq(S) /\ Len(Reverse(v)) = Len(u)
      /\ \A i \in 1 .. Len(u) : Reverse(v)[i] = v[Len(u) - i + 1]
  BY <1>2, ReverseSeq
<1>4. ASSUME NEW i \in 1 .. Len(u) PROVE Reverse(v)[i] = u[i]
  <2>1. Len(u) \in Nat /\ Len(u) - i + 1 \in 1 .. Len(u)
    OBVIOUS
  <2> QED
    BY <1>2, <1>3, <2>1
<1>5. Reverse(v) = u
  BY <1>3, <1>4, SeqEqual
<1> QED
  BY <1>1, <1>5

\* str.strip of what neither begins nor ends with the piece, and its type.
LEMMA StripIdle ==
    ASSUME NEW S, NEW u \in Seq(S), NEW piece, u # <<>>, u[1] # piece, u[Len(u)] # piece
    PROVE  Strip(u, piece) = u
<1>1. RStrip(u, piece) = u
  BY RStripIdle
<1>2. PICK v \in Seq(S) : v = Reverse(u)
  BY ReverseSeq
<1>3. v # <<>> /\ v[Len(v)] # piece
  <2>1. Len(u) \in Nat \ {0} /\ Len(v) = Len(u) /\ v[Len(u)] = u[Len(u) - Len(u) + 1]
    BY <1>2, ReverseSeq
  <2> QED
    BY <2>1
<1>4. RStrip(v, piece) = v
  BY <1>3, RStripIdle
<1>5. Reverse(v) = u
  BY <1>2, ReverseTwice
<1> QED
  BY <1>1, <1>2, <1>4, <1>5 DEF Strip

LEMMA StripType ==
    ASSUME NEW S, NEW u \in Seq(S), NEW piece
    PROVE  Strip(u, piece) \in Seq(S)
<1>1. PICK v \in Seq(S) : v = RStrip(u, piece)
  BY RStripType
<1>2. PICK w \in Seq(S) : w = Reverse(v)
  BY ReverseSeq
<1>3. PICK x \in Seq(S) : x = RStrip(w, piece)
  BY RStripType
<1>4. Reverse(x) \in Seq(S)
  BY ReverseSeq
<1> QED
  BY <1>1, <1>2, <1>3, <1>4 DEF Strip

-----------------------------------------------------------------------------
(* Addresses: _norm_base_url.                                               *)

\* The pieces a prefix and the API path at the end come down to.
LEMMA PrefixPieces ==
    ASSUME NEW u \in Seq(Pieces), NEW a, a \in {"http:", "https:"}
    PROVE  IsPrefix(<<a, "/", "/">>, u) <=> /\ Len(u) >= 3
                                            /\ u[1] = a /\ u[2] = "/" /\ u[3] = "/"
<1> DEFINE s == <<a, "/", "/">>
<1>1. s \in Seq(Pieces) /\ Len(s) = 3 /\ s[1] = a /\ s[2] = "/" /\ s[3] = "/"
  <2>1. a \in Pieces /\ "/" \in Pieces
    BY DEF Pieces
  <2> QED
    BY <2>1
<1>2. SubSeq(s, 1, 3) = s
  BY <1>1, SubSeqFull
<1>3. ASSUME Len(u) >= 3
      PROVE  /\ SubSeq(u, 1, 3) \in Seq(Pieces) /\ Len(SubSeq(u, 1, 3)) = 3
             /\ \A i \in 1 .. 3 : SubSeq(u, 1, 3)[i] = u[i]
  BY <1>3
<1> HIDE DEF s
<1>4. ASSUME Len(u) >= 3, u[1] = a, u[2] = "/", u[3] = "/" PROVE s = SubSeq(u, 1, 3)
  <2>1. \A i \in 1 .. 3 : s[i] = SubSeq(u, 1, 3)[i]
    BY <1>1, <1>3, <1>4
  <2> QED
    BY <1>1, <1>3, <1>4, <2>1, SeqEqual
<1>5. IsPrefix(s, u) <=> Len(u) >= 3 /\ s = SubSeq(u, 1, 3)
  BY <1>1, <1>2 DEF IsPrefix
<1>6. IsPrefix(s, u) <=> Len(u) >= 3 /\ u[1] = a /\ u[2] = "/" /\ u[3] = "/"
  BY <1>1, <1>3, <1>4, <1>5
<1> QED
  BY <1>6 DEF s

LEMMA SuffixPieces ==
    ASSUME NEW u \in Seq(Pieces)
    PROVE  IsSuffix(ApiPath, u) <=> /\ Len(u) >= 2
                                    /\ u[Len(u)] = "api/v1" /\ u[Len(u) - 1] = "/"
<1>1. PICK s : s = Reverse(ApiPath)
  OBVIOUS
<1>2. PICK v \in Seq(Pieces) : v = Reverse(u)
  BY ReverseSeq
<1>3. ApiPath \in Seq(Pieces) /\ Len(ApiPath) = 2 /\ ApiPath[1] = "/" /\ ApiPath[2] = "api/v1"
  <2>1. "/" \in Pieces /\ "api/v1" \in Pieces
    BY DEF Pieces
  <2> QED
    BY <2>1 DEF ApiPath
<1>4. s \in Seq(Pieces) /\ Len(s) = 2 /\ s[1] = "api/v1" /\ s[2] = "/"
  <2>1. /\ s \in Seq(Pieces) /\ Len(s) = 2
        /\ \A i \in 1 .. 2 : s[i] = ApiPath[2 - i + 1]
    <3>1. PICK p \in Seq(Pieces) : p = ApiPath
      BY <1>3
    <3>2. /\ Reverse(p) \in Seq(Pieces) /\ Len(Reverse(p)) = Len(p)
          /\ \A i \in 1 .. Len(p) : Reverse(p)[i] = p[Len(p) - i + 1]
      BY ReverseSeq
    <3> QED
      BY <1>1, <1>3, <3>1, <3>2
  <2> QED
    BY <1>3, <2>1
<1>5. Len(v) = Len(u) /\ \A i \in 1 .. Len(u) : v[i] = u[Len(u) - i + 1]
  BY <1>2, ReverseSeq
<1>6. SubSeq(s, 1, 2) = s
  BY <1>4, SubSeqFull
<1>7. ASSUME Len(u) >= 2
      PROVE  /\ SubSeq(v, 1, 2) \in Seq(Pieces) /\ Len(SubSeq(v, 1, 2)) = 2
             /\ SubSeq(v, 1, 2)[1] = u[Len(u)] /\ SubSeq(v, 1, 2)[2] = u[Len(u) - 1]
  <2>1. v[1] = u[Len(u)] /\ v[2] = u[Len(u) - 1]
    BY <1>5, <1>7
  <2> QED
    BY <1>5, <1>7, <2>1
<1>8. ASSUME Len(u) >= 2, u[Len(u)] = "api/v1", u[Len(u) - 1] = "/" PROVE s = SubSeq(v, 1, 2)
  <2>1. \A i \in 1 .. 2 : s[i] = SubSeq(v, 1, 2)[i]
    BY <1>4, <1>7, <1>8
  <2> QED
    BY <1>4, <1>7, <1>8, <2>1, SeqEqual
<1>9. IsSuffix(ApiPath, u) <=> Len(u) >= 2 /\ s = SubSeq(v, 1, 2)
  BY <1>1, <1>2, <1>4, <1>5, <1>6 DEF IsSuffix, IsPrefix
<1> QED
  BY <1>4, <1>7, <1>8, <1>9

LEMMA FrontOfFront ==
    ASSUME NEW S, NEW u \in Seq(S), NEW a \in 1 .. Len(u), NEW b \in 1 .. a
    PROVE  SubSeq(SubSeq(u, 1, a), 1, b) = SubSeq(u, 1, b)
<1>1. Len(u) \in Nat /\ a \in 1 .. Len(u) /\ 1 \in 1 .. Len(u) /\ 1 \in 1 .. a - 1 + 1 /\ b \in 1 .. a - 1 + 1
  OBVIOUS
<1>2. SubSeq(SubSeq(u, 1, a), 1, b) = SubSeq(u, 1 + 1 - 1, 1 + b - 1)
  BY <1>1, SubSeqOfSubSeq
<1> QED
  BY <1>1, <1>2

LEMMA FrontSpec ==
    ASSUME NEW S, NEW u \in Seq(S), NEW k \in 0 .. Len(u)
    PROVE  /\ SubSeq(u, 1, k) \in Seq(S) /\ Len(SubSeq(u, 1, k)) = k
           /\ \A i \in 1 .. k : SubSeq(u, 1, k)[i] = u[i]
  OBVIOUS

\* A full address: https, a host, slashes, and the API path at most once.
Full(v) ==
    /\ Len(v) >= 4
    /\ v[1] = "https:" /\ v[2] = "/" /\ v[3] = "/" /\ v[4] = "host"
    /\ \A i \in 4 .. Len(v) : v[i] # " "
    /\ \A i \in 5 .. Len(v) : v[i] = "/" \/ (v[i] = "api/v1" /\ v[i - 1] = "/")
    /\ \A i, j \in 4 .. Len(v) : v[i] = "api/v1" /\ v[j] = "api/v1" => i = j

\* Where a full address has been cut back to its k first pieces.
Trimmed(v, w, k) == k \in 4 .. Len(v) /\ w = SubSeq(v, 1, k) /\ v[k] # "/"

\* No strip reaches the host.
LEMMA RStripFull ==
    ASSUME NEW v \in Seq(Pieces), Full(v), NEW n \in 4 .. Len(v)
    PROVE  \E k \in 4 .. n : /\ Trimmed(v, RStrip(SubSeq(v, 1, n), "/"), k)
                             /\ v[n] # "/" => k = n
<1>1. v \in Seq(Pieces) /\ Len(v) \in Nat /\ n \in 0 .. Len(v) /\ n \in Nat /\ n >= 4
  OBVIOUS
<1>2. PICK u \in Seq(Pieces) : u = SubSeq(v, 1, n)
  BY <1>1, FrontSpec
<1>3. Len(u) = n /\ \A i \in 1 .. n : u[i] = v[i]
  BY <1>1, <1>2, FrontSpec
<1>4. PICK k \in 0 .. n :
             /\ RStrip(u, "/") = SubSeq(u, 1, k)
             /\ k = 0 \/ u[k] # "/"
             /\ \A i \in k + 1 .. n : u[i] = "/"
  <2>1. \E k \in 0 .. Len(u) :
             /\ RStrip(u, "/") = SubSeq(u, 1, k)
             /\ k = 0 \/ u[k] # "/"
             /\ \A i \in k + 1 .. Len(u) : u[i] = "/"
    BY RStripSpec
  <2> QED
    BY <1>3, <2>1
<1>5. u[4] = "host"
  <2>1. v[4] = "host"
    BY DEF Full
  <2> QED
    BY <1>1, <1>3, <2>1
<1>6. k \in 4 .. n
  BY <1>1, <1>4, <1>5
<1>7. v[k] # "/" /\ (v[n] # "/" => k = n)
  BY <1>1, <1>3, <1>4, <1>6
<1>8. SubSeq(u, 1, k) = SubSeq(v, 1, k)
  BY <1>1, <1>2, <1>6, FrontOfFront
<1> QED
  BY <1>1, <1>2, <1>4, <1>6, <1>7, <1>8 DEF Trimmed

\* The three strips of _norm_base_url leave neither a slash nor the API path at
\* the end: what they take away with one path cannot uncover another.
LEMMA StripsFull ==
    ASSUME NEW v \in Seq(Pieces), Full(v)
    PROVE  \E k \in 4 .. Len(v) :
             /\ Trimmed(v, RStrip(RemoveSuffix(RStrip(v, "/"), ApiPath), "/"), k)
             /\ ~(v[k] = "api/v1" /\ v[k - 1] = "/")
<1>1. /\ Len(v) \in Nat /\ Len(v) >= 4 /\ Len(v) \in 4 .. Len(v)
      /\ v[4] = "host" /\ SubSeq(v, 1, Len(v)) = v
  <2>1. Len(v) >= 4 /\ v[4] = "host"
    BY DEF Full
  <2> QED
    BY <2>1, SubSeqFull
<1>2. PICK a \in 4 .. Len(v) : Trimmed(v, RStrip(v, "/"), a)
  <2>1. PICK n \in 4 .. Len(v) : n = Len(v)
    BY <1>1
  <2>2. \E a \in 4 .. n : Trimmed(v, RStrip(SubSeq(v, 1, n), "/"), a)
    BY RStripFull
  <2> QED
    BY <1>1, <2>1, <2>2
<1>3. PICK w \in Seq(Pieces) : w = SubSeq(v, 1, a)
  <2>1. a \in 0 .. Len(v)
    BY <1>1
  <2> QED
    BY <2>1, FrontSpec
<1>4. Len(w) = a /\ \A i \in 1 .. a : w[i] = v[i]
  BY <1>1, <1>3, FrontSpec
<1>5. IsSuffix(ApiPath, w) <=> v[a] = "api/v1" /\ v[a - 1] = "/"
  <2>1. a \in 1 .. a /\ a - 1 \in 1 .. a /\ a >= 2
    BY <1>1
  <2> QED
    BY <1>4, <2>1, SuffixPieces
<1>6. CASE IsSuffix(ApiPath, w)
  <2>1. a - 2 \in 4 .. Len(v)
    BY <1>1, <1>5, <1>6
  <2>2. RemoveSuffix(w, ApiPath) = SubSeq(v, 1, a - 2)
    <3>1. Len(ApiPath) = 2
      BY DEF ApiPath
    <3>2. RemoveSuffix(w, ApiPath) = SubSeq(w, 1, a - 2)
      BY <1>4, <1>6, <3>1 DEF RemoveSuffix
    <3>3. a \in 1 .. Len(v) /\ a - 2 \in 1 .. a
      BY <1>1, <2>1
    <3> QED
      BY <1>3, <3>2, <3>3, FrontOfFront
  <2>3. PICK n \in 4 .. Len(v) : n = a - 2
    BY <2>1
  <2>4. PICK k \in 4 .. n : Trimmed(v, RStrip(SubSeq(v, 1, n), "/"), k)
    BY RStripFull
  <2>5. k \in 4 .. Len(v) /\ k # a
    BY <1>1, <2>3, <2>4
  <2>6. v[k] # "api/v1"
    BY <1>5, <1>6, <2>5 DEF Full
  <2> QED
    BY <1>2, <1>3, <2>2, <2>3, <2>4, <2>5, <2>6 DEF Trimmed
<1>7. CASE ~IsSuffix(ApiPath, w)
  <2>1. RemoveSuffix(w, ApiPath) = w
    BY <1>7 DEF RemoveSuffix
  <2>2. PICK k \in 4 .. a : /\ Trimmed(v, RStrip(SubSeq(v, 1, a), "/"), k)
                            /\ v[a] # "/" => k = a
    BY RStripFull
  <2>3. k = a
    BY <1>2, <2>2 DEF Trimmed
  <2> QED
    BY <1>2, <1>3, <1>5, <1>7, <2>1, <2>2, <2>3 DEF Trimmed
<1> QED
  BY <1>6, <1>7

\* What is left is the scheme and the host, which normalised again are the same.
LEMMA TrimmedSettles ==
    ASSUME NEW v \in Seq(Pieces), Full(v), NEW k \in 4 .. Len(v), NEW w, Trimmed(v, w, k),
           ~(v[k] = "api/v1" /\ v[k - 1] = "/")
    PROVE  w \in Seq(Pieces) /\ Settled(w)
<1>1. k = 4
  <2>1. k = 4 \/ k \in 5 .. Len(v)
    OBVIOUS
  <2> QED
    BY <2>1 DEF Full, Trimmed
<1>2. Len(v) \in Nat /\ 4 \in 0 .. Len(v)
  BY <1>1
<1>3. w \in Seq(Pieces) /\ Len(w) = 4 /\ \A i \in 1 .. 4 : w[i] = v[i]
  BY <1>1, <1>2, FrontSpec DEF Trimmed
<1>4. w[1] = "https:" /\ w[2] = "/" /\ w[3] = "/" /\ w[4] = "host"
  <2>1. v[1] = "https:" /\ v[2] = "/" /\ v[3] = "/" /\ v[4] = "host"
    BY DEF Full
  <2> QED
    BY <1>3, <2>1
<1>5. w = Origin
  <2>1. PICK o : o = Origin
    OBVIOUS
  <2>2. o \in Seq(Pieces) /\ Len(o) = 4
        /\ o[1] = "https:" /\ o[2] = "/" /\ o[3] = "/" /\ o[4] = "host"
    <3>1. "https:" \in Pieces /\ "/" \in Pieces /\ "host" \in Pieces
      BY DEF Pieces
    <3> QED
      BY <2>1, <3>1 DEF Origin
  <2>3. \A i \in 1 .. 4 : w[i] = o[i]
    <3>1. \A i \in 1 .. 4 : i = 1 \/ i = 2 \/ i = 3 \/ i = 4
      OBVIOUS
    <3> QED
      BY <1>4, <2>2, <3>1
  <2> QED
    BY <1>3, <2>1, <2>2, <2>3, SeqEqual
<1>6. IsPrefix(Https, w) /\ ~IsPrefix(Http, w)
  BY <1>3, <1>4, PrefixPieces DEF Https, Http
<1>7. ~IsSuffix(ApiPath, w)
  BY <1>3, <1>4, SuffixPieces
<1>8. w # <<>> /\ w[1] # " " /\ w[Len(w)] # " " /\ w[Len(w)] # "/"
  <2>1. Len(w) = 4
    BY <1>3
  <2>2. w # <<>>
    <3>1. PICK e : e = <<>>
      OBVIOUS
    <3>2. Len(e) = 0
      BY <3>1
    <3>3. Len(w) # Len(e)
      BY <2>1, <3>2
    <3> QED
      BY <3>1, <3>3, Zenon
  <2> QED
    BY <1>4, <2>1, <2>2
<1>9. Strip(w, " ") = w
  BY <1>3, <1>8, StripIdle
<1>10. RStrip(w, "/") = w
  BY <1>3, <1>8, RStripIdle
<1>11. RemoveSuffix(w, ApiPath) = w
  BY <1>7 DEF RemoveSuffix
<1>12. Kept(w) = w
  BY <1>6, <1>8, <1>9, <1>10, <1>11 DEF Kept, NormBaseUrl, HasScheme
<1> QED
  BY <1>3, <1>5, <1>12 DEF Settled

LEMMA AtMostOnce ==
    ASSUME NEW u \in Seq(Pieces),
           Cardinality({i \in DOMAIN u : u[i] = "api/v1"}) =< 1
    PROVE  \A i, j \in 1 .. Len(u) : u[i] = "api/v1" /\ u[j] = "api/v1" => i = j
<1> DEFINE At == {i \in DOMAIN u : u[i] = "api/v1"}
<1> SUFFICES ASSUME NEW i \in 1 .. Len(u), NEW j \in 1 .. Len(u),
                    u[i] = "api/v1", u[j] = "api/v1", i # j
             PROVE  FALSE
  OBVIOUS
<1>1. i \in At /\ j \in At
  OBVIOUS
<1>2. IsFiniteSet(At)
  <2>1. Len(u) \in Nat /\ At \in SUBSET Nat /\ \A m \in At : m =< Len(u)
    OBVIOUS
  <2> QED
    BY <2>1, FS_BoundedSetOfNaturals
<1>3. Cardinality(At) \in Nat
  BY <1>2, FS_CardinalityType
<1> HIDE DEF At
<1>4. IsFiniteSet(At \ {i}) /\ Cardinality(At \ {i}) = Cardinality(At) - 1
  BY <1>1, <1>2, FS_RemoveElement
<1>5. Cardinality(At \ {i}) # 0
  <2>1. j \in At \ {i}
    BY <1>1
  <2>2. Cardinality(At \ {i}) = 0 <=> At \ {i} = {}
    BY <1>4, FS_EmptySet
  <2> QED
    BY <2>1, <2>2
<1>6. Cardinality(At) =< 1
  BY DEF At
<1>7. Cardinality(At \ {i}) \in Nat
  BY <1>4, FS_CardinalityType
<1> QED
  BY <1>3, <1>4, <1>5, <1>6, <1>7

\* What follows the scheme: a host, slashes, and the API path at most once.
Hosted(rest) ==
    /\ rest # <<>> /\ rest[1] = "host"
    /\ \A i \in 2 .. Len(rest) : rest[i] = "/" \/ (rest[i] = "api/v1" /\ rest[i - 1] = "/")
    /\ Cardinality({i \in DOMAIN rest : rest[i] = "api/v1"}) =< 1

LEMMA HostedPieces ==
    ASSUME NEW rest \in Seq(Pieces), Hosted(rest)
    PROVE  /\ Len(rest) >= 1 /\ rest[1] = "host"
           /\ \A i \in 1 .. Len(rest) : rest[i] # " "
           /\ \A i, j \in 1 .. Len(rest) : rest[i] = "api/v1" /\ rest[j] = "api/v1" => i = j
<1>1. Len(rest) >= 1
  <2>1. rest # <<>>
    BY DEF Hosted
  <2> QED
    BY <2>1
<1>2. \A i, j \in 1 .. Len(rest) : rest[i] = "api/v1" /\ rest[j] = "api/v1" => i = j
  BY AtMostOnce DEF Hosted
<1>3. ASSUME NEW i \in 1 .. Len(rest) PROVE rest[i] # " "
  <2>1. i = 1 \/ i \in 2 .. Len(rest)
    OBVIOUS
  <2> QED
    BY <2>1 DEF Hosted
<1> QED
  BY <1>1, <1>2, <1>3 DEF Hosted

\* A sequence is full when it is the scheme and, from its fourth piece on, such a
\* rest.
LEMMA SchemeAndRest ==
    ASSUME NEW v \in Seq(Pieces), NEW rest \in Seq(Pieces), Hosted(rest),
           v[1] = "https:", v[2] = "/", v[3] = "/", Len(v) = Len(rest) + 3,
           \A i \in 1 .. Len(rest) : v[i + 3] = rest[i]
    PROVE  Full(v)
<1>1. Len(rest) \in Nat /\ Len(rest) >= 1 /\ Len(v) >= 4 /\ rest[1] = "host"
  <2>1. Len(rest) >= 1 /\ rest[1] = "host"
    BY HostedPieces
  <2>2. Len(rest) \in Nat
    BY LenProperties
  <2> QED
    BY <2>1, <2>2
<1>2. v[4] = "host"
  BY <1>1
<1>3. ASSUME NEW i \in 4 .. Len(v) PROVE i - 3 \in 1 .. Len(rest) /\ v[i] = rest[i - 3]
  <2>1. i - 3 \in 1 .. Len(rest) /\ (i - 3) + 3 = i
    BY <1>1
  <2> QED
    BY <2>1
<1>4. \A i \in 4 .. Len(v) : v[i] # " "
  BY <1>3, HostedPieces
<1>5. ASSUME NEW i \in 4 .. Len(v), NEW j \in 4 .. Len(v), v[i] = "api/v1", v[j] = "api/v1"
      PROVE  i = j
  <2>1. i - 3 = j - 3
    BY <1>3, <1>5, HostedPieces
  <2>2. i \in Int /\ j \in Int
    OBVIOUS
  <2> QED
    BY <2>1, <2>2
<1>6. ASSUME NEW i \in 5 .. Len(v)
      PROVE  v[i] = "/" \/ (v[i] = "api/v1" /\ v[i - 1] = "/")
  <2>1. i \in 4 .. Len(v) /\ i - 1 \in 4 .. Len(v) /\ (i - 1) - 3 = (i - 3) - 1
    BY <1>1
  <2>2. i - 3 \in 2 .. Len(rest)
    BY <1>1
  <2>3. v[i] = rest[i - 3] /\ v[i - 1] = rest[(i - 3) - 1]
    BY <1>3, <2>1
  <2>4. \A m \in 2 .. Len(rest) : rest[m] = "/" \/ (rest[m] = "api/v1" /\ rest[m - 1] = "/")
    BY DEF Hosted
  <2>5. PICK m : m = i - 3
    OBVIOUS
  <2> QED
    BY <2>2, <2>3, <2>4, <2>5
<1> QED
  BY <1>1, <1>2, <1>4, <1>5, <1>6 DEF Full

LEMMA TypedWithScheme ==
    ASSUME NEW u \in Seq(Pieces), HasScheme(u), ~IsPrefix(Http, u),
           Hosted(SubSeq(u, 4, Len(u)))
    PROVE  Full(u)
<1>1. Len(u) \in Nat /\ Len(u) >= 3 /\ u[1] = "https:" /\ u[2] = "/" /\ u[3] = "/"
  <2>1. IsPrefix(Https, u)
    BY DEF HasScheme
  <2> QED
    BY <2>1, PrefixPieces DEF Https
<1>2. \A i \in 4 .. Len(u) : u[i] \in Pieces
  BY <1>1
<1>3. PICK rest : rest = SubSeq(u, 4, Len(u))
  OBVIOUS
<1>4. /\ rest \in Seq(Pieces)
      /\ Len(rest) = IF 4 <= Len(u) THEN Len(u) - 4 + 1 ELSE 0
      /\ \A i \in 1 .. Len(u) - 4 + 1 : rest[i] = u[4 + i - 1]
  BY <1>1, <1>2, <1>3, SubSeqProperties
<1>5. Len(rest) = Len(u) - 3
  <2>1. Len(rest) = IF 4 <= Len(u) THEN Len(u) - 4 + 1 ELSE 0
    BY <1>4
  <2>2. Len(u) \in Nat /\ Len(u) >= 3
    BY <1>1
  <2>3. PICK n \in Nat : n = Len(u)
    BY <2>2
  <2>4. (IF 4 <= n THEN n - 4 + 1 ELSE 0) = n - 3
    BY <2>2, <2>3
  <2> QED
    BY <2>1, <2>3, <2>4
<1>6. ASSUME NEW i \in 1 .. Len(rest) PROVE u[i + 3] = rest[i]
  <2>1. i \in 1 .. Len(u) - 4 + 1 /\ 4 + i - 1 = i + 3
    BY <1>1, <1>5
  <2> QED
    BY <1>4, <2>1
<1>7. Len(u) = Len(rest) + 3
  BY <1>1, <1>5
<1> QED
  BY <1>1, <1>3, <1>4, <1>6, <1>7, SchemeAndRest

LEMMA TypedWithout ==
    ASSUME NEW u \in Seq(Pieces), Hosted(u)
    PROVE  Https \o u \in Seq(Pieces) /\ Full(Https \o u)
<1>1. PICK s : s = Https
  OBVIOUS
<1>2. s \in Seq(Pieces) /\ Len(s) = 3 /\ s[1] = "https:" /\ s[2] = "/" /\ s[3] = "/"
  <2>1. "https:" \in Pieces /\ "/" \in Pieces
    BY DEF Pieces
  <2> QED
    BY <1>1, <2>1 DEF Https
<1>3. PICK v : v = s \o u
  OBVIOUS
<1>4. /\ v \in Seq(Pieces) /\ Len(v) = Len(s) + Len(u)
      /\ \A i \in 1 .. Len(s) + Len(u) : v[i] = IF i <= Len(s) THEN s[i] ELSE u[i - Len(s)]
  BY <1>2, <1>3, ConcatProperties
<1>5. Len(u) \in Nat
  OBVIOUS
<1>6. Len(v) = Len(u) + 3 /\ v[1] = "https:" /\ v[2] = "/" /\ v[3] = "/"
  BY <1>2, <1>4, <1>5
<1>7. ASSUME NEW i \in 1 .. Len(u) PROVE v[i + 3] = u[i]
  <2>1. i + 3 \in 1 .. 3 + Len(u) /\ ~(i + 3 <= 3) /\ (i + 3) - 3 = i
    BY <1>5
  <2> QED
    BY <1>2, <1>4, <2>1
<1>8. Full(v)
  BY <1>4, <1>6, <1>7, SchemeAndRest
<1> QED
  BY <1>1, <1>3, <1>4, <1>8

\* A well-formed address is a full one once it has its scheme.
LEMMA WellFormedIsFull ==
    ASSUME NEW raw \in Seq(Pieces), WellFormed(raw)
    PROVE  LET u == Strip(raw, " ")
               v == IF HasScheme(u) THEN u ELSE Https \o u
           IN  u # <<>> /\ (IsPrefix(Http, v) \/ (v \in Seq(Pieces) /\ Full(v)))
<1>1. PICK u \in Seq(Pieces) : u = Strip(raw, " ")
  BY StripType
<1>2. CASE HasScheme(u)
  <2>1. Hosted(SubSeq(u, 4, Len(u)))
    BY <1>1, <1>2 DEF WellFormed, Hosted
  <2>2. u # <<>>
    <3>1. Len(u) >= 3
      BY <1>2, PrefixPieces DEF HasScheme, Http, Https
    <3> QED
      BY <3>1
  <2> QED
    BY <1>1, <1>2, <2>1, <2>2, TypedWithScheme
<1>3. CASE ~HasScheme(u)
  <2>1. Hosted(u)
    BY <1>1, <1>3 DEF WellFormed, Hosted
  <2>2. u # <<>>
    BY <2>1 DEF Hosted
  <2> QED
    BY <1>1, <1>3, <2>1, <2>2, TypedWithout
<1> QED
  BY <1>2, <1>3

\* Whatever well-formed address is typed in, what is kept is settled.
LEMMA KeptSettles ==
    ASSUME NEW raw \in Seq(Pieces), WellFormed(raw), Kept(raw) # Refused
    PROVE  Kept(raw) \in Seq(Pieces) /\ Settled(Kept(raw))
<1>1. PICK u : u = Strip(raw, " ")
  OBVIOUS
<1>2. PICK v : v = IF HasScheme(u) THEN u ELSE Https \o u
  OBVIOUS
<1>3. u # <<>> /\ (IsPrefix(Http, v) \/ (v \in Seq(Pieces) /\ Full(v)))
  BY <1>1, <1>2, WellFormedIsFull
<1>4. ~IsPrefix(Http, v) /\ Kept(raw) = RStrip(RemoveSuffix(RStrip(v, "/"), ApiPath), "/")
  BY <1>1, <1>2, <1>3 DEF Kept, NormBaseUrl
<1>5. v \in Seq(Pieces) /\ Full(v)
  BY <1>3, <1>4
<1>6. PICK k \in 4 .. Len(v) : Trimmed(v, Kept(raw), k) /\ ~(v[k] = "api/v1" /\ v[k - 1] = "/")
  BY <1>4, <1>5, StripsFull
<1> QED
  BY <1>5, <1>6, TrimmedSettles

\* Every well-formed address, of any length, is refused or kept as https and the
\* host, which _norm_base_url does not change again.
THEOREM AllAddressesSettle ==
    \A raw \in Seq(Pieces) : WellFormed(raw) => Kept(raw) = Refused \/ Settled(Kept(raw))
  BY KeptSettles

LEMMA BoundedAddressesSettle == EveryAddressSettles
<1>1. \A raw \in BoundedSeq(Pieces, MaxPieces) : raw \in Seq(Pieces)
  BY PortalAssumption, SeqDef DEF BoundedSeq, SeqOf
<1> QED
  BY <1>1, AllAddressesSettle DEF EveryAddressSettles

-----------------------------------------------------------------------------
(* The addresses the API keeps.                                             *)

\* What operators type in names one host.
OneHost == \A raw \in Typed : raw \in Seq(Pieces) /\ WellFormed(raw)

UrlsSettled ==
    /\ url \in [Tenants -> Seq(Pieces) \cup {None}]
    /\ \A t \in Tenants : url[t] # None => Settled(url[t])

\* Only creating and changing a tenant write an address, each the normalised one.
LEMMA UrlWrites ==
    ASSUME PInv, UrlsSettled, [PortalNext]_portalVars
    PROVE  \/ UNCHANGED url
           \/ \E t \in Tenants : url' = [url EXCEPT ![t] = None]
           \/ \E t \in Tenants, raw \in Typed :
                Kept(raw) # Refused /\ url' = [url EXCEPT ![t] = Kept(raw)]
<1>1. CASE Click
  BY <1>1 DEF Click, LoginClick, LogoutClick, BackClick, DeleteClick, TabClick, OpenClick,
              CreateClick, ChangeClick, api
<1>2. CASE SessionEnds
  BY <1>2 DEF SessionEnds
<1>3. ASSUME NEW n \in Slots, Deliver(n) PROVE UNCHANGED url
  BY <1>3 DEF Deliver, ShowLogin, ShowDashboard, api
<1>4. ASSUME NEW n \in Slots, Serve(n), url' # url
      PROVE  \/ \E t \in Tenants : url' = [url EXCEPT ![t] = None]
             \/ \E t \in Tenants, raw \in Typed :
                  Kept(raw) # Refused /\ url' = [url EXCEPT ![t] = Kept(raw)]
  <2> DEFINE r == net[n]
  <2>1. r \in Request /\ r.answer = "none" /\ Addressed(r)
    BY <1>4 DEF Serve, PInv, PortalTypeOK, Consistent
  <2>2. r.raw \in Typed \cup {None}
    BY <2>1 DEF Request
  <2>3. \/ /\ r.kind = "create" /\ Kept(r.raw) # Refused
           /\ \E t \in Tenants : url' = [url EXCEPT ![t] = Kept(r.raw)]
        \/ /\ r.kind = "change" /\ r.raw # None /\ Kept(r.raw) # Refused
           /\ url[r.of] # None /\ url' = [url EXCEPT ![r.of] = Kept(r.raw)]
        \/ /\ r.kind = "delete" /\ url[r.of] # None /\ url' = [url EXCEPT ![r.of] = None]
    BY <1>4 DEF Serve
  <2>4. CASE r.kind = "create"
    BY <2>1, <2>3, <2>4 DEF Addressed
  <2>5. CASE r.kind # "create"
    <3>1. PICK v : /\ url' = [url EXCEPT ![r.of] = v]
                   /\ v = None \/ (v = Kept(r.raw) /\ Kept(r.raw) # Refused /\ r.raw # None)
      BY <2>3, <2>5
    <3>2. r.of \in Tenants
      BY <1>4, <3>1 DEF UrlsSettled
    <3> QED
      BY <2>2, <3>1, <3>2
  <2> QED
    BY <2>4, <2>5
<1>5. CASE UNCHANGED portalVars
  BY <1>5 DEF portalVars, api
<1> QED
  BY <1>1, <1>2, <1>3, <1>4, <1>5 DEF PortalNext

LEMMA UrlsNext == ASSUME OneHost, PInv, UrlsSettled, [PortalNext]_portalVars PROVE UrlsSettled'
<1>1. ASSUME NEW t \in Tenants, NEW v \in Seq(Pieces) \cup {None}, v # None => Settled(v),
             url' = [url EXCEPT ![t] = v]
      PROVE  UrlsSettled'
  <2>1. \A s \in Tenants : url'[s] = IF s = t THEN v ELSE url[s]
    BY <1>1 DEF UrlsSettled
  <2>2. url' \in [Tenants -> Seq(Pieces) \cup {None}]
    BY <1>1 DEF UrlsSettled
  <2> QED
    BY <1>1, <2>1, <2>2 DEF UrlsSettled
<1>2. CASE UNCHANGED url
  BY <1>2 DEF UrlsSettled
<1>3. ASSUME NEW t \in Tenants, url' = [url EXCEPT ![t] = None] PROVE UrlsSettled'
  BY <1>1, <1>3
<1>4. ASSUME NEW t \in Tenants, NEW raw \in Typed,
             Kept(raw) # Refused, url' = [url EXCEPT ![t] = Kept(raw)]
      PROVE  UrlsSettled'
  <2>1. Kept(raw) \in Seq(Pieces) /\ Settled(Kept(raw))
    BY <1>4, KeptSettles DEF OneHost
  <2> QED
    BY <1>1, <1>4, <2>1
<1> QED
  BY <1>2, <1>3, <1>4, UrlWrites

\* As long as operators type a host without a path of its own, the base URL that
\* goes into the signed configuration is https and that host, with whatever
\* slashes, blanks, scheme and API path it was typed; and so is every well-formed
\* address, of any length, that _norm_base_url lets through.
THEOREM AddressesSettle ==
    ASSUME OneHost
    PROVE  PortalSpec => []AddressSettled
<1>1. PortalInit => UrlsSettled
  BY DEF PortalInit, UrlsSettled
<1>2. PInv /\ UrlsSettled /\ [PortalNext]_portalVars => UrlsSettled'
  BY UrlsNext
<1>3. UrlsSettled => AddressSettled
  BY BoundedAddressesSettle DEF UrlsSettled, AddressSettled
<1> QED
  BY <1>1, <1>2, <1>3, PInvAlways, PTL DEF PortalSpec

=============================================================================
