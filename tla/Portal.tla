------------------------------- MODULE Portal -------------------------------
(***************************************************************************)
(* The operator portal (App.tsx, api.ts): a page whose components send      *)
(* requests and go on without waiting, while answers come in any order and  *)
(* may find the component that asked unmounted.  React drops what an        *)
(* unmounted component sets; what its callbacks ask of components still     *)
(* mounted takes effect.  The API answers from the sessions and tenants it  *)
(* has when it serves a request.                                            *)
(***************************************************************************)
EXTENDS Integers, FiniteSets, DeviceConfig

CONSTANTS
    Products,      \* tabs of the dashboard
    First,         \* p[0], the tab it opens with
    Tenants,
    ProductOf,     \* ProductOf[t]: the product tenant t is registered for
    None,
    Typed,         \* what an operator types in for a base URL
    Slots,         \* bound: requests in flight at a time
    MaxSessions,   \* bound: the first session and the logins
    MaxPieces      \* bound: the longest address considered

ASSUME PortalAssumption ==
    /\ First \in Products /\ ProductOf \in [Tenants -> Products]
    /\ None \notin Products \cup Tenants /\ MaxSessions \in Nat \ {0} /\ MaxPieces \in Nat

VARIABLES
    me,        \* App: "checking", "out" (Login is shown) or "in" (Dashboard)
    active,    \* Dashboard: the product of the tab, None until products arrive
    tenants,   \* Dashboard: the tenants listed
    openId,    \* Dashboard: the tenant whose view is open, or None
    d,         \* TenantView: the tenant whose detail is shown, or None
    net,       \* net[n]: a request in flight, or NoRequest
    cookie,    \* the session in the browser's cookie, 0 for no cookie
    logins,    \* the sessions opened so far
    alive,     \* those that may still be used
    url        \* tenants.base_url, None where there is no tenant

page == <<me, active, tenants, openId, d>>
api == <<cookie, logins, alive, url>>
portalVars == <<page, net, api>>

Reads == {"me", "products", "tenants", "tenant"}
Writes == {"login", "logout", "create", "change", "delete"}
OfViews == {"tenant", "create", "change", "delete"}
OfDashboard == {"products", "tenants"}
Request == [kind : Reads \cup Writes, of : Products \cup Tenants \cup {None},
            raw : Typed \cup {None}, cookie : 0 .. MaxSessions,
            tab : Products \cup {None},   \* the tab a deletion was asked for under
            view : BOOLEAN,   \* is the list or tenant view that asked still mounted?
            dash : BOOLEAN,   \* and the dashboard around it?
            answer : {"none", "ok", "401", "error"}, data : SUBSET Tenants]
NoRequest == [kind |-> "none"]

InFlight(kinds) == {n \in Slots : net[n].kind \in kinds}
Free == {n \in Slots : net[n] = NoRequest}

\* req(): every call sends the cookie the browser has now.
Ask(kind, of, raw) ==
    [kind |-> kind, of |-> of, raw |-> raw, cookie |-> cookie,
     tab |-> None, view |-> TRUE, dash |-> TRUE, answer |-> "none", data |-> {}]

Send(r) == /\ Free # {}
           /\ net' = [net EXCEPT ![CHOOSE n \in Free : TRUE] = r]

PortalInit ==
    /\ me = "checking" /\ active = None /\ tenants = {} /\ openId = None /\ d = None
    /\ cookie = 1 /\ logins = 1 /\ alive \in {{}, {1}}
    /\ url = [t \in Tenants |-> None]
    /\ net = [n \in Slots |-> IF n = CHOOSE m \in Slots : TRUE
                              THEN Ask("me", None, None) ELSE NoRequest]

-----------------------------------------------------------------------------
(* What the operator does.                                                  *)

\* submit of Login: the button is disabled while a login is on its way.
LoginClick ==
    /\ me = "out" /\ InFlight({"login"}) = {}
    /\ Send(Ask("login", None, None))
    /\ UNCHANGED <<page, api>>

LogoutClick ==
    /\ me = "in"
    /\ Send(Ask("logout", None, None))
    /\ UNCHANGED <<page, api>>

\* Mutant: the view's state is kept by the dashboard, with its requests.
Leaving_Lifted(r) == r

\* The list or the tenant view is unmounted, with the requests it waits for.
Leaving(r) == IF r.kind \in OfViews THEN [r EXCEPT !.view = FALSE] ELSE r

\* The view below the dashboard is replaced and one request sent.
Switch(r) ==
    \E n \in Free :
        /\ n = CHOOSE m \in Free : TRUE
        /\ net' = [m \in Slots |-> IF m = n THEN r ELSE Leaving(net[m])]

\* A tab closes an open tenant; only another tab asks for its list.
TabClick(p) ==
    /\ me = "in" /\ active # None
    /\ active' = p /\ openId' = None /\ d' = None
    /\ IF p = active THEN net' = [m \in Slots |-> IF openId # None THEN Leaving(net[m]) ELSE net[m]]
       ELSE IF openId # None THEN Switch(Ask("tenants", p, None))
       ELSE Send(Ask("tenants", p, None))
    /\ UNCHANGED <<me, tenants, api>>

OpenClick(t) ==
    /\ me = "in" /\ openId = None /\ t \in tenants
    /\ openId' = t
    /\ Switch(Ask("tenant", t, None))
    /\ UNCHANGED <<me, active, tenants, d, api>>

BackClick ==
    /\ me = "in" /\ d # None
    /\ openId' = None /\ d' = None
    /\ Switch(Ask("tenants", active, None))
    /\ UNCHANGED <<me, active, tenants, api>>

\* The list's form registers a tenant for the tab's product, one at a time.
CreateClick(raw) ==
    /\ me = "in" /\ openId = None
    /\ \A n \in InFlight({"create"}) : ~net[n].view
    /\ Strip(raw, " ") # <<>>
    /\ Send(Ask("create", active, raw))
    /\ UNCHANGED <<page, api>>

\* Suspend, reactivate, pay, generate, revoke, reinstate, mint, change the quota,
\* or save the base URL: guard() does not wait for the one before.
ChangeClick(raw) ==
    /\ me = "in" /\ d # None
    /\ raw # None => Strip(raw, " ") # <<>>
    /\ Send(Ask("change", openId, raw))
    /\ UNCHANGED <<page, api>>

\* deleteBusy holds as long as this view waits for its deletion.
DeleteClick ==
    /\ me = "in" /\ d # None
    /\ \A n \in InFlight({"delete"}) : ~net[n].view
    /\ Send([Ask("delete", openId, None) EXCEPT !.tab = active])
    /\ UNCHANGED <<page, api>>

-----------------------------------------------------------------------------
(* What the API does.                                                       *)

\* A session ends by itself, from the CLI or with its account.
SessionEnds ==
    /\ \E s \in alive : alive' = alive \ {s}
    /\ UNCHANGED <<page, net, cookie, logins, url>>

\* From here on only the answer matters, not what was sent.
Answered(n, answer, data) ==
    net' = [net EXCEPT ![n].answer = answer, ![n].data = data, ![n].cookie = 0, ![n].raw = None]

\* admin_create_tenant and admin_patch_tenant keep the normalised address.
Kept(raw) == NormBaseUrl(raw, FALSE)

Serve(n) ==
    LET r == net[n] IN
    /\ r # NoRequest /\ r.answer = "none"
    /\ UNCHANGED <<page, cookie, logins>>
    /\ \/ Answered(n, "error", {}) /\ UNCHANGED <<alive, url>>
       \/ /\ r.kind = "login" \/ (r.kind # "logout" /\ r.cookie \notin alive)
          /\ Answered(n, "401", {}) /\ UNCHANGED <<alive, url>>
       \/ /\ r.kind = "login" /\ logins < MaxSessions
          /\ Answered(n, "ok", {}) /\ UNCHANGED <<alive, url>>
       \/ /\ r.kind = "logout"
          /\ Answered(n, "ok", {}) /\ alive' = alive \ {r.cookie} /\ UNCHANGED url
       \/ /\ r.cookie \in alive
          /\ \/ /\ r.kind = "tenants"
                /\ Answered(n, "ok", {t \in Tenants : url[t] # None /\ ProductOf[t] = r.of})
                /\ UNCHANGED <<alive, url>>
             \/ /\ r.kind \in {"me", "products", "tenant"}
                /\ r.kind = "tenant" => url[r.of] # None
                /\ Answered(n, "ok", {}) /\ UNCHANGED <<alive, url>>
             \/ /\ r.kind = "create" /\ Kept(r.raw) # Refused
                /\ \E t \in Tenants : /\ url[t] = None /\ ProductOf[t] = r.of
                                      /\ url' = [url EXCEPT ![t] = Kept(r.raw)]
                /\ Answered(n, "ok", {}) /\ UNCHANGED alive
             \/ /\ r.kind = "change" /\ url[r.of] # None
                /\ IF r.raw = None THEN UNCHANGED url
                   ELSE Kept(r.raw) # Refused /\ url' = [url EXCEPT ![r.of] = Kept(r.raw)]
                /\ Answered(n, "ok", {}) /\ UNCHANGED alive
             \/ /\ r.kind = "delete" /\ url[r.of] # None
                /\ url' = [url EXCEPT ![r.of] = None]
                /\ Answered(n, "ok", {}) /\ UNCHANGED alive

-----------------------------------------------------------------------------
(* What the page does with an answer.                                       *)

\* Mutant: the application keeps the dashboard's state while Login is shown.
Gone_Lifted(r) == r

Gone(r) ==
    IF r.kind \in OfViews THEN [r EXCEPT !.view = FALSE, !.dash = FALSE]
    ELSE IF r.kind \in OfDashboard THEN [r EXCEPT !.dash = FALSE]
    ELSE r

\* setMe(null): Login takes the dashboard's place.  The answer to a logout takes
\* the cookie away, whichever session it is by now.
ShowLogin(n) ==
    /\ me' = "out" /\ active' = None /\ tenants' = {} /\ openId' = None /\ d' = None
    /\ net' = [m \in Slots |-> IF m = n THEN NoRequest ELSE Gone(net[m])]
    /\ cookie' = IF net[n].kind = "logout" /\ net[n].answer = "ok" THEN 0 ELSE cookie
    /\ UNCHANGED <<logins, alive, url>>

\* setMe(email): a dashboard is mounted and asks for its tabs.  The session of a
\* login counts from here, where the browser has its cookie.
ShowDashboard(n) ==
    /\ me' = "in"
    /\ IF net[n].kind = "login"
       THEN logins' = logins + 1 /\ cookie' = logins' /\ alive' = alive \cup {logins'}
       ELSE UNCHANGED <<logins, cookie, alive>>
    /\ net' = [net EXCEPT ![n] = [Ask("products", None, None) EXCEPT !.cookie = cookie']]
    /\ UNCHANGED <<active, tenants, openId, d, url>>

\* Mutant: only reads look at the status of their answer.
LogsOut_Reads(r) == r.answer = "401" /\ r.kind \in Reads

\* onUnauthorized, except for a failed login.
LogsOut(r) == r.answer = "401" /\ r.kind # "login"

\* The request a callback sends next, in the slot of the one it follows.
Follow(n, kind, of) ==
    net' = [net EXCEPT ![n] = [Ask(kind, of, None) EXCEPT
                !.view = kind \in OfViews => net[n].view, !.dash = net[n].dash]]

Drop(n) == net' = [net EXCEPT ![n] = NoRequest]

Deliver(n) ==
    LET r == net[n]
        ok == r.answer = "ok"
    IN
    /\ r # NoRequest /\ r.answer # "none"
    /\ \/ /\ LogsOut(r) \/ r.kind = "logout" \/ (r.kind = "me" /\ ~ok)
          /\ ShowLogin(n)
       \/ /\ r.kind \in {"me", "login"} /\ ok
          /\ ShowDashboard(n)
       \/ /\ ~LogsOut(r) /\ ~ok /\ r.kind \notin {"me", "logout"}
          /\ Drop(n) /\ UNCHANGED <<page, api>>
       \/ /\ r.kind = "products" /\ ok
          /\ IF r.dash THEN /\ active' = First /\ Follow(n, "tenants", First)
                       ELSE Drop(n) /\ UNCHANGED active
          /\ UNCHANGED <<me, tenants, openId, d, api>>
       \/ /\ r.kind = "tenants" /\ ok
          /\ tenants' = IF r.dash THEN r.data ELSE tenants
          /\ Drop(n) /\ UNCHANGED <<me, active, openId, d, api>>
       \/ /\ r.kind = "tenant" /\ ok
          /\ d' = IF r.view THEN r.of ELSE d
          /\ Drop(n) /\ UNCHANGED <<me, active, tenants, openId, api>>
       \/ /\ r.kind = "change" /\ ok
          /\ Follow(n, "tenant", r.of) /\ UNCHANGED <<page, api>>
       \/ /\ r.kind = "create" /\ ok
          /\ Follow(n, "tenants", r.of) /\ UNCHANGED <<page, api>>
       \/ /\ r.kind = "delete" /\ ok
          /\ IF r.dash /\ openId # None
             THEN /\ openId' = None /\ d' = None
                  /\ net' = [m \in Slots |->
                        IF m = n THEN Ask("tenants", r.tab, None) ELSE Leaving(net[m])]
             ELSE Follow(n, "tenants", r.tab) /\ UNCHANGED <<openId, d>>
          /\ UNCHANGED <<me, active, tenants, api>>

Click ==
    \/ LoginClick \/ LogoutClick \/ BackClick \/ DeleteClick
    \/ \E p \in Products : TabClick(p)
    \/ \E t \in Tenants : OpenClick(t)
    \/ \E raw \in Typed : CreateClick(raw)
    \/ \E raw \in Typed \cup {None} : ChangeClick(raw)

PortalNext == Click \/ SessionEnds \/ \E n \in Slots : Serve(n) \/ Deliver(n)

PortalSpec == PortalInit /\ [][PortalNext]_portalVars

\* Every request is answered, if only by an error of the network.
PortalFairSpec ==
    PortalSpec /\ \A n \in Slots : WF_portalVars(Serve(n) \/ Deliver(n))

-----------------------------------------------------------------------------
(* Properties.                                                              *)

\* Nothing of a dashboard is left once Login has taken its place.
PortalTypeOK ==
    /\ me \in {"checking", "out", "in"} /\ active \in Products \cup {None}
    /\ tenants \subseteq Tenants /\ {openId, d} \subseteq Tenants \cup {None}
    /\ net \in [Slots -> Request \cup {NoRequest}]
    /\ cookie \in 0 .. logins /\ logins \in 1 .. MaxSessions /\ alive \subseteq 1 .. MaxSessions
    /\ me # "in" => active = None /\ tenants = {} /\ openId = None

\* What the operator sees is what the buttons act on: the detail shown is the
\* open tenant's, and so is every change its view waits for, however late the
\* answers to earlier views arrive.
SeenIsActedOn ==
    /\ d # None => d = openId
    /\ \A n \in InFlight({"change", "delete"}) : net[n].view => net[n].of = openId

Origin == <<"https:", "/", "/", "host">>

Settled(u) == u = Origin /\ Kept(u) = u

\* A host with an optional scheme, and behind it slashes and the API path, once.
WellFormed(raw) ==
    LET u == Strip(raw, " ")
        rest == IF HasScheme(u) THEN SubSeq(u, 4, Len(u)) ELSE u
    IN  /\ rest # <<>> /\ rest[1] = "host"
        /\ \A i \in 2 .. Len(rest) : rest[i] = "/" \/ (rest[i] = "api/v1" /\ rest[i - 1] = "/")
        /\ Cardinality({i \in DOMAIN rest : rest[i] = "api/v1"}) =< 1

\* Every address of at most MaxPieces pieces.
EveryAddressSettles ==
    \A raw \in BoundedSeq(Pieces, MaxPieces) :
        WellFormed(raw) => Kept(raw) = Refused \/ Settled(Kept(raw))

\* The address that goes into the signed configuration is https and the host
\* alone, however a host was typed, and saving what the portal shows changes
\* nothing.
AddressSettled ==
    /\ \A t \in Tenants : url[t] # None => Settled(url[t])
    /\ EveryAddressSettles

\* The operator has asked something the present session is no longer good for.
AskingInVain ==
    /\ me = "in" /\ cookie \notin alive
    /\ \E n \in Slots : net[n] # NoRequest /\ net[n].answer = "none" /\ net[n].cookie = cookie

LostAt(n) ==
    /\ net[n] # NoRequest /\ net'[n] # NoRequest
    /\ net[n].answer = "none" /\ net'[n].answer = "error"

\* Who goes on working with a session that has ended is sent back to Login: no
\* request, late or not, is refused without the page noticing.
SessionLossNoticed ==
    /\ <>[][\A n \in Slots : LostAt(n) => net[n].cookie \in alive]_portalVars
    /\ []<>AskingInVain
    => []<>(me = "out")
=============================================================================
