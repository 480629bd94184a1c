----------------------------- MODULE Licensing -----------------------------
(***************************************************************************)
(* The licensing service with every request taken as one atomic step: the   *)
(* four tables it keeps (tenants, subscriptions, batch_tokens and           *)
(* device_activations), one action for each operation of service.py that    *)
(* changes them, and the clock it reads.  A request that raises commits     *)
(* nothing (db.py rolls back), so an operation is an action exactly where   *)
(* it succeeds.  LicensingTx takes the same operations apart into the SQL   *)
(* statements of concurrent transactions.                                   *)
(***************************************************************************)
EXTENDS Integers, FiniteSets

CONSTANTS
    Tenants,       \* (product, slug) pairs an operator may register
    Tokens,        \* batch tokens
    HW,            \* hardware_uuids
    None,          \* no row, no reference
    Never,         \* expires_at IS NULL
    SeatLimits,    \* seat_limit of a create request (0: field left out)
    Windows,       \* window_days of a create request (0: left out)
    Graces,        \* grace_days of a create request (0: left out)
    Quotas,        \* quota of a batch-token request
    Expiries,      \* expires_at of a batch-token request, in ticks, or Never
    DefaultLimit, DefaultWindow, DefaultGrace,   \* LM_DEFAULT_*
    TicksPerDay,   \* clock resolution: days_remaining is a floor over ticks
    MaxNow,        \* bound: the clock stops here
    MaxUntil       \* bound: no subscription is prepaid beyond this instant

ASSUME NoneAssumption == None \notin Tenants \cup Tokens
ASSUME FiniteAssumption == IsFiniteSet(HW)
ASSUME InputAssumption ==
    /\ SeatLimits \subseteq Nat /\ Windows \subseteq Nat /\ Graces \subseteq Nat
    /\ Quotas \subseteq Nat /\ Expiries \subseteq Nat \cup {Never}
ASSUME DefaultAssumption ==
    DefaultLimit \in Nat \ {0} /\ DefaultWindow \in Nat \ {0} /\ DefaultGrace \in Nat
ASSUME ClockAssumption == TicksPerDay \in Nat \ {0} /\ MaxNow \in Nat /\ MaxUntil \in Nat

VARIABLES
    now,      \* datetime.now(UTC)
    tenant,   \* tenants.status, "NONE" where there is no row
    sub,      \* subscriptions, one row per tenant
    tok,      \* batch_tokens
    dev       \* device_activations, one row per hardware_uuid

vars == <<now, tenant, sub, tok, dev>>

TenantStatus == {"NONE", "ACTIVE", "SUSPENDED"}
SubRow == [limit : Nat, window : Nat, grace : Nat, until : Nat,
           status : {"ACTIVE", "PAST_DUE", "SUSPENDED"}, paid : BOOLEAN]
TokRow == [owner : Tenants \cup {None}, quota : Nat, consumed : Nat,
           expires : Nat \cup {Never}, revoked : BOOLEAN]
DevRow == [tenant : Tenants \cup {None}, via : Tokens \cup {None},
           revoked : BOOLEAN, until : Nat]

NoSub == [limit |-> 0, window |-> 0, grace |-> 0, until |-> 0,
          status |-> "ACTIVE", paid |-> FALSE]
NoTok == [owner |-> None, quota |-> 0, consumed |-> 0,
          expires |-> Never, revoked |-> FALSE]
NoDev == [tenant |-> None, via |-> None, revoked |-> FALSE, until |-> 0]

Days(n) == n * TicksPerDay

Registered(t) == tenant[t] # "NONE"
Bound(h) == dev[h].tenant # None
Live(h) == Bound(h) /\ ~dev[h].revoked

\* The devices that hold a seat of tenant t, and those booked on token k.
LiveOf(t) == {h \in HW : Live(h) /\ dev[h].tenant = t}
LiveVia(k) == {h \in HW : Live(h) /\ dev[h].via = k}

Init ==
    /\ now = 0
    /\ tenant = [t \in Tenants |-> "NONE"]
    /\ sub = [t \in Tenants |-> NoSub]
    /\ tok = [k \in Tokens |-> NoTok]
    /\ dev = [h \in HW |-> NoDev]

Tick ==
    /\ now < MaxNow
    /\ now' = now + 1
    /\ UNCHANGED <<tenant, sub, tok, dev>>

-----------------------------------------------------------------------------
(* Tenants and subscriptions, as the operator manages them.                 *)

\* body.get(field) or settings.LM_DEFAULT_*: a zero counts as "left out".
OrDefault(n, default) == IF n = 0 THEN default ELSE n

\* The subscription starts paid, ACTIVE, and one window long.
NewSub(n, w, g) ==
    [limit |-> OrDefault(n, DefaultLimit), window |-> OrDefault(w, DefaultWindow),
     grace |-> OrDefault(g, DefaultGrace), until |-> now + Days(OrDefault(w, DefaultWindow)),
     status |-> "ACTIVE", paid |-> TRUE]

\* The slug of a registered tenant is taken (409).
CreateTenant(t, n, w, g) ==
    /\ ~Registered(t)
    /\ tenant' = [tenant EXCEPT ![t] = "ACTIVE"]
    /\ sub' = [sub EXCEPT ![t] = NewSub(n, w, g)]
    /\ UNCHANGED <<now, tok, dev>>

\* Mutant: the prepaid time is dropped, a payment always counts from now.
PaidThrough_FromNow(t) == now + Days(sub[t].window)

\* One window more, counted from now or from the end of what is prepaid.
PaidThrough(t) ==
    (IF sub[t].until > now THEN sub[t].until ELSE now) + Days(sub[t].window)

RecordPayment(t) ==
    /\ Registered(t)
    /\ PaidThrough(t) =< MaxUntil
    /\ sub' = [sub EXCEPT ![t].until = PaidThrough(t),
                          ![t].paid = TRUE, ![t].status = "ACTIVE"]
    /\ UNCHANGED <<now, tenant, tok, dev>>

\* Mutant: suspension leaves is_paid alone.
SuspendTenant_StaysPaid(t) ==
    /\ Registered(t)
    /\ tenant' = [tenant EXCEPT ![t] = "SUSPENDED"]
    /\ sub' = [sub EXCEPT ![t].status = "SUSPENDED"]
    /\ UNCHANGED <<now, tok, dev>>

SuspendTenant(t) ==
    /\ Registered(t)
    /\ tenant' = [tenant EXCEPT ![t] = "SUSPENDED"]
    /\ sub' = [sub EXCEPT ![t].status = "SUSPENDED", ![t].paid = FALSE]
    /\ UNCHANGED <<now, tok, dev>>

\* is_paid is left as it was: only a payment sets it again.
ReactivateTenant(t) ==
    /\ Registered(t)
    /\ tenant' = [tenant EXCEPT ![t] = "ACTIVE"]
    /\ sub' = [sub EXCEPT ![t].status = "ACTIVE"]
    /\ UNCHANGED <<now, tok, dev>>

\* The subscription, its tokens and the tenant's devices go with the tenant
\* (ON DELETE CASCADE).  activated_via does not cascade: a device of another
\* tenant booked on one of these tokens would make the DELETE fail.
DeleteTenant(t) ==
    /\ Registered(t)
    /\ \A h \in HW : dev[h].via # None /\ tok[dev[h].via].owner = t => dev[h].tenant = t
    /\ tenant' = [tenant EXCEPT ![t] = "NONE"]
    /\ sub' = [sub EXCEPT ![t] = NoSub]
    /\ tok' = [k \in Tokens |-> IF tok[k].owner = t THEN NoTok ELSE tok[k]]
    /\ dev' = [h \in HW |-> IF dev[h].tenant = t THEN NoDev ELSE dev[h]]
    /\ UNCHANGED now

-----------------------------------------------------------------------------
(* Batch tokens.                                                            *)

GenerateBatchToken(t, k, q, e) ==
    /\ Registered(t)
    /\ tok[k].owner = None
    /\ q > 0
    /\ tok' = [tok EXCEPT ![k] = [owner |-> t, quota |-> q, consumed |-> 0,
                                  expires |-> e, revoked |-> FALSE]]
    /\ UNCHANGED <<now, tenant, sub, dev>>

RevokeBatchToken(k) ==
    /\ tok[k].owner # None
    /\ tok' = [tok EXCEPT ![k].revoked = TRUE]
    /\ UNCHANGED <<now, tenant, sub, dev>>

\* Mutant: the token's subscription is not compared with the caller's.
TokenOk_AnyTenant(t, k) ==
    /\ tok[k].owner # None
    /\ ~tok[k].revoked
    /\ tok[k].expires # Never => tok[k].expires > now

\* The token is tenant t's, not revoked and not expired at this instant.
TokenOk(t, k) ==
    /\ tok[k].owner = t
    /\ ~tok[k].revoked
    /\ tok[k].expires # Never => tok[k].expires > now

-----------------------------------------------------------------------------
(* Seats and devices.                                                       *)

\* Mutant: active_seats > seat_limit instead of >=.
SeatFree_OffByOne(t, k) ==
    /\ Cardinality(LiveOf(t)) =< sub[t].limit
    /\ tok[k].consumed < tok[k].quota

\* _ensure_tenant_seat and _consume_seat: both caps have room.
SeatFree(t, k) ==
    /\ Cardinality(LiveOf(t)) < sub[t].limit
    /\ tok[k].consumed < tok[k].quota

Consume(k) == [tok EXCEPT ![k].consumed = @ + 1]

\* Mutant: the device row is not looked at before it is overwritten.
Book_TakesOver(t, k, h) ==
    /\ SeatFree(t, k)
    /\ tok' = Consume(k)
    /\ dev' = [dev EXCEPT ![h] = [tenant |-> t, via |-> k, revoked |-> FALSE,
                                  until |-> now + Days(sub[t].window)]]
    /\ UNCHANGED <<now, tenant, sub>>

\* A first activation inserts the row; a revoked one is re-booked in place,
\* for whichever tenant the token belongs to.
Book(t, k, h) ==
    /\ ~Live(h)
    /\ SeatFree(t, k)
    /\ tok' = Consume(k)
    /\ dev' = [dev EXCEPT ![h] = [tenant |-> t, via |-> k, revoked |-> FALSE,
                                  until |-> now + Days(sub[t].window)]]
    /\ UNCHANGED <<now, tenant, sub>>

\* Activating a live device of the same tenant: new key, new deadline, no seat.
Rotate(t, h) ==
    /\ Live(h)
    /\ dev[h].tenant = t
    /\ dev' = [dev EXCEPT ![h].until = now + Days(sub[t].window)]
    /\ UNCHANGED <<now, tenant, sub, tok>>

DoActivate(t, k, h) == Book(t, k, h) \/ Rotate(t, h)

\* The product backend activates on the tenant's service token, whatever the
\* standing of the tenant.
CpActivate(t, k, h) ==
    /\ Registered(t)
    /\ TokenOk(t, k)
    /\ DoActivate(t, k, h)

\* The terminal activates by itself: the token names the tenant, which must be
\* ACTIVE.
PublicActivate(k, h) ==
    LET t == tok[k].owner IN
    /\ t # None
    /\ TokenOk(t, k)
    /\ tenant[t] = "ACTIVE"
    /\ DoActivate(t, k, h)

\* The seat without the key.  A device that is live already, for any tenant,
\* only has its last_seen_at touched.
CpConsumeSeat(t, k, h) ==
    /\ Registered(t)
    /\ TokenOk(t, k)
    /\ Book(t, k, h)

\* Mutant: neither UPDATE is conditional, so a seat is released on every call.
ReleaseSeat_EveryTime(h) ==
    /\ Bound(h)
    /\ dev' = [dev EXCEPT ![h].revoked = TRUE]
    /\ tok' = [tok EXCEPT ![dev[h].via].consumed = @ - 1]
    /\ UNCHANGED <<now, tenant, sub>>

\* Revoke the live row and hand the seat back to the token it was booked on.
ReleaseSeat(h) ==
    LET k == dev[h].via IN
    /\ Live(h)
    /\ dev' = [dev EXCEPT ![h].revoked = TRUE]
    /\ tok' = IF tok[k].consumed > 0 THEN [tok EXCEPT ![k].consumed = @ - 1] ELSE tok
    /\ UNCHANGED <<now, tenant, sub>>

AdminRevokeDevice(h) == ReleaseSeat(h)

\* The calling tenant plays no part in what is released.
CpReleaseSeat(t, h) == Registered(t) /\ ReleaseSeat(h)

\* Mutant: reinstating books no seat on the original token.
ReinstateDevice_NoSeat(h) ==
    /\ Bound(h) /\ dev[h].revoked
    /\ SeatFree(dev[h].tenant, dev[h].via)
    /\ dev' = [dev EXCEPT ![h].revoked = FALSE]
    /\ UNCHANGED <<now, tenant, sub, tok>>

\* Mutant: reinstating, "an explicit admin decision", skips both caps.
ReinstateDevice_Uncapped(h) ==
    /\ Bound(h) /\ dev[h].revoked
    /\ tok' = Consume(dev[h].via)
    /\ dev' = [dev EXCEPT ![h].revoked = FALSE]
    /\ UNCHANGED <<now, tenant, sub>>

\* The deadline is refreshed only for a tenant in good standing, and never
\* shortened.
ReinstateDevice(h) ==
    LET t == dev[h].tenant
        k == dev[h].via
        fresh == now + Days(sub[t].window)
        refresh == sub[t].paid /\ tenant[t] = "ACTIVE" /\ dev[h].until < fresh
    IN
    /\ Bound(h) /\ dev[h].revoked
    /\ SeatFree(t, k)
    /\ tok' = Consume(k)
    /\ dev' = [dev EXCEPT ![h].revoked = FALSE,
                          ![h].until = IF refresh THEN fresh ELSE @]
    /\ UNCHANGED <<now, tenant, sub>>

\* Mutant: a heartbeat adds a window to the deadline instead of to now.
Heartbeat_Stacks(t, h) ==
    /\ Registered(t)
    /\ Live(h)
    /\ dev[h].until < MaxUntil
    /\ sub[t].paid /\ tenant[t] = "ACTIVE"
    /\ dev' = [dev EXCEPT ![h].until = @ + Days(sub[t].window)]
    /\ UNCHANGED <<now, tenant, sub, tok>>

\* Mutant: a heartbeat does not look at is_revoked.
Heartbeat_Revoked(t, h) ==
    /\ Registered(t)
    /\ Bound(h)
    /\ sub[t].paid /\ tenant[t] = "ACTIVE"
    /\ dev' = [dev EXCEPT ![h].until = now + Days(sub[t].window)]
    /\ UNCHANGED <<now, tenant, sub, tok>>

\* A live device whose stored license_key the caller presents.  The window and
\* the standing are the calling tenant's.  Out of standing only last_seen_at moves.
Heartbeat(t, h) ==
    /\ Registered(t)
    /\ Live(h)
    /\ sub[t].paid /\ tenant[t] = "ACTIVE"
    /\ dev' = [dev EXCEPT ![h].until = now + Days(sub[t].window)]
    /\ UNCHANGED <<now, tenant, sub, tok>>

-----------------------------------------------------------------------------
(* What the read operations report.                                         *)

\* Mutant: int() instead of floor(), which rounds the first day late up to 0.
DaysRemaining_Truncated(until) ==
    IF until >= now THEN (until - now) \div TicksPerDay ELSE -((now - until) \div TicksPerDay)

\* floor((valid_until - now) / 1 day)
DaysRemaining(until) == (until - now) \div TicksPerDay

DeviceState(h) ==
    LET days == DaysRemaining(dev[h].until)
        grace == sub[dev[h].tenant].grace
    IN  IF dev[h].revoked THEN "REVOKED"
        ELSE IF days >= 0 THEN "ACTIVE"
        ELSE IF days >= -grace THEN "GRACE"
        ELSE "EXPIRED"

\* The login gate of a product backend: is the device of this tenant usable?
VerifyDevice(t, h) == dev[h].tenant = t /\ DeviceState(h) \in {"ACTIVE", "GRACE"}

-----------------------------------------------------------------------------
TenantOps(t) ==
    \/ \E n \in SeatLimits, w \in Windows, g \in Graces : CreateTenant(t, n, w, g)
    \/ RecordPayment(t)
    \/ SuspendTenant(t)
    \/ ReactivateTenant(t)
    \/ DeleteTenant(t)

TokenOps(k) ==
    \/ \E t \in Tenants, q \in Quotas, e \in Expiries : GenerateBatchToken(t, k, q, e)
    \/ RevokeBatchToken(k)

DeviceOps(h) ==
    \/ \E t \in Tenants, k \in Tokens : CpActivate(t, k, h) \/ CpConsumeSeat(t, k, h)
    \/ \E k \in Tokens : PublicActivate(k, h)
    \/ \E t \in Tenants : CpReleaseSeat(t, h) \/ Heartbeat(t, h)
    \/ AdminRevokeDevice(h)
    \/ ReinstateDevice(h)

Next ==
    \/ Tick
    \/ \E t \in Tenants : TenantOps(t)
    \/ \E k \in Tokens : TokenOps(k)
    \/ \E h \in HW : DeviceOps(h)

Spec == Init /\ [][Next]_vars

-----------------------------------------------------------------------------
(* Properties.                                                              *)

\* Every row keeps its schema: the column types and the CHECKs of the tables.
TypeOK ==
    /\ now \in Nat
    /\ tenant \in [Tenants -> TenantStatus]
    /\ sub \in [Tenants -> SubRow]
    /\ tok \in [Tokens -> TokRow]
    /\ dev \in [HW -> DevRow]

\* The counter seats_consumed and the device table never disagree: a token has
\* consumed exactly the seats of the live devices booked on it, across
\* activation, revocation, reinstatement, moves between tenants and deletion.
SeatConservation == \A k \in Tokens : tok[k].consumed = Cardinality(LiveVia(k))

\* The two caps of the guarantee "exceeding either is a hard 409", counted in
\* devices: a tenant never runs more than seat_limit of them, a token never
\* carries more than its quota.
CapsRespected ==
    /\ \A t \in Tenants : Registered(t) => Cardinality(LiveOf(t)) =< sub[t].limit
    /\ \A k \in Tokens : Cardinality(LiveVia(k)) =< tok[k].quota

\* References hold across the tables: a device is bound to a registered tenant
\* and was booked on a token of that same tenant.  So deleting a tenant is
\* never stopped by the foreign key activated_via.
ReferencesIntact ==
    /\ \A k \in Tokens : tok[k].owner # None => Registered(tok[k].owner)
    /\ \A h \in HW : Bound(h) =>
          /\ dev[h].via # None
          /\ tok[dev[h].via].owner = dev[h].tenant
    /\ \A h \in HW : ~Bound(h) => dev[h] = NoDev

\* A live device stays with its tenant and on its token until it is released:
\* no activation with another token takes a live seat over.
LiveBindingStable ==
    [][\A h \in HW : Live(h) /\ Live(h)' =>
          dev'[h].tenant = dev[h].tenant /\ dev'[h].via = dev[h].via]_vars

\* A revoked device keeps its deadline until it is booked or reinstated: no
\* heartbeat and no payment buys time for it.
RevokedIsFrozen ==
    [][\A h \in HW : Bound(h) /\ dev[h].revoked /\ Bound(h)' /\ dev'[h].revoked =>
          dev'[h] = dev[h]]_vars

\* Whatever was paid, no device is good for more than one granted window from
\* now, so one that stops calling home runs out within a window.
HorizonBounded ==
    \A h \in HW : Bound(h) =>
        \E w \in Windows \cup {DefaultWindow} : dev[h].until =< now + Days(w)

\* The two status columns and is_paid agree: a subscription is suspended only
\* with its tenant, unpaid, and an active tenant never has a suspended one.
StandingConsistent ==
    \A t \in Tenants : Registered(t) =>
        /\ sub[t].status = "SUSPENDED" => tenant[t] = "SUSPENDED" /\ ~sub[t].paid
        /\ tenant[t] = "ACTIVE" => sub[t].status = "ACTIVE"

\* The verdict computed from whole days is the one the deadline means, at every
\* instant of the day: ACTIVE up to valid_until, GRACE for grace_days more, and
\* the login gate shuts exactly after that.
VerdictMatchesDeadline ==
    \A h \in HW : Bound(h) =>
        LET t == dev[h].tenant IN
        /\ DeviceState(h) = "ACTIVE" <=> Live(h) /\ now =< dev[h].until
        /\ VerifyDevice(t, h) <=> Live(h) /\ now =< dev[h].until + Days(sub[t].grace)

\* What the seat caps promise, with cardinalities for counters.
Pool == INSTANCE SeatPool WITH
    limit <- [t \in Tenants |-> sub[t].limit],
    owner <- [k \in Tokens |-> tok[k].owner],
    quota <- [k \in Tokens |-> tok[k].quota],
    seat <- [h \in HW |-> IF Live(h) THEN dev[h].via ELSE None]

\* The tables implement the seat pool: each operation is one move of the pool
\* (open, issue, grant, give back, close) or leaves it alone.
ImplementsSeatPool == Pool!PoolSpec
=============================================================================
