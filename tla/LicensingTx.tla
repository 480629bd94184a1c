---------------------------- MODULE LicensingTx ----------------------------
(***************************************************************************)
(* The operations of Licensing taken apart into the SQL statements of       *)
(* concurrent requests.  Each request is one transaction under Postgres'    *)
(* READ COMMITTED: a SELECT sees what is committed at that instant, an      *)
(* UPDATE or DELETE takes the lock of the row it matches and waits while    *)
(* another transaction holds it, an INSERT or a changed reference takes a   *)
(* share of the row it refers to, which holds off only a DELETE of that     *)
(* row, and the deadlock detector aborts one of a cycle of waiters.         *)
(* The tables of Licensing are what is committed; a worker keeps its        *)
(* uncommitted row versions in draft until it commits or rolls back.        *)
(* A run of statements that only read, with no write between them and no    *)
(* branch on a row of the device table, is one step.  A request takes less  *)
(* than a tick of the clock.                                                *)
(***************************************************************************)
EXTENDS Licensing

CONSTANTS
    Workers,   \* request threads, each with a connection of its own
    Ops        \* the operations clients call in this instance

\* Locks go by row: the rows of the four tables have different names.
ASSUME RowsAssumption ==
    /\ Tenants \cap Tokens = {} /\ Tenants \cap HW = {} /\ Tokens \cap HW = {}
    /\ \A t \in Tenants : <<"sub", t>> \notin Tenants \cup Tokens \cup HW

VARIABLES
    pc,        \* pc[p]: the statement worker p executes next, or "idle"
    req,       \* req[p]: the request it serves
    seen,      \* seen[p]: the rows it has read and still uses
    draft,     \* draft[p]: its uncommitted row versions; it holds their locks
    share,     \* share[p]: the rows its foreign keys keep from being deleted
    ledger,    \* ledger[t]: committed rows of payments for tenant t
    crashed    \* the operations that have answered 500 so far

txVars == <<vars, pc, req, seen, draft, share, ledger, crashed>>

Empty == <<>>
NoReq == [op |-> "none", t |-> None, k |-> None, h |-> None]
NoSeen == [sub |-> NoSub, dev |-> NoDev]

\* The row of the subscriptions table; the other rows go by their own keys.
SubOf(t) == <<"sub", t>>

Requests ==
    [op : Ops \cap {"cp_activate", "cp_consume_seat"}, t : Tenants, k : Tokens, h : HW]
    \cup [op : Ops \cap {"public_activate"}, t : {None}, k : Tokens, h : HW]
    \cup [op : Ops \cap {"heartbeat"}, t : Tenants, k : {None}, h : HW]
    \cup [op : Ops \cap {"release_seat", "reinstate"}, t : {None}, k : {None}, h : HW]
    \cup [op : Ops \cap {"payment", "patch", "suspend", "reactivate", "delete", "create"},
          t : Tenants, k : {None}, h : {None}]
    \cup [op : Ops \cap {"generate_token"}, t : Tenants, k : Tokens, h : {None}]
    \cup [op : Ops \cap {"revoke_token"}, t : {None}, k : Tokens, h : {None}]

FirstStatement(op) ==
    CASE op \in {"cp_activate", "public_activate", "cp_consume_seat"} -> "check"
      [] op = "release_seat" -> "revoke"
      [] op = "reinstate" -> "lock"
      [] op \in {"suspend", "reactivate"} -> "status"
      [] OTHER -> op

\* A freed slot of the model stands for a new row with a new id, so it is not
\* reused while a request for the old one is under way.
SlotFree(r) ==
    /\ r.op = "create" =>
         \A q \in Workers : req[q].t = r.t => req[q].op = "create"
    /\ r.op = "generate_token" =>
         tok[r.k].owner = None /\ \A q \in Workers : req[q].k # r.k

Begin(p) ==
    /\ pc[p] = "idle"
    /\ \E r \in Requests :
         /\ SlotFree(r)
         /\ req' = [req EXCEPT ![p] = r]
         /\ pc' = [pc EXCEPT ![p] = FirstStatement(r.op)]
    /\ UNCHANGED <<vars, seen, draft, share, ledger, crashed>>

-----------------------------------------------------------------------------
(* Locks.                                                                   *)

\* The rows the next statement of p locks: those its WHERE matches among the
\* committed ones, as the statement finds them when it gets to run, or the row
\* an INSERT adds.
Wanted(p) ==
    LET r == req[p]
        k == IF r.op \in {"release_seat", "reinstate"} THEN seen[p].dev.via ELSE r.k
    IN CASE pc[p] = "take" -> {j \in Tokens : j = k /\ tok[j].consumed < tok[j].quota}
         [] pc[p] = "give" -> {j \in Tokens : j = k /\ tok[j].consumed > 0}
         [] pc[p] = "revoke_token" -> {j \in Tokens : j = k /\ tok[j].owner # None}
         [] pc[p] = "revoke" -> {h \in HW : h = r.h /\ Live(h)}
         [] pc[p] \in {"lock", "rotate", "touch", "beat"} -> {h \in HW : h = r.h /\ Bound(h)}
         [] pc[p] = "store" -> {h \in HW : h = r.h /\ (Bound(h) \/ seen[p].dev = NoDev)}
         [] pc[p] \in {"status", "delete"} -> {t \in Tenants : t = r.t /\ Registered(t)}
         [] pc[p] \in {"pay", "patch", "substatus", "cascade_sub"} ->
              {SubOf(t) : t \in {s \in Tenants : s = r.t /\ Registered(s)}}
         [] pc[p] = "insert" -> {IF r.op = "create" THEN r.t ELSE k}
         [] pc[p] = "cascade_dev" -> {h \in HW : dev[h].tenant = r.t} \ DOMAIN draft[p]
         [] pc[p] = "cascade_tok" -> {j \in Tokens : tok[j].owner = r.t} \ DOMAIN draft[p]
         [] OTHER -> {}

\* The row its foreign key makes the next statement of p look up: the tenant of
\* a device that is new to it, the subscription of a new token or payment.
Referred(p) ==
    LET t == req[p].t IN
    CASE pc[p] = "store" /\ req[p].op # "reinstate" /\ dev[req[p].h].tenant # t -> {t}
      [] pc[p] = "insert" /\ req[p].op = "generate_token" -> {SubOf(t)}
      [] pc[p] = "record" -> {SubOf(t)}
      [] OTHER -> {}

Deletes(p) == req[p].op = "delete"

\* Mutant: rows are not locked.
Holders_Unlocked(p, row) == {}

\* Who keeps p from locking this row: its holder, and for a DELETE also those
\* whose foreign keys refer to it.
Holders(p, row) ==
    {q \in Workers \ {p} : row \in DOMAIN draft[q] \/ (Deletes(p) /\ row \in share[q])}

\* A statement waits until it can lock a row it wants and until no DELETE of a
\* row it refers to is pending.
WaitsFor(p) ==
    (IF \E row \in Wanted(p) : Holders(p, row) = {} THEN {}
     ELSE UNION {Holders(p, row) : row \in Wanted(p)})
    \cup {q \in Workers \ {p} : Deletes(q) /\ Referred(p) \cap DOMAIN draft[q] # {}}

Runs(p, statement) == pc[p] = statement /\ WaitsFor(p) = {}

\* p waits, directly or through others, for itself.
Deadlocked(p) ==
    /\ WaitsFor(p) # {}
    /\ \A S \in SUBSET Workers :
         WaitsFor(p) \subseteq S /\ (\A q \in S : WaitsFor(q) \subseteq S) => p \in S

-----------------------------------------------------------------------------
(* How a statement and a transaction end.                                   *)

Then(p, statement) ==
    /\ pc' = [pc EXCEPT ![p] = statement]
    /\ UNCHANGED <<vars, ledger, crashed>>

\* The statement found no row and the transaction goes on.
Skip(p, statement) == Then(p, statement) /\ UNCHANGED <<req, seen, draft, share>>

\* The draft of a transaction with one more row version, in place of an earlier
\* one of that row.
With(rows, row, value) ==
    [x \in DOMAIN rows \cup {row} |-> IF x = row THEN value ELSE rows[x]]

\* The statement locks a row and gives it a new, uncommitted value.
Write(p, row, value, statement) ==
    /\ Then(p, statement)
    /\ draft' = [draft EXCEPT ![p] = With(draft[p], row, value)]
    /\ share' = [share EXCEPT ![p] = @ \cup Referred(p)]
    /\ UNCHANGED <<req, seen>>

EndRequest(p) ==
    /\ pc' = [pc EXCEPT ![p] = "idle"]
    /\ req' = [req EXCEPT ![p] = NoReq]
    /\ seen' = [seen EXCEPT ![p] = NoSeen]
    /\ draft' = [draft EXCEPT ![p] = Empty]
    /\ share' = [share EXCEPT ![p] = {}]

\* Mutant: a refused request is rolled back and tried again.
Leave_Retries(p) ==
    /\ pc' = [pc EXCEPT ![p] = FirstStatement(req[p].op)]
    /\ seen' = [seen EXCEPT ![p] = NoSeen]
    /\ draft' = [draft EXCEPT ![p] = Empty]
    /\ share' = [share EXCEPT ![p] = {}]
    /\ UNCHANGED <<vars, req, ledger, crashed>>

\* A refusal (403, 404, 409) and a no-op leave nothing behind.
Leave(p) == EndRequest(p) /\ UNCHANGED <<vars, ledger, crashed>>

\* An exception nobody catches: rollback and a 500.
Crash(p) ==
    /\ EndRequest(p)
    /\ crashed' = crashed \cup {req[p].op}
    /\ UNCHANGED <<vars, ledger>>

\* Once locked, a row cannot change until p is done, so the draft of a row is
\* its next committed version.
Committed(p, table) ==
    [x \in DOMAIN table |-> IF x \in DOMAIN draft[p] THEN draft[p][x] ELSE table[x]]

Commit(p) ==
    LET r == req[p] IN
    /\ pc[p] = "commit"
    /\ tenant' = Committed(p, tenant)
    /\ sub' = [t \in Tenants |-> IF SubOf(t) \in DOMAIN draft[p] THEN draft[p][SubOf(t)]
                                 ELSE sub[t]]
    /\ tok' = Committed(p, tok)
    /\ dev' = Committed(p, dev)
    /\ ledger' = CASE r.op = "payment" -> [ledger EXCEPT ![r.t] = @ + 1]
                   [] r.op = "delete" -> [ledger EXCEPT ![r.t] = 0]
                   [] OTHER -> ledger
    /\ EndRequest(p)
    /\ UNCHANGED <<now, crashed>>

\* Postgres aborts a transaction of a cycle of waiters.
AbortDeadlock(p) == Deadlocked(p) /\ Crash(p)

-----------------------------------------------------------------------------
(* Booking a seat: cp_activate, public_activate, cp_consume_seat, and the    *)
(* second half of admin_reinstate_device.                                    *)

\* The token, its subscription and its tenant are read and judged.
Check(p) ==
    LET r == req[p]
        t == IF r.op = "public_activate" THEN tok[r.k].owner ELSE r.t
        granted == /\ t # None /\ Registered(t) /\ TokenOk(t, r.k)
                   /\ r.op = "public_activate" => tenant[t] = "ACTIVE"
    IN
    /\ Runs(p, "check")
    /\ \/ /\ granted
          /\ Then(p, "lookup")
          /\ req' = [req EXCEPT ![p].t = t]
          /\ seen' = [seen EXCEPT ![p].sub = sub[t]]
          /\ UNCHANGED <<draft, share>>
       \/ ~granted /\ Leave(p)

\* The device row is read, without a lock, and decides what follows.
Lookup(p) ==
    LET h == req[p].h
        live == Live(h)
        consume == req[p].op = "cp_consume_seat"
        mine == dev[h].tenant = req[p].t
    IN
    /\ Runs(p, "lookup")
    /\ \/ /\ live => consume \/ mine
          /\ Then(p, IF ~live THEN "count" ELSE IF consume THEN "touch" ELSE "rotate")
          /\ seen' = [seen EXCEPT ![p].dev = dev[h]]
          /\ UNCHANGED <<req, draft, share>>
       \/ live /\ ~consume /\ ~mine /\ Leave(p)

\* The tenant's live devices are counted; nothing keeps the count true.
Count(p) ==
    LET reinstate == req[p].op = "reinstate"
        t == IF reinstate THEN seen[p].dev.tenant ELSE req[p].t
        row == IF reinstate THEN sub[t] ELSE seen[p].sub
        room == Cardinality(LiveOf(t)) < row.limit
    IN
    /\ Runs(p, "count")
    /\ \/ /\ room
          /\ Then(p, "take")
          /\ seen' = [seen EXCEPT ![p].sub = row]
          /\ UNCHANGED <<req, draft, share>>
       \/ ~room /\ Leave(p)

\* The conditional UPDATE of the counter: no row, no seat.
Take(p) ==
    /\ Runs(p, "take")
    /\ \/ \E k \in Wanted(p) : Write(p, k, [tok[k] EXCEPT !.consumed = @ + 1], "store")
       \/ Wanted(p) = {} /\ Leave(p)

\* Mutant: re-booking a revoked row does not rebind it to the new tenant.
NewRow_KeepsTenant(p) ==
    [tenant |-> IF seen[p].dev = NoDev THEN req[p].t ELSE seen[p].dev.tenant,
     via |-> req[p].k, revoked |-> FALSE, until |-> now + Days(seen[p].sub.window)]

NewRow(p) ==
    [tenant |-> req[p].t, via |-> req[p].k, revoked |-> FALSE,
     until |-> now + Days(seen[p].sub.window)]

\* The row read in Lookup decides between INSERT and UPDATE; the row found now
\* is overwritten whatever it has become.
Store(p) ==
    LET h == req[p].h
        insert == seen[p].dev = NoDev
        orphan == Referred(p) # {} /\ ~Registered(req[p].t)
    IN
    /\ Runs(p, "store") /\ req[p].op # "reinstate"
    /\ \/ Bound(h) # insert /\ (IF orphan THEN Crash(p) ELSE Write(p, h, NewRow(p), "commit"))
       \/ Bound(h) /\ insert /\ Crash(p)
       \/ ~Bound(h) /\ ~insert /\ req[p].op # "cp_consume_seat" /\ Crash(p)
       \/ ~Bound(h) /\ ~insert /\ req[p].op = "cp_consume_seat" /\ Skip(p, "commit")

\* Reactivation: a new key and a new deadline for the row, whoever has it now.
RotateKey(p) ==
    LET h == req[p].h IN
    /\ Runs(p, "rotate")
    /\ \/ /\ Bound(h)
          /\ Write(p, h, [dev[h] EXCEPT !.until = now + Days(seen[p].sub.window)], "commit")
       \/ ~Bound(h) /\ Crash(p)

Touch(p) ==
    LET h == req[p].h IN
    /\ Runs(p, "touch")
    /\ \/ Bound(h) /\ Write(p, h, dev[h], "commit")
       \/ ~Bound(h) /\ Skip(p, "commit")

BookingStep(p) ==
    Check(p) \/ Lookup(p) \/ Count(p) \/ Take(p) \/ Store(p) \/ RotateKey(p) \/ Touch(p)

-----------------------------------------------------------------------------
(* Device operations.                                                        *)

\* Mutant: the release does not ask for a live row.
Revoke_Unconditional(p) ==
    LET h == req[p].h IN
    /\ Runs(p, "revoke")
    /\ \/ /\ Bound(h)
          /\ \A q \in Workers : h \notin DOMAIN draft[q]
          /\ Then(p, "give")
          /\ draft' = [draft EXCEPT ![p] = With(draft[p], h, [dev[h] EXCEPT !.revoked = TRUE])]
          /\ seen' = [seen EXCEPT ![p].dev = dev[h]]
          /\ UNCHANGED <<req, share>>
       \/ ~Bound(h) /\ Leave(p)

\* Release: the conditional UPDATE matches a live row, at most once.
Revoke(p) ==
    LET h == req[p].h IN
    /\ Runs(p, "revoke")
    /\ \/ /\ Live(h)
          /\ Then(p, "give")
          /\ draft' = [draft EXCEPT ![p] = With(draft[p], h, [dev[h] EXCEPT !.revoked = TRUE])]
          /\ seen' = [seen EXCEPT ![p].dev = dev[h]]
          /\ UNCHANGED <<req, share>>
       \/ ~Live(h) /\ Leave(p)

\* Mutant: the seat is not handed back to the token.
Give_Skipped(p) == Runs(p, "give") /\ Skip(p, "commit")

Give(p) ==
    /\ Runs(p, "give")
    /\ IF Wanted(p) = {} THEN Skip(p, "commit")
       ELSE \E k \in Wanted(p) : Write(p, k, [tok[k] EXCEPT !.consumed = @ - 1], "commit")

\* Reinstate: SELECT ... FOR UPDATE.
LockDevice(p) ==
    LET h == req[p].h IN
    /\ Runs(p, "lock")
    /\ \/ /\ Bound(h) /\ dev[h].revoked
          /\ Then(p, "count")
          /\ draft' = [draft EXCEPT ![p] = With(draft[p], h, dev[h])]
          /\ seen' = [seen EXCEPT ![p].dev = dev[h]]
          /\ UNCHANGED <<req, share>>
       \/ ~(Bound(h) /\ dev[h].revoked) /\ Leave(p)

StoreReinstated(p) ==
    LET h == req[p].h
        t == dev[h].tenant
        fresh == now + Days(seen[p].sub.window)
        refresh == seen[p].sub.paid /\ tenant[t] = "ACTIVE" /\ dev[h].until < fresh
    IN
    /\ Runs(p, "store") /\ req[p].op = "reinstate"
    /\ Write(p, h, [dev[h] EXCEPT !.revoked = FALSE,
                                  !.until = IF refresh THEN fresh ELSE @], "commit")

\* Heartbeat: the row is read and judged, then written by hardware_uuid alone.
Listen(p) ==
    LET t == req[p].t
        h == req[p].h
        standing == sub[t].paid /\ tenant[t] = "ACTIVE"
    IN
    /\ Runs(p, "heartbeat")
    /\ \/ /\ Registered(t) /\ Live(h)
          /\ Then(p, "beat")
          /\ seen' = [seen EXCEPT ![p].sub = [sub[t] EXCEPT !.paid = standing]]
          /\ UNCHANGED <<req, draft, share>>
       \/ ~(Registered(t) /\ Live(h)) /\ Leave(p)

Beat(p) ==
    LET h == req[p].h
        row == IF seen[p].sub.paid
               THEN [dev[h] EXCEPT !.until = now + Days(seen[p].sub.window)] ELSE dev[h]
    IN
    /\ Runs(p, "beat")
    /\ \/ Bound(h) /\ Write(p, h, row, "commit")
       \/ ~Bound(h) /\ Skip(p, "commit")

DeviceStep(p) ==
    Revoke(p) \/ Give(p) \/ LockDevice(p) \/ StoreReinstated(p) \/ Listen(p) \/ Beat(p)

-----------------------------------------------------------------------------
(* Operator requests about tenants, subscriptions and tokens.                *)

\* A slug found free may be taken by the time of the INSERT.
Create(p) ==
    LET t == req[p].t IN
    /\ Runs(p, "create")
    /\ \/ ~Registered(t) /\ Skip(p, "insert")
       \/ Registered(t) /\ Leave(p)

InsertTenant(p) ==
    LET t == req[p].t IN
    /\ Runs(p, "insert") /\ req[p].op = "create"
    /\ \/ /\ ~Registered(t)
          /\ Then(p, "commit")
          /\ \E n \in SeatLimits, w \in Windows, g \in Graces :
               draft' = [draft EXCEPT ![p] =
                           With(With(Empty, SubOf(t), NewSub(n, w, g)), t, "ACTIVE")]
          /\ UNCHANGED <<req, seen, share>>
       \/ Registered(t) /\ Crash(p)

GenerateToken(p) ==
    /\ Runs(p, "generate_token")
    /\ \/ Registered(req[p].t) /\ Skip(p, "insert")
       \/ ~Registered(req[p].t) /\ Leave(p)

InsertToken(p) ==
    /\ Runs(p, "insert") /\ req[p].op = "generate_token"
    /\ \/ /\ Registered(req[p].t)
          /\ \E q \in Quotas \ {0}, e \in Expiries :
               Write(p, req[p].k, [owner |-> req[p].t, quota |-> q, consumed |-> 0,
                                   expires |-> e, revoked |-> FALSE], "commit")
       \/ ~Registered(req[p].t) /\ Crash(p)

RevokeToken(p) ==
    LET k == req[p].k IN
    /\ Runs(p, "revoke_token")
    /\ \/ tok[k].owner # None /\ Write(p, k, [tok[k] EXCEPT !.revoked = TRUE], "commit")
       \/ tok[k].owner = None /\ Leave(p)

\* A payment computes the new deadline from the row it has read.
ReadPaid(p) ==
    LET t == req[p].t IN
    /\ Runs(p, "payment")
    /\ \/ /\ Registered(t) /\ PaidThrough(t) =< MaxUntil
          /\ Then(p, "record")
          /\ seen' = [seen EXCEPT ![p].sub = [sub[t] EXCEPT !.until = PaidThrough(t)]]
          /\ UNCHANGED <<req, draft, share>>
       \/ ~(Registered(t) /\ PaidThrough(t) =< MaxUntil) /\ Leave(p)

\* The row of payments refers to the subscription, which cannot go from here on.
InsertPayment(p) ==
    /\ Runs(p, "record")
    /\ \/ /\ Registered(req[p].t)
          /\ Then(p, "pay")
          /\ share' = [share EXCEPT ![p] = @ \cup Referred(p)]
          /\ UNCHANGED <<req, seen, draft>>
       \/ ~Registered(req[p].t) /\ Crash(p)

\* The computed deadline is written, whatever the row has become.
Pay(p) ==
    LET t == req[p].t IN
    /\ Runs(p, "pay")
    /\ \/ /\ Registered(t)
          /\ Write(p, SubOf(t), [sub[t] EXCEPT !.until = seen[p].sub.until,
                                               !.paid = TRUE, !.status = "ACTIVE"], "commit")
       \/ ~Registered(t) /\ Leave(p)

SetStatus(p) ==
    LET t == req[p].t
        status == IF req[p].op = "suspend" THEN "SUSPENDED" ELSE "ACTIVE"
    IN
    /\ Runs(p, "status")
    /\ \/ Registered(t) /\ Write(p, t, status, "substatus")
       \/ ~Registered(t) /\ Leave(p)

SetSubStatus(p) ==
    LET t == req[p].t
        row == IF req[p].op = "suspend"
               THEN [sub[t] EXCEPT !.status = "SUSPENDED", !.paid = FALSE]
               ELSE [sub[t] EXCEPT !.status = "ACTIVE"]
    IN
    /\ Runs(p, "substatus")
    /\ Write(p, SubOf(t), row, "commit")

\* The new columns are written, then the audit row cannot be: its JSON payload
\* carries updated_at, a datetime.
Patch(p) ==
    LET t == req[p].t IN
    /\ Runs(p, "patch")
    /\ \/ /\ Registered(t)
          /\ \E n \in SeatLimits : Write(p, SubOf(t), [sub[t] EXCEPT !.limit = n], "audit")
       \/ ~Registered(t) /\ Leave(p)

AuditPatch(p) == Runs(p, "audit") /\ Crash(p)

\* DELETE of the tenant, then of what refers to it, row by row: subscription,
\* devices, tokens.
Delete(p) ==
    LET t == req[p].t IN
    /\ Runs(p, "delete")
    /\ \/ Registered(t) /\ Write(p, t, "NONE", "cascade_sub")
       \/ ~Registered(t) /\ Leave(p)

CascadeSub(p) == Runs(p, "cascade_sub") /\ Write(p, SubOf(req[p].t), NoSub, "cascade_dev")

Free(p) == {row \in Wanted(p) : Holders(p, row) = {}}

\* Mutant: devices do not go with their tenant.
CascadeDev_Missing(p) == Runs(p, "cascade_dev") /\ Skip(p, "cascade_tok")

CascadeDev(p) ==
    /\ Runs(p, "cascade_dev")
    /\ \/ \E h \in Free(p) : Write(p, h, NoDev, "cascade_dev")
       \/ Wanted(p) = {} /\ Skip(p, "cascade_tok")

\* Last, no device may be left that was booked on one of the deleted tokens.
CascadeTok(p) ==
    LET left == {h \in HW \ DOMAIN draft[p] : dev[h].via \in Tokens \cap DOMAIN draft[p]} IN
    /\ Runs(p, "cascade_tok")
    /\ \/ \E k \in Free(p) : Write(p, k, NoTok, "cascade_tok")
       \/ Wanted(p) = {} /\ (IF left = {} THEN Skip(p, "commit") ELSE Crash(p))

OperatorStep(p) ==
    \/ Create(p) \/ InsertTenant(p) \/ GenerateToken(p) \/ InsertToken(p) \/ RevokeToken(p)
    \/ ReadPaid(p) \/ InsertPayment(p) \/ Pay(p) \/ SetStatus(p) \/ SetSubStatus(p)
    \/ Patch(p) \/ AuditPatch(p) \/ Delete(p) \/ CascadeSub(p) \/ CascadeDev(p) \/ CascadeTok(p)

-----------------------------------------------------------------------------
\* What the server does for a request it has accepted.
Serve(p) ==
    BookingStep(p) \/ DeviceStep(p) \/ OperatorStep(p) \/ Commit(p) \/ AbortDeadlock(p)

WorkersIdle ==
    /\ pc = [p \in Workers |-> "idle"]
    /\ req = [p \in Workers |-> NoReq]
    /\ seen = [p \in Workers |-> NoSeen]
    /\ draft = [p \in Workers |-> Empty]
    /\ share = [p \in Workers |-> {}]
    /\ ledger = [t \in Tenants |-> 0]
    /\ crashed = {}

TxNext == \E p \in Workers : Begin(p) \/ Serve(p)

\* From empty tables.
TxInit == Init /\ WorkersIdle

TxSpec == TxInit /\ [][TxNext]_txVars

Created == {NewSub(n, w, g) : n \in SeatLimits, w \in Windows, g \in Graces}
Issued ==
    {[owner |-> t, quota |-> q, consumed |-> 0, expires |-> e, revoked |-> FALSE] :
        t \in Tenants, q \in Quotas \ {0}, e \in Expiries}

\* From a service in operation: every tenant registered, every token issued.
Stocked ==
    /\ now = 0
    /\ tenant = [t \in Tenants |-> "ACTIVE"]
    /\ sub \in [Tenants -> Created]
    /\ tok \in [Tokens -> Issued]
    /\ dev = [h \in HW |-> NoDev]
    /\ WorkersIdle

StockedSpec == Stocked /\ [][TxNext]_txVars

\* Statements and lock grants keep coming: a waiting statement is granted its
\* lock in the end (Postgres queues lock requests), and a cycle is broken.
FairSpec == StockedSpec /\ \A p \in Workers : SF_txVars(Serve(p))

-----------------------------------------------------------------------------
(* Properties.                                                              *)

Statements ==
    {"idle", "commit", "check", "lookup", "count", "take", "store", "rotate", "touch",
     "revoke", "give", "lock", "heartbeat", "beat", "create", "insert", "generate_token",
     "revoke_token", "payment", "record", "pay", "status", "substatus", "patch", "audit",
     "delete", "cascade_sub", "cascade_dev", "cascade_tok"}

\* The requests as served: public_activate learns its tenant from the token.
Served == Requests \cup {NoReq} \cup [op : {"public_activate"}, t : Tenants, k : Tokens, h : HW]

\* Each worker is at a statement of its request, holds locks only inside one,
\* and no row has two holders.
TxTypeOK ==
    /\ TypeOK
    /\ pc \in [Workers -> Statements]
    /\ req \in [Workers -> Served]
    /\ seen \in [Workers -> [sub : SubRow, dev : DevRow]]
    /\ DOMAIN draft = Workers
    /\ share \in [Workers -> SUBSET (Tenants \cup {SubOf(t) : t \in Tenants})]
    /\ \A p \in Workers :
         /\ pc[p] = "idle" => draft[p] = Empty /\ share[p] = {} /\ req[p] = NoReq
         /\ \A q \in Workers \ {p} : DOMAIN draft[p] \cap DOMAIN draft[q] = {}
    /\ ledger \in [Tenants -> Nat]
    /\ crashed \subseteq Ops

\* With one request at a time the statements add up to the atomic operations of
\* Licensing, from the first read to the commit.
SerialImplementsLicensing == Spec

\* Served alone, no operation answers 500 but the subscription PATCH: deletes
\* are not stopped by foreign keys, inserts and updates find what was read.
AloneOnlyPatchCrashes == crashed \subseteq {"patch"}

\* However the statements interleave, a token's counter never falls below the
\* live devices booked on it: seats may be lost to a race, never given twice.
NeverUndercounted ==
    \A k \in Tokens : Cardinality(LiveVia(k)) =< tok[k].consumed /\ tok[k].consumed =< tok[k].quota

\* Every accepted request is answered: lock waits end, and a deadlock costs one
\* of the requests its answer but not the others.
RequestAnswered == \A p \in Workers : pc[p] # "idle" ~> pc[p] = "idle"

\* "valid_until += window_days": every recorded payment is worth its window.
PaymentsHonoured ==
    \A t \in Tenants : Registered(t) =>
        sub[t].until >= Days(sub[t].window) * (1 + ledger[t])
=============================================================================
