------------------------ MODULE LicensingSerialProofs ------------------------
(***************************************************************************)
(* Machine-checked proofs about LicensingTx with a single worker: nobody    *)
(* else runs between the first read of a request and its commit, so what    *)
(* was read is still what is there, and the statements of each operation    *)
(* add up to its action in Licensing.  The invariant says, statement by     *)
(* statement, what has been established and drafted so far, in terms of     *)
(* the tables as they are.                                                  *)
(***************************************************************************)
EXTENDS LicensingTxProofs

\* There is one worker, or none.
Single == \A p, q \in Workers : p = q

\* The draft of p consists of this row version, or of these two.
One(p, x, v) == Drafted(p) = {x} /\ draft[p][x] = v
Two(p, x, v, y, w) == Drafted(p) = {x, y} /\ draft[p][x] = v /\ draft[p][y] = w

-----------------------------------------------------------------------------
(* What each operation has established by its next statement, for the rows   *)
(* its request names.                                                       *)

Taken(k) == [tok[k] EXCEPT !.consumed = @ + 1]
Renewal(t) == now + Days(sub[t].window)
InStanding(t) == sub[t].paid /\ tenant[t] = "ACTIVE"

\* The booking operations.
Judged(p, t, k) ==
    /\ t \in Tenants /\ Registered(t) /\ TokenOk(t, k)
    /\ req[p].op = "public_activate" => tenant[t] = "ACTIVE"
    /\ seen[p].sub = sub[t]

NewSeat(t, k) == [tenant |-> t, via |-> k, revoked |-> FALSE, until |-> Renewal(t)]
Refreshed(h, t) == [dev[h] EXCEPT !.until = Renewal(t)]
Mine(p, t, h) == Live(h) /\ dev[h].tenant = t /\ req[p].op # "cp_consume_seat"

Booked(p, t, k, h) ==
    LET at == pc[p] IN
    /\ at \in {"lookup", "count", "take", "store", "rotate", "touch", "commit"} => Judged(p, t, k)
    /\ at \in {"count", "take", "store"} => ~Live(h) /\ seen[p].dev = dev[h]
    /\ at \in {"take", "store"} => Cardinality(LiveOf(t)) < sub[t].limit
    /\ at = "store" => tok[k].consumed < tok[k].quota /\ One(p, k, Taken(k))
    /\ at = "rotate" => Mine(p, t, h)
    /\ at = "touch" => Live(h)
    /\ at = "commit" =>
         \/ ~Live(h) /\ SeatFree(t, k) /\ Two(p, k, Taken(k), h, NewSeat(t, k))
         \/ Mine(p, t, h) /\ One(p, h, Refreshed(h, t))
         \/ One(p, h, dev[h])

\* The device operations; k is the token and t the tenant of the device.
Freed(h) == [dev[h] EXCEPT !.revoked = TRUE]
Given(k) == [tok[k] EXCEPT !.consumed = @ - 1]

Released(p, k, h) ==
    /\ pc[p] = "give" => Live(h) /\ seen[p].dev = dev[h] /\ One(p, h, Freed(h))
    /\ pc[p] = "commit" =>
         /\ Live(h)
         /\ \/ ~(tok[k].consumed > 0) /\ One(p, h, Freed(h))
            \/ tok[k].consumed > 0 /\ Two(p, h, Freed(h), k, Given(k))

Back(h, t) ==
    [dev[h] EXCEPT !.revoked = FALSE,
                   !.until = IF InStanding(t) /\ dev[h].until < Renewal(t) THEN Renewal(t) ELSE @]

Reinstated(p, t, k, h) ==
    LET at == pc[p] IN
    /\ at \in {"count", "take", "store", "commit"} =>
         Bound(h) /\ dev[h].revoked /\ seen[p].dev = dev[h]
    /\ at \in {"take", "store", "commit"} =>
         seen[p].sub = sub[t] /\ Cardinality(LiveOf(t)) < sub[t].limit
    /\ at \in {"store", "commit"} => tok[k].consumed < tok[k].quota
    /\ at \in {"count", "take"} => One(p, h, dev[h])
    /\ at = "store" => Two(p, h, dev[h], k, Taken(k))
    /\ at = "commit" => Two(p, h, Back(h, t), k, Taken(k))

Beaten(p, t, h) ==
    /\ pc[p] \in {"beat", "commit"} => Registered(t) /\ Live(h)
    /\ pc[p] = "beat" => seen[p].sub = [sub[t] EXCEPT !.paid = InStanding(t)]
    /\ pc[p] = "commit" =>
         \/ InStanding(t) /\ One(p, h, Refreshed(h, t))
         \/ One(p, h, dev[h])

\* The operators' requests.
Made(p, t) ==
    /\ pc[p] \in {"insert", "commit"} => ~Registered(t)
    /\ pc[p] = "commit" => \E row \in Created : Two(p, t, "ACTIVE", SubOf(t), row)

NewTok(t, q, e) == [owner |-> t, quota |-> q, consumed |-> 0, expires |-> e, revoked |-> FALSE]

TokenMade(p, t, k) ==
    /\ pc[p] \in {"insert", "commit"} => Registered(t)
    /\ pc[p] = "commit" => \E q \in Quotas \ {0}, e \in Expiries : One(p, k, NewTok(t, q, e))

TokenRevoked(p, k) ==
    pc[p] = "commit" => tok[k].owner # None /\ One(p, k, [tok[k] EXCEPT !.revoked = TRUE])

PaidRow(t) == [sub[t] EXCEPT !.until = PaidThrough(t), !.paid = TRUE, !.status = "ACTIVE"]

Paid(p, t) ==
    /\ pc[p] \in {"record", "pay", "commit"} => Registered(t) /\ PaidThrough(t) =< MaxUntil
    /\ pc[p] \in {"record", "pay"} => seen[p].sub.until = PaidThrough(t)
    /\ pc[p] = "commit" => One(p, SubOf(t), PaidRow(t))

NewStatus(op) == IF op = "suspend" THEN "SUSPENDED" ELSE "ACTIVE"
StatusRow(op, t) ==
    IF op = "suspend" THEN [sub[t] EXCEPT !.status = "SUSPENDED", !.paid = FALSE]
    ELSE [sub[t] EXCEPT !.status = "ACTIVE"]

StatusSet(p, op, t) ==
    /\ pc[p] \in {"substatus", "commit"} => Registered(t)
    /\ pc[p] = "substatus" => One(p, t, NewStatus(op))
    /\ pc[p] = "commit" => Two(p, t, NewStatus(op), SubOf(t), StatusRow(op, t))

Deleted(p, t) ==
    pc[p] \in {"cascade_sub", "cascade_dev", "cascade_tok", "commit"} =>
        /\ Registered(t) /\ t \in Drafted(p) /\ draft[p][t] = "NONE"
        /\ \A s \in Tenants :
             /\ s \in Drafted(p) => s = t
             /\ SubOf(s) \in Drafted(p) => s = t /\ draft[p][SubOf(s)] = NoSub

\* The request of p names these rows, its device those.
Serves(p, op, t, k, h) == req[p].op = op /\ req[p].t = t /\ req[p].k = k /\ req[p].h = h
Has(h, t, k) == dev[h].tenant = t /\ dev[h].via = k

Progress(p, op, t, k, h) ==
    /\ op \in {"cp_activate", "public_activate", "cp_consume_seat"} => Booked(p, t, k, h)
    /\ op = "release_seat" => \A s, j : Has(h, s, j) => Released(p, j, h)
    /\ op = "reinstate" => \A s, j : Has(h, s, j) => Reinstated(p, s, j, h)
    /\ op = "heartbeat" => Beaten(p, t, h)
    /\ op = "create" => Made(p, t)
    /\ op = "generate_token" => TokenMade(p, t, k)
    /\ op = "revoke_token" => TokenRevoked(p, k)
    /\ op = "payment" => Paid(p, t)
    /\ op \in {"suspend", "reactivate"} => StatusSet(p, op, t)
    /\ op = "delete" => Deleted(p, t)
    /\ op = "patch" => pc[p] # "commit"
    /\ op = "none" => pc[p] = "idle"

Serial(p) == \A op, t, k, h : Serves(p, op, t, k, h) => Progress(p, op, t, k, h)

SInv == IInv /\ \A p \in Workers : Serial(p)
-----------------------------------------------------------------------------
(* Steps between the first statement and the commit.                        *)

\* What is read off tables that have not changed.
LEMMA TablesStay ==
    ASSUME UNCHANGED vars
    PROVE  /\ now' = now /\ tenant' = tenant /\ sub' = sub /\ tok' = tok /\ dev' = dev
           /\ \A t : (Registered(t)' <=> Registered(t)) /\ (InStanding(t)' <=> InStanding(t))
           /\ \A h : (Bound(h)' <=> Bound(h)) /\ (Live(h)' <=> Live(h))
           /\ \A t : LiveOf(t)' = LiveOf(t)
           /\ \A t, k : (TokenOk(t, k)' <=> TokenOk(t, k)) /\ (SeatFree(t, k)' <=> SeatFree(t, k))
           /\ \A t : PaidThrough(t)' = PaidThrough(t) /\ Renewal(t)' = Renewal(t)
           /\ \A t, k : NewSeat(t, k)' = NewSeat(t, k)
           /\ \A h, t : Refreshed(h, t)' = Refreshed(h, t) /\ Back(h, t)' = Back(h, t)
           /\ \A k : Taken(k)' = Taken(k) /\ Given(k)' = Given(k)
           /\ \A h : Freed(h)' = Freed(h)
           /\ \A t : PaidRow(t)' = PaidRow(t)
           /\ \A op, t : StatusRow(op, t)' = StatusRow(op, t)
           /\ Created' = Created
           /\ \A h, t, k : Has(h, t, k)' <=> Has(h, t, k)
<1>1. now' = now /\ tenant' = tenant /\ sub' = sub /\ tok' = tok /\ dev' = dev
  BY DEF vars
<1>2. /\ \A t : (Registered(t)' <=> Registered(t)) /\ (InStanding(t)' <=> InStanding(t))
      /\ \A h : (Bound(h)' <=> Bound(h)) /\ (Live(h)' <=> Live(h))
      /\ \A h, t, k : Has(h, t, k)' <=> Has(h, t, k)
  BY <1>1 DEF Registered, InStanding, Bound, Live, Has
<1>3. \A t : LiveOf(t)' = LiveOf(t)
  BY <1>1, <1>2 DEF LiveOf
<1>4. \A t, k : (TokenOk(t, k)' <=> TokenOk(t, k)) /\ (SeatFree(t, k)' <=> SeatFree(t, k))
  BY <1>1, <1>3 DEF TokenOk, SeatFree
<1>5. \A t : PaidThrough(t)' = PaidThrough(t) /\ Renewal(t)' = Renewal(t)
  BY <1>1 DEF PaidThrough, Renewal
<1>6. /\ \A t, k : NewSeat(t, k)' = NewSeat(t, k)
      /\ \A h, t : Refreshed(h, t)' = Refreshed(h, t) /\ Back(h, t)' = Back(h, t)
  BY <1>1, <1>2, <1>5 DEF NewSeat, Refreshed, Back
<1>7. /\ \A k : Taken(k)' = Taken(k) /\ Given(k)' = Given(k)
      /\ \A h : Freed(h)' = Freed(h)
      /\ \A t : PaidRow(t)' = PaidRow(t)
      /\ \A op, t : StatusRow(op, t)' = StatusRow(op, t)
  BY <1>1, <1>5 DEF Taken, Given, Freed, PaidRow, StatusRow
<1>8. Created' = Created
  BY <1>1 DEF Created, NewSub
<1> QED
  BY <1>1, <1>2, <1>3, <1>4, <1>5, <1>6, <1>7, <1>8

\* A statement that writes a row, seen from its worker.
LEMMA Writes ==
    ASSUME IInv, NEW p \in Workers, NEW row, NEW value, NEW s, Write(p, row, value, s)
    PROVE  /\ UNCHANGED vars /\ req' = req /\ seen' = seen /\ pc'[p] = s
           /\ ledger' = ledger /\ crashed' = crashed
           /\ Drafted(p)' = Drafted(p) \cup {row} /\ draft'[p][row] = value
           /\ \A x \in Drafted(p) : x # row => draft'[p][x] = draft[p][x]
<1>1. TxTypeOK
  BY DEF IInv
<1>2. Adds(p, row, value, s) /\ seen' = seen
  BY <1>1, WriteAdds
<1>3. UNCHANGED vars /\ ledger' = ledger /\ crashed' = crashed
  BY <1>2 DEF Adds
<1>4. /\ Drafted(p)' = Drafted(p) \cup {row} /\ draft'[p][row] = value
      /\ \A x \in Drafted(p) : x # row => draft'[p][x] = draft[p][x]
      /\ pc'[p] = s /\ req' = req
  BY <1>1, <1>2, AddsFacts
<1> QED
  BY <1>2, <1>3, <1>4

\* A statement that found no row.
LEMMA Skips ==
    ASSUME IInv, NEW p \in Workers, NEW s, Skip(p, s)
    PROVE  /\ UNCHANGED vars /\ req' = req /\ seen' = seen /\ pc'[p] = s
           /\ ledger' = ledger /\ crashed' = crashed
           /\ Drafted(p)' = Drafted(p) /\ draft' = draft
BY ControlTypes DEF IInv, Skip, Then, Drafted

\* A request that ends knows nothing.
LEMMA Ends ==
    ASSUME IInv, NEW p \in Workers, EndRequest(p)
    PROVE  Serial(p)'
<1>1. pc'[p] = "idle" /\ req'[p].op = "none"
  BY ControlTypes DEF IInv, EndRequest, NoReq
<1> QED
  BY <1>1 DEF Serial, Serves, Progress

\* What a worker knows at its next statement, when the tables stay.
LEMMA Progresses ==
    ASSUME NEW p \in Workers, NEW op, NEW t, NEW k, NEW h, Serves(p, op, t, k, h)',
           Progress(p, op, t, k, h)'
    PROVE  Serial(p)'
BY DEF Serial, Serves

-----------------------------------------------------------------------------
(* Booking.                                                                  *)

BookOps == {"cp_activate", "public_activate", "cp_consume_seat"}

\* What the worker of a booking knows at its statement.
LEMMA BookingFacts ==
    ASSUME SInv, NEW p \in Workers, Books(p)
    PROVE  \E op \in BookOps, t \in Tenants \cup {None}, k \in Tokens, h \in HW :
              Serves(p, op, t, k, h) /\ Booked(p, t, k, h)
<1>1. Serves(p, req[p].op, req[p].t, req[p].k, req[p].h)
  BY DEF Serves
<1>2. req[p].op \in BookOps /\ req[p].k \in Tokens /\ req[p].h \in HW
       /\ req[p].t \in Tenants \cup {None}
  BY ReqFacts DEF SInv, IInv, Books, BookOps
<1>3. Progress(p, req[p].op, req[p].t, req[p].k, req[p].h)
  BY <1>1 DEF SInv, Serial
<1>4. Booked(p, req[p].t, req[p].k, req[p].h)
  BY <1>2, <1>3 DEF Progress, BookOps
<1> QED
  BY <1>1, <1>2, <1>4

\* What it must know at the next.
LEMMA BookingGoal ==
    ASSUME NEW p \in Workers, NEW op \in BookOps, NEW t, NEW k, NEW h, Serves(p, op, t, k, h)',
           Booked(p, t, k, h)'
    PROVE  Serial(p)'
<1>1. Progress(p, op, t, k, h)'
  BY DEF Progress, BookOps
<1> QED
  BY <1>1, Progresses

\* A judgement lasts as long as the tables.
LEMMA JudgedStays ==
    ASSUME NEW p, NEW t, NEW k, Judged(p, t, k), UNCHANGED vars,
           req'[p].op = req[p].op, seen'[p].sub = seen[p].sub
    PROVE  Judged(p, t, k)'
BY TablesStay DEF Judged

LEMMA CheckSerial ==
    ASSUME SInv, NEW p \in Workers, Check(p), ~ Leave(p)
    PROVE  Serial(p)'
<1>0. IInv /\ TxTypeOK /\ pc[p] = "check" /\ Local(p)
  BY DEF SInv, IInv, Check, Runs
<1>1. Books(p)
  BY <1>0 DEF Local, OnPath
<1>2. PICK op \in BookOps, k \in Tokens, h \in HW : req[p].op = op /\ req[p].k = k /\ req[p].h = h
  BY <1>1, BookingFacts DEF Serves
<1>3. PICK t : t = (IF req[p].op = "public_activate" THEN tok[req[p].k].owner ELSE req[p].t)
  OBVIOUS
<1>4. /\ t # None /\ Registered(t) /\ TokenOk(t, k)
      /\ op = "public_activate" => tenant[t] = "ACTIVE"
      /\ Then(p, "lookup")
      /\ req' = [req EXCEPT ![p].t = t] /\ seen' = [seen EXCEPT ![p].sub = sub[t]]
  BY <1>2, <1>3 DEF Check
<1>5. t \in Tenants
  <2>1. t \in Tenants \cup {None}
    <3>1. tok[k].owner \in Tenants \cup {None}
      BY <1>0, RowTypes DEF TokRow
    <3> QED
      BY <1>0, <1>2, <1>3, <3>1, ReqFacts
  <2> QED
    BY <1>4, <2>1
<1>6. UNCHANGED vars /\ pc'[p] = "lookup"
  BY <1>0, <1>4, ControlTypes DEF Then
<1>7. req[p] \in Served /\ seen[p] \in Remembered
  BY <1>0, ControlTypes
<1>8. Serves(p, op, t, k, h)' /\ seen'[p].sub = sub[t] /\ req'[p].op = op
  <2>1. req'[p] = [req[p] EXCEPT !.t = t] /\ seen'[p] = [seen[p] EXCEPT !.sub = sub[t]]
    BY <1>0, <1>4, ControlTypes
  <2>2. req[p] = [op |-> req[p].op, t |-> req[p].t, k |-> req[p].k, h |-> req[p].h]
    BY <1>7 DEF Served, Requests, NoReq
  <2> QED
    BY <1>2, <1>7, <2>1, <2>2 DEF Serves, Remembered
<1>9. Judged(p, t, k)'
  BY <1>4, <1>5, <1>6, <1>8, TablesStay DEF Judged
<1>10. Booked(p, t, k, h)'
  BY <1>6, <1>9 DEF Booked
<1> QED
  BY <1>8, <1>10, BookingGoal

LEMMA LookupSerial ==
    ASSUME SInv, NEW p \in Workers, Lookup(p), ~ Leave(p)
    PROVE  Serial(p)'
<1>0. IInv /\ TxTypeOK /\ pc[p] = "lookup" /\ Local(p)
  BY DEF SInv, IInv, Lookup, Runs
<1>1. Books(p)
  BY <1>0 DEF Local, OnPath
<1>2. PICK op \in BookOps, t \in Tenants \cup {None}, k \in Tokens, h \in HW :
        Serves(p, op, t, k, h) /\ Booked(p, t, k, h)
  BY <1>1, BookingFacts
<1>3. /\ Live(h) => op = "cp_consume_seat" \/ dev[h].tenant = t
      /\ Then(p, IF ~Live(h) THEN "count" ELSE IF op = "cp_consume_seat" THEN "touch" ELSE "rotate")
      /\ seen' = [seen EXCEPT ![p].dev = dev[h]] /\ req' = req
  BY <1>2 DEF Lookup, Serves
<1>4. /\ UNCHANGED vars
      /\ pc'[p] = IF ~Live(h) THEN "count" ELSE IF op = "cp_consume_seat" THEN "touch" ELSE "rotate"
  BY <1>0, <1>3, ControlTypes DEF Then
<1>5. dev[h] \in DevRow
  BY <1>0, RowTypes
<1>6. seen'[p].dev = dev[h] /\ seen'[p].sub = seen[p].sub
  BY <1>0, <1>3, <1>5, SeesDev
<1>7. Serves(p, op, t, k, h)' /\ req'[p].op = req[p].op
  BY <1>2, <1>3 DEF Serves
<1>8. Judged(p, t, k)'
  BY <1>0, <1>2, <1>4, <1>6, <1>7, JudgedStays DEF Booked
<1>9. Live(h) /\ op # "cp_consume_seat" => Mine(p, t, h)'
  BY <1>2, <1>3, <1>4, <1>7, TablesStay DEF Mine, Serves
<1>10. Booked(p, t, k, h)'
  BY <1>4, <1>6, <1>8, <1>9, TablesStay DEF Booked
<1> QED
  BY <1>7, <1>10, BookingGoal

\* The same for a reinstatement.
LEMMA ReinstatingFacts ==
    ASSUME SInv, NEW p \in Workers, req[p].op = "reinstate",
           pc[p] \in {"count", "take", "store", "commit"}
    PROVE  \E t \in Tenants, k \in Tokens, h \in HW :
              req[p].h = h /\ Has(h, t, k) /\ Reinstated(p, t, k, h)
<1>1. PICK h \in HW : h = req[p].h
  BY ReqFacts DEF SInv, IInv
<1>2. PICK t, k : Has(h, t, k)
  BY DEF Has
<1>3. Progress(p, "reinstate", req[p].t, req[p].k, h)
  BY <1>1 DEF SInv, Serial, Serves
<1>4. Reinstated(p, t, k, h)
  BY <1>2, <1>3 DEF Progress
<1>5. Bound(h)
  BY <1>4 DEF Reinstated
<1>6. t \in Tenants /\ k \in Tokens
  BY <1>2, <1>5, BoundFacts DEF SInv, Has
<1> QED
  BY <1>1, <1>2, <1>4, <1>6

LEMMA ReinstatingGoal ==
    ASSUME NEW p \in Workers, NEW t, NEW k, NEW h, req'[p].op = "reinstate", req'[p].h = h,
           Has(h, t, k)', Reinstated(p, t, k, h)'
    PROVE  Serial(p)'
<1>1. PICK s, j : Serves(p, "reinstate", s, j, h)'
  BY DEF Serves
<1>2. Progress(p, "reinstate", s, j, h)'
  BY DEF Progress, Has
<1> QED
  BY <1>1, <1>2, Progresses

LEMMA CountSerial ==
    ASSUME SInv, NEW p \in Workers, Count(p), ~ Leave(p)
    PROVE  Serial(p)'
<1>0. IInv /\ TxTypeOK /\ pc[p] = "count" /\ Local(p)
  BY DEF SInv, IInv, Count, Runs
<1>1. CASE Books(p)
  <2>1. PICK op \in BookOps, t \in Tenants \cup {None}, k \in Tokens, h \in HW :
          Serves(p, op, t, k, h) /\ Booked(p, t, k, h)
    BY <1>1, BookingFacts
  <2>2. Judged(p, t, k) /\ ~Live(h) /\ seen[p].dev = dev[h]
    BY <1>0, <2>1 DEF Booked
  <2>3. /\ Cardinality(LiveOf(t)) < sub[t].limit /\ Then(p, "take")
        /\ seen' = [seen EXCEPT ![p].sub = sub[t]] /\ req' = req
    <3>1. PICK s : s = (IF req[p].op = "reinstate" THEN seen[p].dev.tenant ELSE req[p].t)
      OBVIOUS
    <3>2. s = t /\ req[p].op # "reinstate" /\ seen[p].sub = sub[t]
      BY <2>1, <2>2, <3>1 DEF Serves, BookOps, Judged
    <3> QED
      BY <3>1, <3>2 DEF Count
  <2>4. UNCHANGED vars /\ pc'[p] = "take"
    BY <1>0, <2>3, ControlTypes DEF Then
  <2>5. sub[t] \in SubRow
    BY <1>0, <2>2, RowTypes DEF Judged
  <2>6. seen'[p].sub = sub[t] /\ seen'[p].dev = seen[p].dev
    BY <1>0, <2>3, <2>5, SeesSub
  <2>7. Serves(p, op, t, k, h)' /\ req'[p].op = req[p].op /\ seen'[p].sub = seen[p].sub
    BY <2>1, <2>2, <2>3, <2>6 DEF Serves, Judged
  <2>8. Judged(p, t, k)'
    BY <2>2, <2>4, <2>7, JudgedStays
  <2>9. Booked(p, t, k, h)'
    BY <2>2, <2>3, <2>4, <2>6, <2>8, TablesStay DEF Booked
  <2> QED
    BY <2>7, <2>9, BookingGoal
<1>2. CASE req[p].op = "reinstate"
  <2>1. PICK t \in Tenants, k \in Tokens, h \in HW :
          req[p].h = h /\ Has(h, t, k) /\ Reinstated(p, t, k, h)
    BY <1>0, <1>2, ReinstatingFacts
  <2>2. Bound(h) /\ dev[h].revoked /\ seen[p].dev = dev[h] /\ One(p, h, dev[h])
    BY <1>0, <2>1 DEF Reinstated
  <2>3. /\ Cardinality(LiveOf(t)) < sub[t].limit /\ Then(p, "take")
        /\ seen' = [seen EXCEPT ![p].sub = sub[t]] /\ req' = req /\ draft' = draft
    <3>1. PICK s : s = (IF req[p].op = "reinstate" THEN seen[p].dev.tenant ELSE req[p].t)
      OBVIOUS
    <3>2. s = t
      BY <1>2, <2>1, <2>2, <3>1 DEF Has
    <3> QED
      BY <1>2, <3>1, <3>2 DEF Count
  <2>4. UNCHANGED vars /\ pc'[p] = "take"
    BY <1>0, <2>3, ControlTypes DEF Then
  <2>5. sub[t] \in SubRow
    BY <1>0, RowTypes
  <2>6. seen'[p].sub = sub[t] /\ seen'[p].dev = seen[p].dev
    BY <1>0, <2>3, <2>5, SeesSub
  <2>7. One(p, h, dev[h])'
    BY <2>2, <2>3, <2>4, TablesStay DEF One, Drafted
  <2>8. Reinstated(p, t, k, h)' /\ Has(h, t, k)'
    BY <2>1, <2>2, <2>3, <2>4, <2>6, <2>7, TablesStay DEF Reinstated
  <2> QED
    BY <1>2, <2>1, <2>3, <2>8, ReinstatingGoal
<1> QED
  BY <1>0, <1>1, <1>2 DEF Local, OnPath

LEMMA TakeSerial ==
    ASSUME SInv, NEW p \in Workers, Take(p), ~ Leave(p)
    PROVE  Serial(p)'
<1>0. IInv /\ TxTypeOK /\ pc[p] = "take" /\ Local(p)
  BY DEF SInv, IInv, Take, Runs
<1>w. PICK k \in Wanted(p) : Write(p, k, Taken(k), "store")
  BY DEF Take, Taken
<1>v. PICK v : v = Taken(k)
  OBVIOUS
<1>a. /\ UNCHANGED vars /\ req' = req /\ seen' = seen /\ pc'[p] = "store"
      /\ Drafted(p)' = Drafted(p) \cup {k} /\ draft'[p][k] = Taken(k)
      /\ \A x \in Drafted(p) : x # k => draft'[p][x] = draft[p][x]
  BY <1>0, <1>w, <1>v, Writes
<1>b. /\ k = (IF req[p].op \in {"release_seat", "reinstate"} THEN seen[p].dev.via ELSE req[p].k)
      /\ k \in Tokens /\ tok[k].consumed < tok[k].quota
  BY <1>0, <1>w DEF Wanted
<1>1. CASE Books(p)
  <2>1. PICK op \in BookOps, t \in Tenants \cup {None}, j \in Tokens, h \in HW :
          Serves(p, op, t, j, h) /\ Booked(p, t, j, h)
    BY <1>1, BookingFacts
  <2>2. j = k
    BY <1>b, <2>1 DEF Serves, BookOps
  <2>3. /\ Judged(p, t, k) /\ ~Live(h) /\ seen[p].dev = dev[h]
        /\ Cardinality(LiveOf(t)) < sub[t].limit
    BY <1>0, <2>1, <2>2 DEF Booked
  <2>4. Drafted(p) = {}
    BY <1>0, <1>1 DEF Local, NothingYet
  <2>5. Serves(p, op, t, k, h)' /\ req'[p].op = req[p].op
    BY <1>a, <2>1, <2>2 DEF Serves
  <2>6. Judged(p, t, k)'
    BY <1>a, <2>3, <2>5, JudgedStays
  <2>7. One(p, k, Taken(k))'
    BY <1>a, <2>4, TablesStay DEF One
  <2>8. Booked(p, t, k, h)'
    BY <1>a, <1>b, <2>3, <2>6, <2>7, TablesStay DEF Booked
  <2> QED
    BY <2>5, <2>8, BookingGoal
<1>2. CASE req[p].op = "reinstate"
  <2>1. PICK t \in Tenants, j \in Tokens, h \in HW :
          req[p].h = h /\ Has(h, t, j) /\ Reinstated(p, t, j, h)
    BY <1>0, <1>2, ReinstatingFacts
  <2>2. /\ Bound(h) /\ dev[h].revoked /\ seen[p].dev = dev[h] /\ One(p, h, dev[h])
        /\ seen[p].sub = sub[t] /\ Cardinality(LiveOf(t)) < sub[t].limit
    BY <1>0, <2>1 DEF Reinstated
  <2>3. j = k
    BY <1>2, <1>b, <2>1, <2>2 DEF Has
  <2>4. Two(p, h, dev[h], k, Taken(k))'
    BY <1>a, <1>b, <2>2, RowNames, TablesStay DEF One, Two
  <2>5. Reinstated(p, t, k, h)' /\ Has(h, t, k)'
    BY <1>a, <1>b, <2>1, <2>2, <2>3, <2>4, TablesStay DEF Reinstated
  <2> QED
    BY <1>2, <1>a, <2>1, <2>5, ReinstatingGoal
<1> QED
  BY <1>0, <1>1, <1>2 DEF Local, OnPath

\* Nobody has touched the row since it was read: what was found decides rightly
\* between INSERT and UPDATE, and the tenant is still there.
LEMMA StoreSerial ==
    ASSUME SInv, NEW p \in Workers, Store(p)
    PROVE  Serial(p)' /\ crashed' = crashed
<1>0. IInv /\ TxTypeOK /\ pc[p] = "store" /\ Local(p) /\ req[p].op # "reinstate"
  BY DEF SInv, IInv, Store, Runs
<1>1. Books(p)
  BY <1>0 DEF Local, OnPath
<1>2. PICK op \in BookOps, t \in Tenants \cup {None}, k \in Tokens, h \in HW :
        Serves(p, op, t, k, h) /\ Booked(p, t, k, h)
  BY <1>1, BookingFacts
<1>3. /\ Judged(p, t, k) /\ ~Live(h) /\ seen[p].dev = dev[h]
      /\ Cardinality(LiveOf(t)) < sub[t].limit
      /\ tok[k].consumed < tok[k].quota /\ One(p, k, Taken(k))
  BY <1>0, <1>2 DEF Booked
<1>4. Bound(h) <=> seen[p].dev # NoDev
  <2>1. ~Bound(h) => dev[h] = NoDev
    BY <1>0 DEF IInv, ReferencesIntact
  <2>2. dev[h] = NoDev => ~Bound(h)
    BY DEF Bound, NoDev
  <2> QED
    BY <1>3, <2>1, <2>2
<1>5. Write(p, h, NewSeat(t, k), "commit")
  <2>1. NewRow(p) = NewSeat(t, k)
    BY <1>2, <1>3 DEF NewRow, NewSeat, Renewal, Judged, Serves
  <2>2. Registered(t)
    BY <1>3 DEF Judged
  <2>3. Write(p, h, NewRow(p), "commit")
    BY <1>2, <1>4, <2>2 DEF Store, Serves
  <2> QED
    BY <2>1, <2>3
<1>v. PICK v : v = NewSeat(t, k)
  OBVIOUS
<1>a. /\ UNCHANGED vars /\ req' = req /\ seen' = seen /\ pc'[p] = "commit" /\ crashed' = crashed
      /\ Drafted(p)' = Drafted(p) \cup {h} /\ draft'[p][h] = NewSeat(t, k)
      /\ \A x \in Drafted(p) : x # h => draft'[p][x] = draft[p][x]
  BY <1>0, <1>5, <1>v, Writes
<1>6. Serves(p, op, t, k, h)' /\ req'[p].op = req[p].op
  BY <1>a, <1>2 DEF Serves
<1>7. Judged(p, t, k)'
  BY <1>a, <1>3, <1>6, JudgedStays
<1>8. Two(p, k, Taken(k), h, NewSeat(t, k))'
  BY <1>a, <1>3, RowNames, TablesStay DEF One, Two
<1>9. SeatFree(t, k)' /\ ~Live(h)'
  BY <1>a, <1>3, TablesStay DEF SeatFree
<1>10. Booked(p, t, k, h)'
  BY <1>a, <1>7, <1>8, <1>9 DEF Booked
<1> QED
  BY <1>a, <1>6, <1>10, BookingGoal

LEMMA RotateKeySerial ==
    ASSUME SInv, NEW p \in Workers, RotateKey(p)
    PROVE  Serial(p)' /\ crashed' = crashed
<1>0. IInv /\ TxTypeOK /\ pc[p] = "rotate" /\ Local(p)
  BY DEF SInv, IInv, RotateKey, Runs
<1>1. Books(p) /\ Drafted(p) = {}
  BY <1>0 DEF Local, OnPath, NothingYet
<1>2. PICK op \in BookOps, t \in Tenants \cup {None}, k \in Tokens, h \in HW :
        Serves(p, op, t, k, h) /\ Booked(p, t, k, h)
  BY <1>1, BookingFacts
<1>3. Judged(p, t, k) /\ Mine(p, t, h)
  BY <1>0, <1>2 DEF Booked
<1>4. Write(p, h, Refreshed(h, t), "commit")
  BY <1>2, <1>3 DEF RotateKey, Refreshed, Renewal, Judged, Mine, Live, Serves
<1>v. PICK v : v = Refreshed(h, t)
  OBVIOUS
<1>a. /\ UNCHANGED vars /\ req' = req /\ seen' = seen /\ pc'[p] = "commit" /\ crashed' = crashed
      /\ Drafted(p)' = Drafted(p) \cup {h} /\ draft'[p][h] = Refreshed(h, t)
  BY <1>0, <1>4, <1>v, Writes
<1>6. Serves(p, op, t, k, h)' /\ req'[p].op = req[p].op
  BY <1>a, <1>2 DEF Serves
<1>7. Judged(p, t, k)'
  BY <1>a, <1>3, <1>6, JudgedStays
<1>8. One(p, h, Refreshed(h, t))' /\ Mine(p, t, h)'
  BY <1>a, <1>1, <1>3, TablesStay DEF One, Mine
<1>9. Booked(p, t, k, h)'
  BY <1>a, <1>7, <1>8 DEF Booked
<1> QED
  BY <1>a, <1>6, <1>9, BookingGoal

LEMMA TouchSerial ==
    ASSUME SInv, NEW p \in Workers, Touch(p)
    PROVE  Serial(p)'
<1>0. IInv /\ TxTypeOK /\ pc[p] = "touch" /\ Local(p)
  BY DEF SInv, IInv, Touch, Runs
<1>1. Books(p) /\ Drafted(p) = {}
  BY <1>0 DEF Local, OnPath, NothingYet
<1>2. PICK op \in BookOps, t \in Tenants \cup {None}, k \in Tokens, h \in HW :
        Serves(p, op, t, k, h) /\ Booked(p, t, k, h)
  BY <1>1, BookingFacts
<1>3. Judged(p, t, k) /\ Live(h)
  BY <1>0, <1>2 DEF Booked
<1>4. Write(p, h, dev[h], "commit")
  BY <1>2, <1>3 DEF Touch, Live, Serves
<1>v. PICK v : v = dev[h]
  OBVIOUS
<1>a. /\ UNCHANGED vars /\ req' = req /\ seen' = seen /\ pc'[p] = "commit"
      /\ Drafted(p)' = Drafted(p) \cup {h} /\ draft'[p][h] = dev[h]
  BY <1>0, <1>4, <1>v, Writes
<1>6. Serves(p, op, t, k, h)' /\ req'[p].op = req[p].op
  BY <1>a, <1>2 DEF Serves
<1>7. Judged(p, t, k)'
  BY <1>a, <1>3, <1>6, JudgedStays
<1>8. One(p, h, dev[h])'
  BY <1>a, <1>1, TablesStay DEF One
<1>9. Booked(p, t, k, h)'
  BY <1>a, <1>7, <1>8 DEF Booked
<1> QED
  BY <1>6, <1>9, BookingGoal

-----------------------------------------------------------------------------
(* Device operations.                                                        *)

\* The same for a release.
LEMMA ReleasingGoal ==
    ASSUME NEW p \in Workers, NEW t, NEW k, NEW h, req'[p].op = "release_seat", req'[p].h = h,
           Has(h, t, k)', Released(p, k, h)'
    PROVE  Serial(p)'
<1>1. PICK s, j : Serves(p, "release_seat", s, j, h)'
  BY DEF Serves
<1>2. Progress(p, "release_seat", s, j, h)'
  BY DEF Progress, Has
<1> QED
  BY <1>1, <1>2, Progresses

LEMMA RevokeSerial ==
    ASSUME SInv, NEW p \in Workers, Revoke(p), ~ Leave(p)
    PROVE  Serial(p)'
<1>0. IInv /\ TxTypeOK /\ pc[p] = "revoke" /\ Local(p)
  BY DEF SInv, IInv, Revoke, Runs
<1>1. req[p].op = "release_seat" /\ Drafted(p) = {}
  BY <1>0 DEF Local, OnPath, NothingYet
<1>2. PICK h \in HW : h = req[p].h
  BY <1>0, <1>1, ReqFacts
<1>3. PICK t, k : Has(h, t, k)
  BY DEF Has
<1>4. /\ Live(h) /\ Then(p, "give") /\ req' = req
      /\ draft' = [draft EXCEPT ![p] = With(draft[p], h, Freed(h))]
      /\ seen' = [seen EXCEPT ![p].dev = dev[h]]
  BY <1>2 DEF Revoke, Freed
<1>5. UNCHANGED vars /\ pc'[p] = "give"
  BY <1>0, <1>4, ControlTypes DEF Then
<1>6. dev[h] \in DevRow
  BY <1>0, RowTypes
<1>7. seen'[p].dev = dev[h]
  BY <1>0, <1>4, <1>6, SeesDev
<1>8. Drafted(p)' = {h} /\ draft'[p][h] = Freed(h)
  <2>1. draft'[p] = With(draft[p], h, Freed(h))
    BY <1>0, <1>4, ControlTypes
  <2> QED
    BY <1>1, <2>1 DEF Drafted, With
<1>9. One(p, h, Freed(h))'
  BY <1>5, <1>8, TablesStay DEF One
<1>10. Released(p, k, h)' /\ Has(h, t, k)'
  BY <1>3, <1>4, <1>5, <1>7, <1>9, TablesStay DEF Released
<1> QED
  BY <1>1, <1>2, <1>4, <1>10, ReleasingGoal

LEMMA GiveSerial ==
    ASSUME SInv, NEW p \in Workers, Give(p)
    PROVE  Serial(p)'
<1>0. IInv /\ TxTypeOK /\ pc[p] = "give" /\ Local(p)
  BY DEF SInv, IInv, Give, Runs
<1>1. req[p].op = "release_seat"
  BY <1>0 DEF Local, OnPath
<1>2. PICK h \in HW : h = req[p].h
  BY <1>0, <1>1, ReqFacts
<1>3. PICK t, k : Has(h, t, k)
  BY DEF Has
<1>4. Released(p, k, h)
  <2>1. Progress(p, "release_seat", req[p].t, req[p].k, h)
    BY <1>1, <1>2 DEF SInv, Serial, Serves
  <2> QED
    BY <1>3, <2>1 DEF Progress
<1>5. Live(h) /\ seen[p].dev = dev[h] /\ One(p, h, Freed(h))
  BY <1>0, <1>4 DEF Released
<1>6. k \in Tokens /\ seen[p].dev.via = k
  BY <1>0, <1>3, <1>5, BoundFacts DEF Has, Live
<1>7. Wanted(p) = IF tok[k].consumed > 0 THEN {k} ELSE {}
  BY <1>0, <1>1, <1>6 DEF Wanted
<1>8. CASE ~(tok[k].consumed > 0) /\ Skip(p, "commit")
  <2>1. /\ UNCHANGED vars /\ req' = req /\ pc'[p] = "commit"
        /\ Drafted(p)' = Drafted(p) /\ draft' = draft
    BY <1>0, <1>8, Skips
  <2>2. One(p, h, Freed(h))'
    BY <1>5, <2>1, TablesStay DEF One
  <2>3. Released(p, k, h)' /\ Has(h, t, k)'
    BY <1>3, <1>5, <1>8, <2>1, <2>2, TablesStay DEF Released
  <2> QED
    BY <1>1, <1>2, <2>1, <2>3, ReleasingGoal
<1>9. CASE tok[k].consumed > 0 /\ Write(p, k, Given(k), "commit")
  <2>v. PICK v : v = Given(k)
    OBVIOUS
  <2>1. /\ UNCHANGED vars /\ req' = req /\ pc'[p] = "commit"
        /\ Drafted(p)' = Drafted(p) \cup {k} /\ draft'[p][k] = Given(k)
        /\ \A x \in Drafted(p) : x # k => draft'[p][x] = draft[p][x]
    BY <1>0, <1>9, <2>v, Writes
  <2>2. Two(p, h, Freed(h), k, Given(k))'
    BY <1>5, <1>6, <2>1, RowNames, TablesStay DEF One, Two
  <2>3. Released(p, k, h)' /\ Has(h, t, k)'
    BY <1>3, <1>5, <1>9, <2>1, <2>2, TablesStay DEF Released
  <2> QED
    BY <1>1, <1>2, <2>1, <2>3, ReleasingGoal
<1>10. CASE tok[k].consumed > 0
  <2>1. Wanted(p) = {k} /\ Wanted(p) # {}
    BY <1>7, <1>10
  <2>2. \E j \in Wanted(p) : Write(p, j, Given(j), "commit")
    BY <2>1 DEF Give, Given
  <2> QED
    BY <1>9, <1>10, <2>1, <2>2
<1>11. CASE ~(tok[k].consumed > 0)
  BY <1>7, <1>8, <1>11 DEF Give
<1> QED
  BY <1>10, <1>11

LEMMA LockDeviceSerial ==
    ASSUME SInv, NEW p \in Workers, LockDevice(p), ~ Leave(p)
    PROVE  Serial(p)'
<1>0. IInv /\ TxTypeOK /\ pc[p] = "lock" /\ Local(p)
  BY DEF SInv, IInv, LockDevice, Runs
<1>1. req[p].op = "reinstate" /\ Drafted(p) = {}
  BY <1>0 DEF Local, OnPath, NothingYet
<1>2. PICK h \in HW : h = req[p].h
  BY <1>0, <1>1, ReqFacts
<1>3. PICK t, k : Has(h, t, k)
  BY DEF Has
<1>v. PICK v : v = dev[h]
  OBVIOUS
<1>4. /\ Bound(h) /\ dev[h].revoked /\ Then(p, "count") /\ req' = req
      /\ draft' = [draft EXCEPT ![p] = With(draft[p], h, v)]
      /\ seen' = [seen EXCEPT ![p].dev = dev[h]]
  BY <1>2, <1>v DEF LockDevice
<1>5. UNCHANGED vars /\ pc'[p] = "count"
  BY <1>0, <1>4, ControlTypes DEF Then
<1>6. dev[h] \in DevRow
  BY <1>0, RowTypes
<1>7. seen'[p].dev = dev[h]
  BY <1>0, <1>4, <1>6, SeesDev
<1>8. Drafted(p)' = {h} /\ draft'[p][h] = v
  <2>1. draft'[p] = With(draft[p], h, v)
    BY <1>0, <1>4, ControlTypes
  <2> QED
    BY <1>1, <2>1 DEF Drafted, With
<1>9. One(p, h, dev[h])'
  BY <1>v, <1>5, <1>8, TablesStay DEF One
<1>10. Reinstated(p, t, k, h)' /\ Has(h, t, k)'
  BY <1>3, <1>4, <1>5, <1>7, <1>9, TablesStay DEF Reinstated
<1> QED
  BY <1>1, <1>2, <1>4, <1>10, ReinstatingGoal

LEMMA StoreReinstatedSerial ==
    ASSUME SInv, NEW p \in Workers, StoreReinstated(p)
    PROVE  Serial(p)'
<1>0. IInv /\ TxTypeOK /\ pc[p] = "store" /\ Local(p) /\ req[p].op = "reinstate"
  BY DEF SInv, IInv, StoreReinstated, Runs
<1>1. PICK t \in Tenants, k \in Tokens, h \in HW :
        req[p].h = h /\ Has(h, t, k) /\ Reinstated(p, t, k, h)
  BY <1>0, ReinstatingFacts
<1>2. /\ Bound(h) /\ dev[h].revoked /\ seen[p].dev = dev[h]
      /\ seen[p].sub = sub[t] /\ Cardinality(LiveOf(t)) < sub[t].limit
      /\ tok[k].consumed < tok[k].quota /\ Two(p, h, dev[h], k, Taken(k))
  BY <1>0, <1>1 DEF Reinstated
<1>v. PICK v : v = Back(h, t)
  OBVIOUS
<1>3. Write(p, h, v, "commit")
  BY <1>v, <1>1, <1>2 DEF StoreReinstated, Back, Renewal, InStanding, Has
<1>a. /\ UNCHANGED vars /\ req' = req /\ seen' = seen /\ pc'[p] = "commit"
      /\ Drafted(p)' = Drafted(p) \cup {h} /\ draft'[p][h] = v
      /\ \A x \in Drafted(p) : x # h => draft'[p][x] = draft[p][x]
  BY <1>0, <1>3, Writes
<1>4. Two(p, h, Back(h, t), k, Taken(k))'
  BY <1>v, <1>a, <1>2, RowNames, TablesStay DEF Two
<1>5. Reinstated(p, t, k, h)' /\ Has(h, t, k)'
  BY <1>a, <1>1, <1>2, <1>4, TablesStay DEF Reinstated
<1> QED
  BY <1>0, <1>a, <1>1, <1>5, ReinstatingGoal

\* The same for a heartbeat.
LEMMA BeatingGoal ==
    ASSUME NEW p \in Workers, NEW t, NEW h, req'[p].op = "heartbeat", req'[p].t = t,
           req'[p].h = h, Beaten(p, t, h)'
    PROVE  Serial(p)'
<1>1. PICK k : Serves(p, "heartbeat", t, k, h)'
  BY DEF Serves
<1>2. Progress(p, "heartbeat", t, k, h)'
  BY DEF Progress
<1> QED
  BY <1>1, <1>2, Progresses

LEMMA ListenSerial ==
    ASSUME SInv, NEW p \in Workers, Listen(p), ~ Leave(p)
    PROVE  Serial(p)'
<1>0. IInv /\ TxTypeOK /\ pc[p] = "heartbeat" /\ Local(p)
  BY DEF SInv, IInv, Listen, Runs
<1>1. req[p].op = "heartbeat"
  BY <1>0 DEF Local, OnPath
<1>2. PICK t \in Tenants, h \in HW : t = req[p].t /\ h = req[p].h
  BY <1>0, <1>1, ReqFacts
<1>v. PICK v : v = [sub[t] EXCEPT !.paid = InStanding(t)]
  OBVIOUS
<1>3. /\ Registered(t) /\ Live(h) /\ Then(p, "beat") /\ req' = req
      /\ seen' = [seen EXCEPT ![p].sub = v]
  BY <1>2, <1>v DEF Listen, InStanding
<1>4. UNCHANGED vars /\ pc'[p] = "beat"
  BY <1>0, <1>3, ControlTypes DEF Then
<1>5. v \in SubRow
  <2>1. sub[t] \in SubRow /\ InStanding(t) \in BOOLEAN
    BY <1>0, RowTypes DEF InStanding
  <2> QED
    BY <1>v, <2>1 DEF SubRow
<1>6. seen'[p].sub = v
  BY <1>0, <1>3, <1>5, SeesSub
<1>7. Beaten(p, t, h)'
  BY <1>v, <1>3, <1>4, <1>6, TablesStay DEF Beaten, InStanding
<1> QED
  BY <1>1, <1>2, <1>3, <1>7, BeatingGoal

LEMMA BeatSerial ==
    ASSUME SInv, NEW p \in Workers, Beat(p)
    PROVE  Serial(p)'
<1>0. IInv /\ TxTypeOK /\ pc[p] = "beat" /\ Local(p)
  BY DEF SInv, IInv, Beat, Runs
<1>1. req[p].op = "heartbeat" /\ Drafted(p) = {}
  BY <1>0 DEF Local, OnPath, NothingYet
<1>2. PICK t \in Tenants, h \in HW : t = req[p].t /\ h = req[p].h
  BY <1>0, <1>1, ReqFacts
<1>3. Beaten(p, t, h)
  <2>1. Progress(p, "heartbeat", t, req[p].k, h)
    BY <1>1, <1>2 DEF SInv, Serial, Serves
  <2> QED
    BY <2>1 DEF Progress
<1>4. Registered(t) /\ Live(h) /\ seen[p].sub = [sub[t] EXCEPT !.paid = InStanding(t)]
  BY <1>0, <1>3 DEF Beaten
<1>5. seen[p].sub.window = sub[t].window /\ (seen[p].sub.paid <=> InStanding(t))
  <2>1. sub[t] \in SubRow
    BY <1>0, RowTypes
  <2> QED
    BY <1>4, <2>1 DEF SubRow
<1>v. PICK v : v = IF InStanding(t) THEN Refreshed(h, t) ELSE dev[h]
  OBVIOUS
<1>6. Write(p, h, v, "commit")
  <2>1. v = IF seen[p].sub.paid THEN [dev[h] EXCEPT !.until = now + Days(seen[p].sub.window)]
            ELSE dev[h]
    BY <1>v, <1>5 DEF Refreshed, Renewal
  <2>2. Bound(h)
    BY <1>4 DEF Live
  <2> QED
    BY <1>2, <2>1, <2>2 DEF Beat
<1>a. /\ UNCHANGED vars /\ req' = req /\ pc'[p] = "commit"
      /\ Drafted(p)' = Drafted(p) \cup {h} /\ draft'[p][h] = v
  BY <1>0, <1>6, Writes
<1>7. (InStanding(t) /\ One(p, h, Refreshed(h, t)))' \/ One(p, h, dev[h])'
  BY <1>v, <1>a, <1>1, TablesStay DEF One
<1>8. Beaten(p, t, h)'
  BY <1>a, <1>4, <1>7, TablesStay DEF Beaten
<1> QED
  BY <1>a, <1>1, <1>2, <1>8, BeatingGoal

-----------------------------------------------------------------------------
(* The operators' requests.                                                  *)

\* What the worker of an operator's request knows at its statement.
LEMMA OperatingFacts ==
    ASSUME SInv, NEW p \in Workers
    PROVE  /\ req[p].op = "create" => Made(p, req[p].t)
           /\ req[p].op = "generate_token" => TokenMade(p, req[p].t, req[p].k)
           /\ req[p].op = "revoke_token" => TokenRevoked(p, req[p].k)
           /\ req[p].op = "payment" => Paid(p, req[p].t)
           /\ req[p].op \in {"suspend", "reactivate"} => StatusSet(p, req[p].op, req[p].t)
           /\ req[p].op = "delete" => Deleted(p, req[p].t)
           /\ req[p].op = "patch" => pc[p] # "commit"
<1>1. Progress(p, req[p].op, req[p].t, req[p].k, req[p].h)
  BY DEF SInv, Serial, Serves
<1> QED
  BY <1>1 DEF Progress

\* What it must know at the next.
LEMMA OperatingGoal ==
    ASSUME NEW p \in Workers, NEW op, NEW t, NEW k,
           req'[p].op = op, req'[p].t = t, req'[p].k = k,
           \/ op = "create" /\ Made(p, t)'
           \/ op = "generate_token" /\ TokenMade(p, t, k)'
           \/ op = "revoke_token" /\ TokenRevoked(p, k)'
           \/ op = "payment" /\ Paid(p, t)'
           \/ op \in {"suspend", "reactivate"} /\ StatusSet(p, op, t)'
           \/ op = "delete" /\ Deleted(p, t)'
           \/ op = "patch" /\ pc'[p] # "commit"
    PROVE  Serial(p)'
<1>1. PICK h : Serves(p, op, t, k, h)'
  BY DEF Serves
<1>2. Progress(p, op, t, k, h)'
  BY DEF Progress
<1> QED
  BY <1>1, <1>2, Progresses

LEMMA CreateSerial ==
    ASSUME SInv, NEW p \in Workers, Create(p), ~ Leave(p)
    PROVE  Serial(p)'
<1>0. IInv /\ pc[p] = "create" /\ Local(p)
  BY DEF SInv, IInv, Create, Runs
<1>1. req[p].op = "create"
  BY <1>0 DEF Local, OnPath
<1>2. PICK t, k : t = req[p].t /\ k = req[p].k
  OBVIOUS
<1>3. ~Registered(t) /\ Skip(p, "insert")
  BY <1>2 DEF Create
<1>4. UNCHANGED vars /\ req' = req /\ pc'[p] = "insert"
  BY <1>0, <1>3, Skips
<1>5. Made(p, t)'
  BY <1>3, <1>4, TablesStay DEF Made
<1> QED
  BY <1>1, <1>2, <1>4, <1>5, OperatingGoal

\* The slug is still free.
LEMMA InsertTenantSerial ==
    ASSUME SInv, NEW p \in Workers, InsertTenant(p)
    PROVE  Serial(p)' /\ crashed' = crashed
<1>0. IInv /\ TxTypeOK /\ pc[p] = "insert" /\ req[p].op = "create"
  BY DEF SInv, IInv, InsertTenant, Runs
<1>2. PICK t \in Tenants : t = req[p].t
  BY <1>0, ReqFacts
<1>k. PICK k : k = req[p].k
  OBVIOUS
<1>3. ~Registered(t)
  BY <1>0, <1>2, OperatingFacts DEF Made
<1>4. PICK row \in Created :
        draft' = [draft EXCEPT ![p] = With(With(Empty, SubOf(t), row), t, "ACTIVE")]
  BY <1>2, <1>3 DEF InsertTenant, Created
<1>5. Then(p, "commit") /\ req' = req
  BY <1>2, <1>3 DEF InsertTenant
<1>6. UNCHANGED vars /\ pc'[p] = "commit" /\ crashed' = crashed
  BY <1>0, <1>5, ControlTypes DEF Then
<1>7. /\ Drafted(p)' = {t, SubOf(t)}
      /\ draft'[p][t] = "ACTIVE" /\ draft'[p][SubOf(t)] = row
  <2>1. draft'[p] = With(With(Empty, SubOf(t), row), t, "ACTIVE")
    BY <1>0, <1>4, ControlTypes
  <2>2. SubOf(t) # t
    BY RowNames
  <2>3. With(Empty, SubOf(t), row) = [x \in {SubOf(t)} |-> row]
    BY DEF With, Empty
  <2> QED
    BY <2>1, <2>2, <2>3 DEF Drafted, With
<1>8. Two(p, t, "ACTIVE", SubOf(t), row)' /\ row \in Created'
  BY <1>6, <1>7, TablesStay DEF Two, SubOf
<1>9. Made(p, t)'
  BY <1>3, <1>6, <1>8, TablesStay DEF Made, SubOf
<1> QED
  BY <1>0, <1>2, <1>k, <1>5, <1>6, <1>9, OperatingGoal

LEMMA GenerateTokenSerial ==
    ASSUME SInv, NEW p \in Workers, GenerateToken(p), ~ Leave(p)
    PROVE  Serial(p)'
<1>0. IInv /\ pc[p] = "generate_token" /\ Local(p)
  BY DEF SInv, IInv, GenerateToken, Runs
<1>1. req[p].op = "generate_token"
  BY <1>0 DEF Local, OnPath
<1>2. PICK t, k : t = req[p].t /\ k = req[p].k
  OBVIOUS
<1>3. Registered(t) /\ Skip(p, "insert")
  BY <1>2 DEF GenerateToken
<1>4. UNCHANGED vars /\ req' = req /\ pc'[p] = "insert"
  BY <1>0, <1>3, Skips
<1>5. TokenMade(p, t, k)'
  BY <1>3, <1>4, TablesStay DEF TokenMade
<1> QED
  BY <1>1, <1>2, <1>4, <1>5, OperatingGoal

\* The subscription is still there.
LEMMA InsertTokenSerial ==
    ASSUME SInv, NEW p \in Workers, InsertToken(p)
    PROVE  Serial(p)' /\ crashed' = crashed
<1>0. IInv /\ pc[p] = "insert" /\ req[p].op = "generate_token" /\ Local(p)
  BY DEF SInv, IInv, InsertToken, Runs
<1>1. Drafted(p) = {}
  BY <1>0 DEF Local, NothingYet
<1>2. PICK t, k : t = req[p].t /\ k = req[p].k
  OBVIOUS
<1>3. Registered(t)
  BY <1>0, <1>2, OperatingFacts DEF TokenMade
<1>4. PICK q \in Quotas \ {0}, e \in Expiries : Write(p, k, NewTok(t, q, e), "commit")
  BY <1>2, <1>3 DEF InsertToken, NewTok
<1>v. PICK v : v = NewTok(t, q, e)
  OBVIOUS
<1>a. /\ UNCHANGED vars /\ req' = req /\ pc'[p] = "commit" /\ crashed' = crashed
      /\ Drafted(p)' = Drafted(p) \cup {k} /\ draft'[p][k] = v
  BY <1>0, <1>4, <1>v, Writes
<1>5. One(p, k, NewTok(t, q, e))'
  BY <1>a, <1>v, <1>1 DEF One, NewTok
<1>6. TokenMade(p, t, k)'
  BY <1>a, <1>3, <1>5, TablesStay DEF TokenMade
<1> QED
  BY <1>0, <1>2, <1>a, <1>6, OperatingGoal

LEMMA RevokeTokenSerial ==
    ASSUME SInv, NEW p \in Workers, RevokeToken(p), ~ Leave(p)
    PROVE  Serial(p)'
<1>0. IInv /\ pc[p] = "revoke_token" /\ Local(p)
  BY DEF SInv, IInv, RevokeToken, Runs
<1>1. req[p].op = "revoke_token" /\ Drafted(p) = {}
  BY <1>0 DEF Local, OnPath, NothingYet
<1>2. PICK t, k : t = req[p].t /\ k = req[p].k
  OBVIOUS
<1>v. PICK v : v = [tok[k] EXCEPT !.revoked = TRUE]
  OBVIOUS
<1>3. tok[k].owner # None /\ Write(p, k, v, "commit")
  BY <1>2, <1>v DEF RevokeToken
<1>a. /\ UNCHANGED vars /\ req' = req /\ pc'[p] = "commit"
      /\ Drafted(p)' = Drafted(p) \cup {k} /\ draft'[p][k] = v
  BY <1>0, <1>3, Writes
<1>4. TokenRevoked(p, k)'
  BY <1>a, <1>v, <1>1, <1>3, TablesStay DEF TokenRevoked, One
<1> QED
  BY <1>1, <1>2, <1>a, <1>4, OperatingGoal

LEMMA ReadPaidSerial ==
    ASSUME SInv, NEW p \in Workers, ReadPaid(p), ~ Leave(p)
    PROVE  Serial(p)'
<1>0. IInv /\ TxTypeOK /\ pc[p] = "payment" /\ Local(p)
  BY DEF SInv, IInv, ReadPaid, Runs
<1>1. req[p].op = "payment"
  BY <1>0 DEF Local, OnPath
<1>2. PICK t \in Tenants : t = req[p].t
  BY <1>0, <1>1, ReqFacts
<1>k. PICK k : k = req[p].k
  OBVIOUS
<1>v. PICK v : v = [sub[t] EXCEPT !.until = PaidThrough(t)]
  OBVIOUS
<1>3. /\ Registered(t) /\ PaidThrough(t) =< MaxUntil /\ Then(p, "record") /\ req' = req
      /\ seen' = [seen EXCEPT ![p].sub = v]
  BY <1>2, <1>v DEF ReadPaid
<1>4. UNCHANGED vars /\ pc'[p] = "record"
  BY <1>0, <1>3, ControlTypes DEF Then
<1>5. v \in SubRow /\ v.until = PaidThrough(t)
  <2>1. sub[t] \in SubRow /\ now \in Nat
    BY <1>0, RowTypes DEF TxTypeOK, TypeOK
  <2>2. sub[t].until \in Nat /\ Days(sub[t].window) \in Nat
    BY <2>1, DaysNat DEF SubRow
  <2>3. PaidThrough(t) \in Nat
    BY <2>1, <2>2 DEF PaidThrough
  <2> QED
    BY <1>v, <2>1, <2>3 DEF SubRow
<1>6. seen'[p].sub = v
  BY <1>0, <1>3, <1>5, SeesSub
<1>7. Paid(p, t)'
  BY <1>3, <1>4, <1>5, <1>6, TablesStay DEF Paid
<1> QED
  BY <1>1, <1>2, <1>k, <1>3, <1>7, OperatingGoal

\* The subscription is still there for its payment to refer to.
LEMMA InsertPaymentSerial ==
    ASSUME SInv, NEW p \in Workers, InsertPayment(p)
    PROVE  Serial(p)' /\ crashed' = crashed /\ UNCHANGED <<vars, ledger>>
<1>0. IInv /\ TxTypeOK /\ pc[p] = "record" /\ Local(p)
  BY DEF SInv, IInv, InsertPayment, Runs
<1>1. req[p].op = "payment"
  BY <1>0 DEF Local, OnPath
<1>2. PICK t, k : t = req[p].t /\ k = req[p].k
  OBVIOUS
<1>3. Registered(t) /\ PaidThrough(t) =< MaxUntil /\ seen[p].sub.until = PaidThrough(t)
  BY <1>0, <1>1, <1>2, OperatingFacts DEF Paid
<1>4. Then(p, "pay") /\ UNCHANGED <<req, seen>>
  BY <1>2, <1>3 DEF InsertPayment
<1>5. UNCHANGED <<vars, ledger, crashed>> /\ pc'[p] = "pay"
  BY <1>0, <1>4, ControlTypes DEF Then
<1>6. UNCHANGED vars
  BY <1>5
<1>7. Paid(p, t)'
  BY <1>3, <1>4, <1>5, <1>6, TablesStay DEF Paid
<1> QED
  BY <1>1, <1>2, <1>4, <1>5, <1>7, OperatingGoal

\* The deadline that was computed is still one window more.
LEMMA PaySerial ==
    ASSUME SInv, NEW p \in Workers, Pay(p)
    PROVE  Serial(p)' /\ crashed' = crashed
<1>0. IInv /\ pc[p] = "pay" /\ Local(p)
  BY DEF SInv, IInv, Pay, Runs
<1>1. req[p].op = "payment" /\ Drafted(p) = {}
  BY <1>0 DEF Local, OnPath, NothingYet
<1>2. PICK t, k : t = req[p].t /\ k = req[p].k
  OBVIOUS
<1>3. Registered(t) /\ PaidThrough(t) =< MaxUntil /\ seen[p].sub.until = PaidThrough(t)
  BY <1>0, <1>1, <1>2, OperatingFacts DEF Paid
<1>v. PICK v : v = PaidRow(t)
  OBVIOUS
<1>4. Write(p, SubOf(t), v, "commit")
  BY <1>2, <1>3, <1>v DEF Pay, PaidRow
<1>x. PICK x : x = SubOf(t)
  OBVIOUS
<1>a. /\ UNCHANGED vars /\ req' = req /\ pc'[p] = "commit" /\ crashed' = crashed
      /\ Drafted(p)' = Drafted(p) \cup {x} /\ draft'[p][x] = v
  BY <1>0, <1>4, <1>x, Writes
<1>5. One(p, SubOf(t), PaidRow(t))'
  BY <1>a, <1>v, <1>x, <1>1, TablesStay DEF One, SubOf
<1>6. Paid(p, t)'
  BY <1>a, <1>3, <1>5, TablesStay DEF Paid
<1> QED
  BY <1>1, <1>2, <1>a, <1>6, OperatingGoal

LEMMA SetStatusSerial ==
    ASSUME SInv, NEW p \in Workers, SetStatus(p), ~ Leave(p)
    PROVE  Serial(p)'
<1>0. IInv /\ pc[p] = "status" /\ Local(p)
  BY DEF SInv, IInv, SetStatus, Runs
<1>1. req[p].op \in {"suspend", "reactivate"} /\ Drafted(p) = {}
  BY <1>0 DEF Local, OnPath, NothingYet
<1>2. PICK op, t, k : op = req[p].op /\ t = req[p].t /\ k = req[p].k
  OBVIOUS
<1>v. PICK v : v = NewStatus(op)
  OBVIOUS
<1>3. Registered(t) /\ Write(p, t, v, "substatus")
  BY <1>2, <1>v DEF SetStatus, NewStatus
<1>a. /\ UNCHANGED vars /\ req' = req /\ pc'[p] = "substatus"
      /\ Drafted(p)' = Drafted(p) \cup {t} /\ draft'[p][t] = v
  BY <1>0, <1>3, Writes
<1>4. StatusSet(p, op, t)'
  BY <1>a, <1>v, <1>1, <1>3, TablesStay DEF StatusSet, One, NewStatus
<1> QED
  BY <1>1, <1>2, <1>a, <1>4, OperatingGoal

LEMMA SetSubStatusSerial ==
    ASSUME SInv, NEW p \in Workers, SetSubStatus(p)
    PROVE  Serial(p)'
<1>0. IInv /\ TxTypeOK /\ pc[p] = "substatus" /\ Local(p)
  BY DEF SInv, IInv, SetSubStatus, Runs
<1>1. req[p].op \in {"suspend", "reactivate"}
  BY <1>0 DEF Local, OnPath
<1>t. PICK t \in Tenants : t = req[p].t
  BY <1>0, <1>1, ReqFacts
<1>2. PICK op, k : op = req[p].op /\ t = req[p].t /\ k = req[p].k
  BY <1>t
<1>3. Registered(t) /\ One(p, t, NewStatus(op))
  BY <1>0, <1>1, <1>2, OperatingFacts DEF StatusSet
<1>v. PICK v : v = StatusRow(op, t)
  OBVIOUS
<1>4. Write(p, SubOf(t), v, "commit")
  BY <1>2, <1>v DEF SetSubStatus, StatusRow
<1>x. PICK x : x = SubOf(t)
  OBVIOUS
<1>a. /\ UNCHANGED vars /\ req' = req /\ pc'[p] = "commit"
      /\ Drafted(p)' = Drafted(p) \cup {x} /\ draft'[p][x] = v
      /\ \A y \in Drafted(p) : y # x => draft'[p][y] = draft[p][y]
  BY <1>0, <1>4, <1>x, Writes
<1>5. Two(p, t, NewStatus(op), SubOf(t), StatusRow(op, t))'
  BY <1>a, <1>v, <1>x, <1>3, RowNames, TablesStay DEF One, Two, SubOf, NewStatus
<1>6. StatusSet(p, op, t)'
  BY <1>a, <1>3, <1>5, TablesStay DEF StatusSet, NewStatus
<1> QED
  BY <1>1, <1>2, <1>a, <1>6, OperatingGoal

\* A subscription PATCH goes on to its audit row.
LEMMA PatchSerial ==
    ASSUME SInv, NEW p \in Workers, Patch(p), ~ Leave(p)
    PROVE  Serial(p)'
<1>0. IInv /\ pc[p] = "patch" /\ Local(p)
  BY DEF SInv, IInv, Patch, Runs
<1>1. req[p].op = "patch"
  BY <1>0 DEF Local, OnPath
<1>2. PICK t, k : t = req[p].t /\ k = req[p].k
  OBVIOUS
<1>3. PICK n \in SeatLimits : Write(p, SubOf(t), [sub[t] EXCEPT !.limit = n], "audit")
  BY <1>2 DEF Patch
<1>v. PICK v, x : v = [sub[t] EXCEPT !.limit = n] /\ x = SubOf(t)
  OBVIOUS
<1>4. req' = req /\ pc'[p] = "audit"
  BY <1>0, <1>3, <1>v, Writes
<1> QED
  BY <1>1, <1>2, <1>4, OperatingGoal

\* The draft of a delete, by the tenants it is about.
LEMMA DeletingStays ==
    ASSUME SInv, NEW p \in Workers, NEW t \in Tenants, NEW row, Deleted(p, t),
           pc[p] \in {"cascade_sub", "cascade_dev", "cascade_tok"},
           UNCHANGED vars, Drafted(p)' = Drafted(p) \cup {row},
           row \notin Tenants,
           \A s \in Tenants : row = SubOf(s) => s = t /\ draft'[p][row] = NoSub,
           \A x \in Drafted(p) : x # row => draft'[p][x] = draft[p][x]
    PROVE  Deleted(p, t)'
<1>1. /\ Registered(t) /\ t \in Drafted(p) /\ draft[p][t] = "NONE"
      /\ \A s \in Tenants :
           /\ s \in Drafted(p) => s = t
           /\ SubOf(s) \in Drafted(p) => s = t /\ draft[p][SubOf(s)] = NoSub
  BY DEF Deleted
<1>2. \A s \in Tenants : row # s
  OBVIOUS
<1>3. Registered(t)' /\ t \in Drafted(p)' /\ draft'[p][t] = "NONE"
  BY <1>1, <1>2, TablesStay
<1>4. ASSUME NEW s \in Tenants, SubOf(s) \in Drafted(p)'
      PROVE  s = t /\ draft'[p][SubOf(s)] = NoSub
  <2>1. CASE SubOf(s) = row
    BY <2>1
  <2>2. CASE SubOf(s) # row
    BY <1>1, <1>4, <2>2
  <2> QED
    BY <2>1, <2>2
<1>5. \A s \in Tenants : s \in Drafted(p)' => s = t
  BY <1>1, <1>2
<1>6. /\ Registered(t)' /\ t \in Drafted(p)' /\ draft'[p][t] = "NONE"
      /\ \A s \in Tenants :
           /\ s \in Drafted(p)' => s = t
           /\ SubOf(s) \in Drafted(p)' => s = t /\ draft'[p][SubOf(s)] = NoSub
  BY <1>3, <1>4, <1>5
<1> QED
  BY <1>6 DEF Deleted, SubOf

\* The same when nothing more is drafted.
LEMMA DeletingSkips ==
    ASSUME NEW p \in Workers, NEW t \in Tenants, Deleted(p, t),
           pc[p] \in {"cascade_sub", "cascade_dev", "cascade_tok"},
           UNCHANGED vars, Drafted(p)' = Drafted(p), draft' = draft
    PROVE  Deleted(p, t)'
<1>1. /\ Registered(t) /\ t \in Drafted(p) /\ draft[p][t] = "NONE"
      /\ \A s \in Tenants :
           /\ s \in Drafted(p) => s = t
           /\ SubOf(s) \in Drafted(p) => s = t /\ draft[p][SubOf(s)] = NoSub
  BY DEF Deleted
<1>2. /\ Registered(t)' /\ t \in Drafted(p)' /\ draft'[p][t] = "NONE"
      /\ \A s \in Tenants :
           /\ s \in Drafted(p)' => s = t
           /\ SubOf(s) \in Drafted(p)' => s = t /\ draft'[p][SubOf(s)] = NoSub
  BY <1>1, TablesStay
<1> QED
  BY <1>2 DEF Deleted, SubOf

LEMMA DeleteSerial ==
    ASSUME SInv, NEW p \in Workers, Delete(p), ~ Leave(p)
    PROVE  Serial(p)'
<1>0. IInv /\ TxTypeOK /\ pc[p] = "delete" /\ Local(p)
  BY DEF SInv, IInv, Delete, Runs
<1>1. req[p].op = "delete" /\ Drafted(p) = {}
  BY <1>0 DEF Local, OnPath, NothingYet
<1>2. PICK t \in Tenants : t = req[p].t
  BY <1>0, <1>1, ReqFacts
<1>k. PICK k : k = req[p].k
  OBVIOUS
<1>v. PICK v : v = "NONE"
  OBVIOUS
<1>3. Registered(t) /\ Write(p, t, v, "cascade_sub")
  BY <1>2, <1>v DEF Delete
<1>a. /\ UNCHANGED vars /\ req' = req /\ pc'[p] = "cascade_sub"
      /\ Drafted(p)' = Drafted(p) \cup {t} /\ draft'[p][t] = v
  BY <1>0, <1>3, Writes
<1>4. \A s \in Tenants : SubOf(s) # t
  BY RowNames
<1>5. /\ Registered(t)' /\ t \in Drafted(p)' /\ draft'[p][t] = "NONE"
      /\ \A s \in Tenants :
           /\ s \in Drafted(p)' => s = t
           /\ SubOf(s) \in Drafted(p)' => s = t /\ draft'[p][SubOf(s)] = NoSub
  BY <1>a, <1>v, <1>1, <1>3, <1>4, TablesStay
<1>6. Deleted(p, t)'
  BY <1>5 DEF Deleted, SubOf
<1> QED
  BY <1>1, <1>2, <1>k, <1>a, <1>6, OperatingGoal

LEMMA CascadeSubSerial ==
    ASSUME SInv, NEW p \in Workers, CascadeSub(p)
    PROVE  Serial(p)'
<1>0. IInv /\ TxTypeOK /\ pc[p] = "cascade_sub" /\ Local(p)
  BY DEF SInv, IInv, CascadeSub, Runs
<1>1. req[p].op = "delete"
  BY <1>0 DEF Local, OnPath
<1>2. PICK t \in Tenants : t = req[p].t
  BY <1>0, <1>1, ReqFacts
<1>k. PICK k : k = req[p].k
  OBVIOUS
<1>3. Deleted(p, t)
  BY <1>1, <1>2, OperatingFacts
<1>v. PICK v, x : v = NoSub /\ x = SubOf(t)
  OBVIOUS
<1>4. Write(p, x, v, "cascade_dev")
  BY <1>2, <1>v DEF CascadeSub
<1>a. /\ UNCHANGED vars /\ req' = req /\ pc'[p] = "cascade_dev"
      /\ Drafted(p)' = Drafted(p) \cup {x} /\ draft'[p][x] = v
      /\ \A y \in Drafted(p) : y # x => draft'[p][y] = draft[p][y]
  BY <1>0, <1>4, Writes
<1>b. x \notin Tenants /\ \A s \in Tenants : x = SubOf(s) => s = t
  BY <1>v, RowNames
<1>5. Deleted(p, t)'
  BY <1>a, <1>b, <1>v, <1>0, <1>3, DeletingStays
<1> QED
  BY <1>1, <1>2, <1>k, <1>a, <1>5, OperatingGoal

LEMMA CascadeDevSerial ==
    ASSUME SInv, NEW p \in Workers, CascadeDev(p)
    PROVE  Serial(p)'
<1>0. IInv /\ TxTypeOK /\ pc[p] = "cascade_dev" /\ Local(p)
  BY DEF SInv, IInv, CascadeDev, Runs
<1>1. req[p].op = "delete"
  BY <1>0 DEF Local, OnPath
<1>2. PICK t \in Tenants : t = req[p].t
  BY <1>0, <1>1, ReqFacts
<1>k. PICK k : k = req[p].k
  OBVIOUS
<1>3. Deleted(p, t)
  BY <1>1, <1>2, OperatingFacts
<1>v. PICK v : v = NoDev
  OBVIOUS
<1>4. ASSUME NEW h \in HW, Write(p, h, v, "cascade_dev") PROVE Serial(p)'
  <2>a. /\ UNCHANGED vars /\ req' = req
        /\ Drafted(p)' = Drafted(p) \cup {h}
        /\ \A y \in Drafted(p) : y # h => draft'[p][y] = draft[p][y]
    BY <1>0, <1>4, Writes
  <2>b. h \notin Tenants /\ \A s \in Tenants : h # SubOf(s)
    BY RowNames
  <2>1. Deleted(p, t)'
    BY <2>a, <2>b, <1>0, <1>3, DeletingStays
  <2> QED
    BY <1>1, <1>2, <1>k, <2>a, <2>1, OperatingGoal
<1>5. ASSUME Skip(p, "cascade_tok") PROVE Serial(p)'
  <2>a. UNCHANGED vars /\ req' = req /\ Drafted(p)' = Drafted(p) /\ draft' = draft
    BY <1>0, <1>5, Skips
  <2>1. Deleted(p, t)'
    BY <2>a, <1>0, <1>3, DeletingSkips
  <2> QED
    BY <1>1, <1>2, <1>k, <2>a, <2>1, OperatingGoal
<1>6. Free(p) \subseteq HW
  BY <1>0 DEF Free, Wanted
<1> QED
  BY <1>v, <1>4, <1>5, <1>6 DEF CascadeDev

\* No device is left on the tokens: the devices of the tenant are gone, and no
\* other is booked on them.
LEMMA CascadeTokSerial ==
    ASSUME SInv, NEW p \in Workers, CascadeTok(p)
    PROVE  Serial(p)' /\ crashed' = crashed
<1>0. IInv /\ TxTypeOK /\ pc[p] = "cascade_tok" /\ Local(p) /\ Draft(p)
  BY DEF SInv, IInv, CascadeTok, Runs
<1>1. req[p].op = "delete" /\ Deletes(p)
  BY <1>0 DEF Local, OnPath, Deletes
<1>2. PICK t \in Tenants : t = req[p].t
  BY <1>0, <1>1, ReqFacts
<1>k. PICK k : k = req[p].k
  OBVIOUS
<1>3. Deleted(p, t)
  BY <1>1, <1>2, OperatingFacts
<1>v. PICK v : v = NoTok
  OBVIOUS
<1>4. ASSUME NEW j \in Tokens, Write(p, j, v, "cascade_tok")
      PROVE  Serial(p)' /\ crashed' = crashed
  <2>a. /\ UNCHANGED vars /\ req' = req /\ crashed' = crashed
        /\ Drafted(p)' = Drafted(p) \cup {j}
        /\ \A y \in Drafted(p) : y # j => draft'[p][y] = draft[p][y]
    BY <1>0, <1>4, Writes
  <2>b. j \notin Tenants /\ \A s \in Tenants : j # SubOf(s)
    BY RowNames
  <2>1. Deleted(p, t)'
    BY <2>a, <2>b, <1>0, <1>3, DeletingStays
  <2> QED
    BY <1>1, <1>2, <1>k, <2>a, <2>1, OperatingGoal
<1>5. ASSUME Skip(p, "commit") PROVE Serial(p)' /\ crashed' = crashed
  <2>a. /\ UNCHANGED vars /\ req' = req /\ Drafted(p)' = Drafted(p) /\ draft' = draft
        /\ crashed' = crashed
    BY <1>0, <1>5, Skips
  <2>1. Deleted(p, t)'
    BY <2>a, <1>0, <1>3, DeletingSkips
  <2> QED
    BY <1>1, <1>2, <1>k, <2>a, <2>1, OperatingGoal
<1>6. ASSUME NEW h \in HW \ Drafted(p) PROVE dev[h].via \notin Tokens \cap Drafted(p)
  <2> SUFFICES ASSUME dev[h].via \in Tokens \cap Drafted(p) PROVE FALSE
    OBVIOUS
  <2>1. PICK j \in Tokens : j = dev[h].via /\ j \in Drafted(p)
    OBVIOUS
  <2>2. tok[j].owner = t
    BY <1>0, <1>1, <1>2, <2>1 DEF Draft, TokenDraft
  <2>3. Bound(h)
    <3>1. ~Bound(h) => dev[h] = NoDev
      BY <1>0 DEF IInv, ReferencesIntact
    <3>2. j # None
      BY NoneAssumption
    <3> QED
      BY <2>1, <3>1, <3>2 DEF NoDev
  <2>4. dev[h].tenant = t
    BY <1>0, <2>1, <2>2, <2>3 DEF IInv, ReferencesIntact
  <2> QED
    BY <1>0, <1>1, <1>2, <2>4 DEF Local, Deleting
<1>7. Free(p) \subseteq Tokens
  BY <1>0 DEF Free, Wanted
<1>8. {h \in HW \ DOMAIN draft[p] : dev[h].via \in Tokens \cap DOMAIN draft[p]} = {}
  BY <1>6 DEF Drafted
<1> QED
  BY <1>v, <1>4, <1>5, <1>7, <1>8 DEF CascadeTok

-----------------------------------------------------------------------------
(* Every step of a worker that is alone.                                     *)

\* A request begins at its first statement.
LEMMA BeginSerial ==
    ASSUME SInv, NEW p \in Workers, Begin(p)
    PROVE  Serial(p)'
<1>0. IInv /\ TxTypeOK
  BY DEF SInv, IInv
<1>1. PICK r \in Requests :
        req' = [req EXCEPT ![p] = r] /\ pc' = [pc EXCEPT ![p] = FirstStatement(r.op)]
  BY DEF Begin
<1>2. req'[p] = r /\ pc'[p] = FirstStatement(r.op)
  BY <1>0, <1>1, ControlTypes
<1>3. PICK op, at : op = r.op /\ at = FirstStatement(op)
  OBVIOUS
<1>4. op \in {"cp_activate", "cp_consume_seat", "public_activate", "heartbeat", "release_seat",
             "reinstate", "payment", "patch", "suspend", "reactivate", "delete", "create",
             "generate_token", "revoke_token"}
  BY <1>3 DEF Requests
<1>5. /\ op \in BookOps => at = "check"
      /\ op = "release_seat" => at = "revoke"
      /\ op = "reinstate" => at = "lock"
      /\ op \in {"suspend", "reactivate"} => at = "status"
      /\ op \in {"heartbeat", "payment", "patch", "delete", "create", "generate_token",
                 "revoke_token"} => at = op
  BY <1>3 DEF FirstStatement, BookOps
<1>6. ASSUME NEW t, NEW k, NEW h PROVE Progress(p, op, t, k, h)'
  <2>1. pc'[p] = at
    BY <1>2, <1>3
  <2>2. op \in BookOps => Booked(p, t, k, h)'
    BY <1>5, <2>1 DEF Booked
  <2>3. op = "release_seat" => \A j : Released(p, j, h)'
    BY <1>5, <2>1 DEF Released
  <2>4. op = "reinstate" => \A s, j : Reinstated(p, s, j, h)'
    BY <1>5, <2>1 DEF Reinstated
  <2>5. op = "heartbeat" => Beaten(p, t, h)'
    BY <1>5, <2>1 DEF Beaten
  <2>6. op = "create" => Made(p, t)'
    BY <1>5, <2>1 DEF Made
  <2>7. op = "generate_token" => TokenMade(p, t, k)'
    BY <1>5, <2>1 DEF TokenMade
  <2>8. op = "revoke_token" => TokenRevoked(p, k)'
    BY <1>5, <2>1 DEF TokenRevoked
  <2>9. op = "payment" => Paid(p, t)'
    BY <1>5, <2>1 DEF Paid
  <2>10. op \in {"suspend", "reactivate"} => StatusSet(p, op, t)'
    BY <1>5, <2>1 DEF StatusSet
  <2>11. op = "delete" => Deleted(p, t)'
    BY <1>5, <2>1 DEF Deleted
  <2>12. op = "patch" => pc'[p] # "commit"
    BY <1>5, <2>1
  <2>13. op # "none"
    BY <1>4
  <2> QED
    BY <2>2, <2>3, <2>4, <2>5, <2>6, <2>7, <2>8, <2>9, <2>10, <2>11, <2>12, <2>13
       DEF Progress, BookOps
<1>7. PICK t, k, h : Serves(p, op, t, k, h)'
  BY <1>2, <1>3 DEF Serves
<1> QED
  BY <1>6, <1>7, Progresses

\* Nobody waits for himself.
LEMMA NoWaiting == ASSUME Single, NEW p \in Workers PROVE ~ AbortDeadlock(p)
<1>1. Workers \ {p} = {}
  BY DEF Single
<1>2. \A row : Holders(p, row) = {}
  BY <1>1 DEF Holders
<1>3. WaitsFor(p) = {}
  <2>1. \A row \in Wanted(p) : Holders(p, row) = {}
    BY <1>2
  <2>2. UNION {Holders(p, row) : row \in Wanted(p)} = {}
    BY <1>2
  <2>3. {q \in Workers \ {p} : Deletes(q) /\ Referred(p) \cap DOMAIN draft[q] # {}} = {}
    BY <1>1
  <2> QED
    BY <2>2, <2>3 DEF WaitsFor
<1> QED
  BY <1>3 DEF AbortDeadlock, Deadlocked

Statement(p) == Begin(p) \/ BookingStep(p) \/ DeviceStep(p) \/ OperatorStep(p)

\* Before the commit, the tables and the ledger are as they were, and only the
\* audit row of a PATCH makes a request fail.
LEMMA StatementKeeps ==
    ASSUME SInv, NEW p \in Workers, Statement(p)
    PROVE  UNCHANGED <<vars, ledger>> /\ crashed' \subseteq crashed \cup {"patch"}
<1> USE DEF Then, Skip, Write, Leave
<1>1. CASE Begin(p)
  BY <1>1 DEF Begin
<1>2. CASE BookingStep(p)
  <2>1. CASE Check(p) \/ Lookup(p) \/ Count(p)
    BY <2>1 DEF Check, Lookup, Count
  <2>2. CASE Take(p) \/ Touch(p)
    BY <2>2 DEF Take, Touch
  <2>3. CASE Store(p) \/ RotateKey(p)
    <3>1. crashed' = crashed
      BY <2>3, StoreSerial, RotateKeySerial
    <3>2. UNCHANGED <<vars, ledger>>
      BY <2>3 DEF Store, RotateKey, Crash
    <3> QED
      BY <3>1, <3>2
  <2> QED
    BY <1>2, <2>1, <2>2, <2>3 DEF BookingStep
<1>3. CASE DeviceStep(p)
  <2>1. CASE Revoke(p) \/ LockDevice(p) \/ Listen(p)
    BY <2>1 DEF Revoke, LockDevice, Listen
  <2>2. CASE Give(p) \/ StoreReinstated(p) \/ Beat(p)
    BY <2>2 DEF Give, StoreReinstated, Beat
  <2> QED
    BY <1>3, <2>1, <2>2 DEF DeviceStep
<1>4. CASE OperatorStep(p)
  <2>1. CASE Create(p) \/ GenerateToken(p) \/ RevokeToken(p) \/ ReadPaid(p)
    BY <2>1 DEF Create, GenerateToken, RevokeToken, ReadPaid
  <2>2. CASE SetStatus(p) \/ SetSubStatus(p) \/ Patch(p) \/ Delete(p)
    BY <2>2 DEF SetStatus, SetSubStatus, Patch, Delete
  <2>3. CASE CascadeSub(p) \/ CascadeDev(p)
    BY <2>3 DEF CascadeSub, CascadeDev
  <2>4. CASE InsertTenant(p) \/ InsertToken(p) \/ Pay(p) \/ CascadeTok(p)
    <3>1. crashed' = crashed
      BY <2>4, InsertTenantSerial, InsertTokenSerial, PaySerial, CascadeTokSerial
    <3>2. UNCHANGED <<vars, ledger>>
      BY <2>4 DEF InsertTenant, InsertToken, Pay, CascadeTok, Crash
    <3> QED
      BY <3>1, <3>2
  <2>5. CASE AuditPatch(p)
    <3>1. req[p].op = "patch"
      BY <2>5 DEF AuditPatch, Runs, SInv, IInv, Local, OnPath
    <3> QED
      BY <2>5, <3>1 DEF AuditPatch, Crash
  <2>6. CASE InsertPayment(p)
    BY <2>6, InsertPaymentSerial
  <2> QED
    BY <1>4, <2>1, <2>2, <2>3, <2>4, <2>5, <2>6 DEF OperatorStep
<1> QED
  BY <1>1, <1>2, <1>3, <1>4 DEF Statement

\* Every statement leads to what its worker must know at the next.
LEMMA StatementSerial ==
    ASSUME SInv, NEW p \in Workers, Statement(p) \/ Commit(p)
    PROVE  Serial(p)'
<1>0. IInv
  BY DEF SInv
<1>1. CASE Leave(p) \/ Crash(p) \/ Commit(p)
  BY <1>0, <1>1, Ends DEF Leave, Crash, Commit
<1>2. CASE Begin(p)
  BY <1>2, BeginSerial
<1>3. CASE BookingStep(p)
  BY <1>1, <1>3, CheckSerial, LookupSerial, CountSerial, TakeSerial, StoreSerial,
     RotateKeySerial, TouchSerial DEF BookingStep
<1>4. CASE DeviceStep(p)
  BY <1>1, <1>4, RevokeSerial, GiveSerial, LockDeviceSerial, StoreReinstatedSerial,
     ListenSerial, BeatSerial DEF DeviceStep
<1>5. CASE OperatorStep(p)
  <2>1. AuditPatch(p) => Crash(p)
    BY DEF AuditPatch
  <2> QED
    BY <1>1, <1>5, <2>1, CreateSerial, InsertTenantSerial, GenerateTokenSerial,
       InsertTokenSerial, RevokeTokenSerial, ReadPaidSerial, InsertPaymentSerial, PaySerial,
       SetStatusSerial, SetSubStatusSerial, PatchSerial, DeleteSerial, CascadeSubSerial, CascadeDevSerial,
       CascadeTokSerial DEF OperatorStep
<1> QED
  BY <1>1, <1>2, <1>3, <1>4, <1>5 DEF Statement

\* A step that changes nothing.
LEMMA StutterSerial ==
    ASSUME NEW p \in Workers, Serial(p), UNCHANGED txVars
    PROVE  Serial(p)'
<1> USE DEF txVars
<1>1. PICK op, t, k, h : Serves(p, op, t, k, h)
  BY DEF Serves
<1>2. Progress(p, op, t, k, h) /\ Serves(p, op, t, k, h)'
  BY <1>1 DEF Serial, Serves
<1>3. /\ \A x, v : One(p, x, v)' <=> One(p, x, v)
      /\ \A x, v, y, w : Two(p, x, v, y, w)' <=> Two(p, x, v, y, w)
      /\ Drafted(p)' = Drafted(p)
  BY DEF One, Two, Drafted
<1>4. \A s, j : Judged(p, s, j)' <=> Judged(p, s, j)
  BY TablesStay DEF Judged
<1>5. \A s, j : Mine(p, s, j)' <=> Mine(p, s, j)
  BY TablesStay DEF Mine
<1>6. Booked(p, t, k, h) => Booked(p, t, k, h)'
  BY <1>3, <1>4, <1>5, TablesStay DEF Booked
<1>7. \A j : Released(p, j, h) => Released(p, j, h)'
  BY <1>3, TablesStay DEF Released
<1>8. \A s, j : Reinstated(p, s, j, h) => Reinstated(p, s, j, h)'
  BY <1>3, TablesStay DEF Reinstated
<1>9. Beaten(p, t, h) => Beaten(p, t, h)'
  BY <1>3, TablesStay DEF Beaten, InStanding
<1>10. Made(p, t) => Made(p, t)'
  BY <1>3, TablesStay DEF Made, SubOf
<1>11. TokenMade(p, t, k) => TokenMade(p, t, k)'
  BY <1>3, TablesStay DEF TokenMade, NewTok
<1>12. TokenRevoked(p, k) => TokenRevoked(p, k)'
  BY <1>3, TablesStay DEF TokenRevoked
<1>13. Paid(p, t) => Paid(p, t)'
  BY <1>3, TablesStay DEF Paid, SubOf
<1>14. StatusSet(p, op, t) => StatusSet(p, op, t)'
  BY <1>3, TablesStay DEF StatusSet, SubOf, NewStatus
<1>15. Deleted(p, t) => Deleted(p, t)'
  BY <1>3, TablesStay DEF Deleted, SubOf
<1>16. \A s, j : Has(h, s, j)' <=> Has(h, s, j)
  BY TablesStay
<1>17. Progress(p, op, t, k, h)'
  BY <1>2, <1>6, <1>7, <1>8, <1>9, <1>10, <1>11, <1>12, <1>13, <1>14, <1>15, <1>16
     DEF Progress
<1> QED
  BY <1>2, <1>17, Progresses

LEMMA SerialNext == ASSUME Single, SInv, [TxNext]_txVars PROVE SInv'
<1>1. IInv'
  BY NextInv DEF SInv
<1>2. ASSUME NEW p \in Workers PROVE Serial(p)'
  <2>1. CASE UNCHANGED txVars
    BY <2>1, StutterSerial DEF SInv
  <2>2. CASE TxNext
    <3>1. Begin(p) \/ Serve(p)
      BY <2>2 DEF TxNext, Single
    <3> QED
      BY <3>1, NoWaiting, StatementSerial DEF Statement, Serve
  <2> QED
    BY <2>1, <2>2
<1> QED
  BY <1>1, <1>2 DEF SInv

-----------------------------------------------------------------------------
(* A commit is the operation.                                                *)

\* The tables after a commit, by the rows in the draft.
LEMMA CommitTables ==
    ASSUME IInv, NEW p \in Workers, Commit(p)
    PROVE  /\ now' = now
           /\ Drafted(p) \cap Tenants = {} => tenant' = tenant
           /\ (\A t \in Tenants : SubOf(t) \notin Drafted(p)) => sub' = sub
           /\ Drafted(p) \cap Tokens = {} => tok' = tok
           /\ Drafted(p) \cap HW = {} => dev' = dev
           /\ \A t \in Tenants : Drafted(p) \cap Tenants = {t} =>
                tenant' = [tenant EXCEPT ![t] = draft[p][t]]
           /\ \A t \in Tenants :
                (\A s \in Tenants : SubOf(s) \in Drafted(p) <=> s = t) =>
                    sub' = [sub EXCEPT ![t] = draft[p][SubOf(t)]]
           /\ \A k \in Tokens : Drafted(p) \cap Tokens = {k} =>
                tok' = [tok EXCEPT ![k] = draft[p][k]]
           /\ \A h \in HW : Drafted(p) \cap HW = {h} =>
                dev' = [dev EXCEPT ![h] = draft[p][h]]
<1>0. /\ tenant = [t \in Tenants |-> tenant[t]] /\ sub = [t \in Tenants |-> sub[t]]
      /\ tok = [k \in Tokens |-> tok[k]] /\ dev = [h \in HW |-> dev[h]]
  BY DEF IInv, TxTypeOK, TypeOK
<1>1. Drafted(p) \cap Tenants = {} => tenant' = tenant
  <2> SUFFICES ASSUME Drafted(p) \cap Tenants = {} PROVE tenant' = tenant
    OBVIOUS
  <2>1. \A t \in Tenants : tenant'[t] = tenant[t]
    BY CommitRows
  <2> QED
    BY <1>0, <2>1, CommitRows
<1>2. (\A t \in Tenants : SubOf(t) \notin Drafted(p)) => sub' = sub
  <2> SUFFICES ASSUME \A t \in Tenants : SubOf(t) \notin Drafted(p) PROVE sub' = sub
    OBVIOUS
  <2>1. \A t \in Tenants : sub'[t] = sub[t]
    BY CommitRows
  <2> QED
    BY <1>0, <2>1, CommitRows
<1>3. Drafted(p) \cap Tokens = {} => tok' = tok
  <2> SUFFICES ASSUME Drafted(p) \cap Tokens = {} PROVE tok' = tok
    OBVIOUS
  <2>1. \A k \in Tokens : tok'[k] = tok[k]
    BY CommitRows
  <2> QED
    BY <1>0, <2>1, CommitRows
<1>4. Drafted(p) \cap HW = {} => dev' = dev
  <2> SUFFICES ASSUME Drafted(p) \cap HW = {} PROVE dev' = dev
    OBVIOUS
  <2>1. \A h \in HW : dev'[h] = dev[h]
    BY CommitRows
  <2> QED
    BY <1>0, <2>1, CommitRows
<1>5. ASSUME NEW t \in Tenants, Drafted(p) \cap Tenants = {t}
      PROVE  tenant' = [tenant EXCEPT ![t] = draft[p][t]]
  <2>1. \A s \in Tenants : tenant'[s] = IF s = t THEN draft[p][t] ELSE tenant[s]
    BY <1>5, CommitRows
  <2> QED
    BY <1>0, <2>1, CommitRows
<1>6. ASSUME NEW t \in Tenants, \A s \in Tenants : SubOf(s) \in Drafted(p) <=> s = t
      PROVE  sub' = [sub EXCEPT ![t] = draft[p][SubOf(t)]]
  <2>1. \A s \in Tenants : sub'[s] = IF s = t THEN draft[p][SubOf(t)] ELSE sub[s]
    BY <1>6, CommitRows
  <2> QED
    BY <1>0, <2>1, CommitRows
<1>7. ASSUME NEW k \in Tokens, Drafted(p) \cap Tokens = {k}
      PROVE  tok' = [tok EXCEPT ![k] = draft[p][k]]
  <2>1. \A j \in Tokens : tok'[j] = IF j = k THEN draft[p][k] ELSE tok[j]
    BY <1>7, CommitRows
  <2> QED
    BY <1>0, <2>1, CommitRows
<1>8. ASSUME NEW h \in HW, Drafted(p) \cap HW = {h}
      PROVE  dev' = [dev EXCEPT ![h] = draft[p][h]]
  <2>1. \A g \in HW : dev'[g] = IF g = h THEN draft[p][h] ELSE dev[g]
    BY <1>8, CommitRows
  <2> QED
    BY <1>0, <2>1, CommitRows
<1>9. now' = now
  BY CommitRows
<1> QED
  BY <1>1, <1>2, <1>3, <1>4, <1>5, <1>6, <1>7, <1>8, <1>9

\* The commit of a draft of one device, and of a token and a device.
LEMMA DeviceCommitted ==
    ASSUME IInv, NEW p \in Workers, Commit(p), NEW h \in HW, NEW v, One(p, h, v)
    PROVE  dev' = [dev EXCEPT ![h] = v] /\ UNCHANGED <<now, tenant, sub, tok>>
<1>1. /\ Drafted(p) \cap Tenants = {} /\ Drafted(p) \cap Tokens = {} /\ Drafted(p) \cap HW = {h}
      /\ \A t \in Tenants : SubOf(t) \notin Drafted(p)
  BY RowNames DEF One
<1> QED
  BY <1>1, CommitTables DEF One

LEMMA SeatCommitted ==
    ASSUME IInv, NEW p \in Workers, Commit(p), NEW h \in HW, NEW k \in Tokens, NEW v, NEW w,
           Two(p, k, w, h, v) \/ Two(p, h, v, k, w)
    PROVE  /\ dev' = [dev EXCEPT ![h] = v] /\ tok' = [tok EXCEPT ![k] = w]
           /\ UNCHANGED <<now, tenant, sub>>
<1>0. Drafted(p) = {k, h} /\ draft[p][h] = v /\ draft[p][k] = w
  BY DEF Two
<1>1. /\ Drafted(p) \cap Tenants = {} /\ Drafted(p) \cap Tokens = {k} /\ Drafted(p) \cap HW = {h}
      /\ \A t \in Tenants : SubOf(t) \notin Drafted(p)
  BY <1>0, RowNames
<1> QED
  BY <1>0, <1>1, CommitTables

LEMMA CommitBooking ==
    ASSUME SInv, NEW p \in Workers, Commit(p), Books(p)
    PROVE  [Next]_vars
<1>0. IInv /\ TxTypeOK /\ pc[p] = "commit"
  BY DEF SInv, IInv, Commit
<1>1. PICK op \in BookOps, t \in Tenants \cup {None}, k \in Tokens, h \in HW :
        Serves(p, op, t, k, h) /\ Booked(p, t, k, h)
  BY BookingFacts
<1>2. /\ t \in Tenants /\ Registered(t) /\ TokenOk(t, k)
      /\ op = "public_activate" => tenant[t] = "ACTIVE"
  BY <1>0, <1>1 DEF Booked, Judged, Serves
<1>3. ASSUME DoActivate(t, k, h), op # "cp_consume_seat" PROVE Next
  <2>1. CASE op = "cp_activate"
    BY <1>2, <1>3, <2>1 DEF CpActivate, DeviceOps, Next
  <2>2. CASE op = "public_activate"
    <3>1. tok[k].owner = t /\ t # None
      BY <1>2, NoneAssumption DEF TokenOk
    <3>2. PublicActivate(k, h)
      BY <1>2, <1>3, <2>2, <3>1 DEF PublicActivate
    <3> QED
      BY <3>2 DEF DeviceOps, Next
  <2> QED
    BY <1>3, <2>1, <2>2 DEF BookOps
<1>4. CASE ~Live(h) /\ SeatFree(t, k) /\ Two(p, k, Taken(k), h, NewSeat(t, k))
  <2>1. PICK v, w : v = NewSeat(t, k) /\ w = Taken(k)
    OBVIOUS
  <2>2. /\ dev' = [dev EXCEPT ![h] = v] /\ tok' = [tok EXCEPT ![k] = w]
        /\ UNCHANGED <<now, tenant, sub>>
    BY <1>0, <1>4, <2>1, SeatCommitted
  <2>3. Book(t, k, h)
    BY <1>4, <2>1, <2>2 DEF Book, Consume, NewSeat, Renewal, Taken
  <2>4. CASE op = "cp_consume_seat"
    BY <1>2, <2>3, <2>4 DEF CpConsumeSeat, DeviceOps, Next
  <2> QED
    BY <1>3, <2>3, <2>4 DEF DoActivate
<1>5. CASE Mine(p, t, h) /\ One(p, h, Refreshed(h, t))
  <2>1. PICK v : v = Refreshed(h, t)
    OBVIOUS
  <2>2. dev' = [dev EXCEPT ![h] = v] /\ UNCHANGED <<now, tenant, sub, tok>>
    BY <1>0, <1>5, <2>1, DeviceCommitted
  <2>3. Rotate(t, h)
    BY <1>5, <2>1, <2>2 DEF Rotate, Mine, Refreshed, Renewal
  <2>4. op # "cp_consume_seat"
    BY <1>1, <1>5 DEF Mine, Serves
  <2> QED
    BY <1>3, <2>3, <2>4 DEF DoActivate
<1>6. CASE One(p, h, dev[h])
  <2>1. PICK v : v = dev[h]
    OBVIOUS
  <2>2. dev' = [dev EXCEPT ![h] = v] /\ UNCHANGED <<now, tenant, sub, tok>>
    BY <1>0, <1>6, <2>1, DeviceCommitted
  <2> QED
    BY <1>0, <2>1, <2>2 DEF TxTypeOK, TypeOK, vars
<1> QED
  BY <1>0, <1>1, <1>4, <1>5, <1>6 DEF Booked

LEMMA CommitRelease ==
    ASSUME SInv, NEW p \in Workers, Commit(p), req[p].op = "release_seat"
    PROVE  [Next]_vars
<1>0. IInv /\ TxTypeOK /\ pc[p] = "commit"
  BY DEF SInv, IInv, Commit
<1>1. PICK h \in HW : h = req[p].h
  BY <1>0, ReqFacts
<1>2. PICK t, k : Has(h, t, k)
  BY DEF Has
<1>3. Released(p, k, h)
  <2>1. Progress(p, "release_seat", req[p].t, req[p].k, h)
    BY <1>1 DEF SInv, Serial, Serves
  <2> QED
    BY <1>2, <2>1 DEF Progress
<1>4. Live(h)
  BY <1>0, <1>3 DEF Released
<1>5. k \in Tokens /\ dev[h].via = k
  BY <1>0, <1>2, <1>4, BoundFacts DEF Has, Live
<1>6. CASE ~(tok[k].consumed > 0) /\ One(p, h, Freed(h))
  <2>1. PICK v : v = Freed(h)
    OBVIOUS
  <2>2. dev' = [dev EXCEPT ![h] = v] /\ UNCHANGED <<now, tenant, sub, tok>>
    BY <1>0, <1>6, <2>1, DeviceCommitted
  <2>3. ReleaseSeat(h)
    BY <1>4, <1>5, <1>6, <2>1, <2>2 DEF ReleaseSeat, Freed
  <2> QED
    BY <2>3 DEF AdminRevokeDevice, DeviceOps, Next
<1>7. CASE tok[k].consumed > 0 /\ Two(p, h, Freed(h), k, Given(k))
  <2>1. PICK v, w : v = Freed(h) /\ w = Given(k)
    OBVIOUS
  <2>2. /\ dev' = [dev EXCEPT ![h] = v] /\ tok' = [tok EXCEPT ![k] = w]
        /\ UNCHANGED <<now, tenant, sub>>
    BY <1>0, <1>5, <1>7, <2>1, SeatCommitted
  <2>3. ReleaseSeat(h)
    BY <1>4, <1>5, <1>7, <2>1, <2>2 DEF ReleaseSeat, Freed, Given
  <2> QED
    BY <2>3 DEF AdminRevokeDevice, DeviceOps, Next
<1> QED
  BY <1>0, <1>3, <1>6, <1>7 DEF Released

LEMMA CommitReinstate ==
    ASSUME SInv, NEW p \in Workers, Commit(p), req[p].op = "reinstate"
    PROVE  [Next]_vars
<1>0. IInv /\ TxTypeOK /\ pc[p] = "commit"
  BY DEF SInv, IInv, Commit
<1>1. PICK t \in Tenants, k \in Tokens, h \in HW :
        req[p].h = h /\ Has(h, t, k) /\ Reinstated(p, t, k, h)
  BY <1>0, ReinstatingFacts
<1>2. /\ Bound(h) /\ dev[h].revoked /\ SeatFree(t, k)
      /\ Two(p, h, Back(h, t), k, Taken(k))
  BY <1>0, <1>1 DEF Reinstated, SeatFree
<1>3. PICK v, w : v = Back(h, t) /\ w = Taken(k)
  OBVIOUS
<1>4. /\ dev' = [dev EXCEPT ![h] = v] /\ tok' = [tok EXCEPT ![k] = w]
      /\ UNCHANGED <<now, tenant, sub>>
  BY <1>0, <1>2, <1>3, SeatCommitted
<1>5. dev[h].tenant = t /\ dev[h].via = k
  BY <1>1 DEF Has
<1>6. ReinstateDevice(h)
  BY <1>2, <1>3, <1>4, <1>5 DEF ReinstateDevice, Back, Renewal, InStanding, Taken, Consume
<1> QED
  BY <1>6 DEF DeviceOps, Next

LEMMA CommitHeartbeat ==
    ASSUME SInv, NEW p \in Workers, Commit(p), req[p].op = "heartbeat"
    PROVE  [Next]_vars
<1>0. IInv /\ TxTypeOK /\ pc[p] = "commit"
  BY DEF SInv, IInv, Commit
<1>t. PICK t \in Tenants : t = req[p].t
  BY <1>0, ReqFacts
<1>1. PICK h \in HW : h = req[p].h
  BY <1>0, ReqFacts
<1>2. Beaten(p, t, h)
  <2>1. Progress(p, "heartbeat", t, req[p].k, h)
    BY <1>t, <1>1 DEF SInv, Serial, Serves
  <2> QED
    BY <2>1 DEF Progress
<1>3. Registered(t) /\ Live(h)
  BY <1>0, <1>2 DEF Beaten
<1>4. CASE InStanding(t) /\ One(p, h, Refreshed(h, t))
  <2>1. PICK v : v = Refreshed(h, t)
    OBVIOUS
  <2>2. dev' = [dev EXCEPT ![h] = v] /\ UNCHANGED <<now, tenant, sub, tok>>
    BY <1>0, <1>4, <2>1, DeviceCommitted
  <2>3. Heartbeat(t, h)
    BY <1>3, <1>4, <2>1, <2>2 DEF Heartbeat, InStanding, Refreshed, Renewal
  <2> QED
    BY <2>3 DEF DeviceOps, Next
<1>5. CASE One(p, h, dev[h])
  <2>1. PICK v : v = dev[h]
    OBVIOUS
  <2>2. dev' = [dev EXCEPT ![h] = v] /\ UNCHANGED <<now, tenant, sub, tok>>
    BY <1>0, <1>5, <2>1, DeviceCommitted
  <2> QED
    BY <1>0, <2>1, <2>2 DEF TxTypeOK, TypeOK, vars
<1> QED
  BY <1>0, <1>2, <1>4, <1>5 DEF Beaten

LEMMA CommitCreate ==
    ASSUME SInv, NEW p \in Workers, Commit(p), req[p].op = "create"
    PROVE  \E t \in Tenants, n \in SeatLimits, w \in Windows, g \in Graces :
              req[p].t = t /\ CreateTenant(t, n, w, g)
<1>0. IInv /\ TxTypeOK /\ pc[p] = "commit"
  BY DEF SInv, IInv, Commit
<1>1. PICK t \in Tenants : t = req[p].t
  BY <1>0, ReqFacts
<1>2. ~Registered(t) /\ \E row \in Created : Two(p, t, "ACTIVE", SubOf(t), row)
  BY <1>0, <1>1, OperatingFacts DEF Made
<1>3. PICK n \in SeatLimits, w \in Windows, g \in Graces :
        Two(p, t, "ACTIVE", SubOf(t), NewSub(n, w, g))
  BY <1>2 DEF Created
<1>4. PICK row : row = NewSub(n, w, g)
  OBVIOUS
<1>5. Drafted(p) = {t, SubOf(t)} /\ draft[p][t] = "ACTIVE" /\ draft[p][SubOf(t)] = row
  BY <1>3, <1>4 DEF Two
<1>6. /\ Drafted(p) \cap Tenants = {t} /\ Drafted(p) \cap Tokens = {} /\ Drafted(p) \cap HW = {}
      /\ \A s \in Tenants : SubOf(s) \in Drafted(p) <=> s = t
  BY <1>5, RowNames
<1>7. /\ tenant' = [tenant EXCEPT ![t] = "ACTIVE"] /\ sub' = [sub EXCEPT ![t] = row]
      /\ UNCHANGED <<now, tok, dev>>
  BY <1>0, <1>5, <1>6, CommitTables
<1>8. CreateTenant(t, n, w, g)
  BY <1>2, <1>4, <1>7 DEF CreateTenant
<1> QED
  BY <1>1, <1>8

LEMMA CommitGenerate ==
    ASSUME SInv, NEW p \in Workers, Commit(p), req[p].op = "generate_token"
    PROVE  \E t \in Tenants, k \in Tokens, q \in Quotas, e \in Expiries :
              GenerateBatchToken(t, k, q, e)
<1>0. IInv /\ TxTypeOK /\ pc[p] = "commit" /\ Local(p)
  BY DEF SInv, IInv, Commit
<1>t. PICK t \in Tenants : t = req[p].t
  BY <1>0, ReqFacts
<1>k. PICK k \in Tokens : k = req[p].k
  BY <1>0, ReqFacts
<1>1. Registered(t) /\ \E q \in Quotas \ {0}, e \in Expiries : One(p, k, NewTok(t, q, e))
  BY <1>0, <1>t, <1>k, OperatingFacts DEF TokenMade
<1>2. PICK q \in Quotas \ {0}, e \in Expiries : One(p, k, NewTok(t, q, e))
  BY <1>1
<1>3. tok[k].owner = None
  BY <1>0, <1>k DEF Local
<1>4. PICK v : v = NewTok(t, q, e)
  OBVIOUS
<1>5. Drafted(p) = {k} /\ draft[p][k] = v
  BY <1>2, <1>4 DEF One
<1>6. /\ Drafted(p) \cap Tenants = {} /\ Drafted(p) \cap Tokens = {k} /\ Drafted(p) \cap HW = {}
      /\ \A s \in Tenants : SubOf(s) \notin Drafted(p)
  BY <1>5, RowNames
<1>7. tok' = [tok EXCEPT ![k] = v] /\ UNCHANGED <<now, tenant, sub, dev>>
  BY <1>0, <1>5, <1>6, CommitTables
<1>8. q > 0
  BY InputAssumption
<1>9. GenerateBatchToken(t, k, q, e)
  BY <1>1, <1>3, <1>4, <1>7, <1>8 DEF GenerateBatchToken, NewTok
<1> QED
  BY <1>9

LEMMA CommitRevocation ==
    ASSUME SInv, NEW p \in Workers, Commit(p), req[p].op = "revoke_token"
    PROVE  \E k \in Tokens : RevokeBatchToken(k)
<1>0. IInv /\ TxTypeOK /\ pc[p] = "commit"
  BY DEF SInv, IInv, Commit
<1>1. PICK k \in Tokens : k = req[p].k
  BY <1>0, ReqFacts
<1>2. PICK v : v = [tok[k] EXCEPT !.revoked = TRUE]
  OBVIOUS
<1>3. tok[k].owner # None /\ One(p, k, v)
  BY <1>0, <1>1, <1>2, OperatingFacts DEF TokenRevoked
<1>4. /\ Drafted(p) \cap Tenants = {} /\ Drafted(p) \cap Tokens = {k} /\ Drafted(p) \cap HW = {}
      /\ \A s \in Tenants : SubOf(s) \notin Drafted(p)
  BY <1>3, RowNames DEF One
<1>5. tok' = [tok EXCEPT ![k] = v] /\ UNCHANGED <<now, tenant, sub, dev>>
  BY <1>0, <1>3, <1>4, CommitTables DEF One
<1> QED
  BY <1>2, <1>3, <1>5 DEF RevokeBatchToken

\* The commit of a draft of one subscription.
LEMMA SubCommitted ==
    ASSUME IInv, NEW p \in Workers, Commit(p), NEW t \in Tenants, NEW v, One(p, SubOf(t), v)
    PROVE  sub' = [sub EXCEPT ![t] = v] /\ UNCHANGED <<now, tenant, tok, dev>>
<1>1. /\ Drafted(p) \cap Tenants = {} /\ Drafted(p) \cap Tokens = {} /\ Drafted(p) \cap HW = {}
      /\ \A s \in Tenants : SubOf(s) \in Drafted(p) <=> s = t
  BY RowNames DEF One
<1> QED
  BY <1>1, CommitTables DEF One

LEMMA CommitPayment ==
    ASSUME SInv, NEW p \in Workers, Commit(p), req[p].op = "payment"
    PROVE  \E t \in Tenants : req[p].t = t /\ RecordPayment(t)
<1>0. IInv /\ TxTypeOK /\ pc[p] = "commit"
  BY DEF SInv, IInv, Commit
<1>1. PICK t \in Tenants : t = req[p].t
  BY <1>0, ReqFacts
<1>2. PICK v : v = PaidRow(t)
  OBVIOUS
<1>3. Registered(t) /\ PaidThrough(t) =< MaxUntil /\ One(p, SubOf(t), v)
  BY <1>0, <1>1, <1>2, OperatingFacts DEF Paid
<1>4. sub' = [sub EXCEPT ![t] = v] /\ UNCHANGED <<now, tenant, tok, dev>>
  BY <1>0, <1>3, SubCommitted
<1>5. RecordPayment(t)
  BY <1>2, <1>3, <1>4 DEF RecordPayment, PaidRow
<1> QED
  BY <1>1, <1>5

LEMMA CommitStatus ==
    ASSUME SInv, NEW p \in Workers, Commit(p), req[p].op \in {"suspend", "reactivate"}
    PROVE  \E t \in Tenants : SuspendTenant(t) \/ ReactivateTenant(t)
<1>0. IInv /\ TxTypeOK /\ pc[p] = "commit"
  BY DEF SInv, IInv, Commit
<1>1. PICK t \in Tenants : t = req[p].t
  BY <1>0, ReqFacts
<1>2. PICK op, v, w : op = req[p].op /\ v = NewStatus(op) /\ w = StatusRow(op, t)
  OBVIOUS
<1>3. Registered(t) /\ Two(p, t, v, SubOf(t), w)
  BY <1>0, <1>1, <1>2, OperatingFacts DEF StatusSet
<1>4. Drafted(p) = {t, SubOf(t)} /\ draft[p][t] = v /\ draft[p][SubOf(t)] = w
  BY <1>3 DEF Two
<1>5. /\ Drafted(p) \cap Tenants = {t} /\ Drafted(p) \cap Tokens = {} /\ Drafted(p) \cap HW = {}
      /\ \A s \in Tenants : SubOf(s) \in Drafted(p) <=> s = t
  BY <1>4, RowNames
<1>6. /\ tenant' = [tenant EXCEPT ![t] = v] /\ sub' = [sub EXCEPT ![t] = w]
      /\ UNCHANGED <<now, tok, dev>>
  BY <1>0, <1>4, <1>5, CommitTables
<1>7. CASE op = "suspend"
  BY <1>2, <1>3, <1>6, <1>7 DEF SuspendTenant, NewStatus, StatusRow
<1>8. CASE op = "reactivate"
  BY <1>2, <1>3, <1>6, <1>8 DEF ReactivateTenant, NewStatus, StatusRow
<1> QED
  BY <1>2, <1>7, <1>8

\* Exactly the rows of the tenant go, and no device of another is booked on its
\* tokens.
LEMMA CommitDelete ==
    ASSUME SInv, NEW p \in Workers, Commit(p), req[p].op = "delete"
    PROVE  \E t \in Tenants : req[p].t = t /\ DeleteTenant(t)
<1>0. IInv /\ TxTypeOK /\ pc[p] = "commit" /\ Deletes(p)
  BY DEF SInv, IInv, Commit, Deletes
<1>1. PICK t \in Tenants : t = req[p].t
  BY <1>0, ReqFacts
<1>2. /\ Registered(t) /\ t \in Drafted(p) /\ draft[p][t] = "NONE"
      /\ \A s \in Tenants :
           /\ s \in Drafted(p) => s = t
           /\ SubOf(s) \in Drafted(p) => s = t /\ draft[p][SubOf(s)] = NoSub
  BY <1>0, <1>1, OperatingFacts DEF Deleted
<1>3. SubOf(t) \in Drafted(p)
  BY <1>0, <1>1, CommitDeletes
<1>4. Drafted(p) \cap Tenants = {t} /\ \A s \in Tenants : SubOf(s) \in Drafted(p) <=> s = t
  BY <1>2, <1>3
<1>5. /\ tenant' = [tenant EXCEPT ![t] = "NONE"] /\ sub' = [sub EXCEPT ![t] = NoSub]
      /\ now' = now
  BY <1>0, <1>2, <1>3, <1>4, CommitTables
<1>6. tok' = [k \in Tokens |-> IF tok[k].owner = t THEN NoTok ELSE tok[k]]
  <2>1. \A k \in Tokens : tok'[k] = IF tok[k].owner = t THEN NoTok ELSE tok[k]
    BY <1>0, <1>1, TokenFate, CommitDeletes
  <2> QED
    BY <1>0, <2>1, CommitRows
<1>7. dev' = [h \in HW |-> IF dev[h].tenant = t THEN NoDev ELSE dev[h]]
  <2>1. \A h \in HW : dev'[h] = IF dev[h].tenant = t THEN NoDev ELSE dev[h]
    BY <1>0, <1>1, DeviceFate, CommitDeletes
  <2> QED
    BY <1>0, <2>1, CommitRows
<1>8. \A h \in HW : dev[h].via # None /\ tok[dev[h].via].owner = t => dev[h].tenant = t
  BY <1>0 DEF IInv, ReferencesIntact, NoDev
<1>9. DeleteTenant(t)
  BY <1>2, <1>5, <1>6, <1>7, <1>8 DEF DeleteTenant
<1> QED
  BY <1>1, <1>9

\* A commit is one operation of Licensing, or changes nothing a reader can see.
LEMMA CommitImplements ==
    ASSUME SInv, NEW p \in Workers, Commit(p)
    PROVE  [Next]_vars
<1>0. IInv /\ TxTypeOK /\ pc[p] = "commit"
  BY DEF SInv, IInv, Commit
<1>1. req[p].op \in {"cp_activate", "cp_consume_seat", "public_activate", "heartbeat",
             "release_seat", "reinstate", "payment", "patch", "suspend", "reactivate",
             "delete", "create", "generate_token", "revoke_token", "none"}
  BY <1>0, ControlTypes DEF Served, Requests, NoReq
<1>2. req[p].op \notin {"patch", "none"}
  <2>1. Progress(p, req[p].op, req[p].t, req[p].k, req[p].h)
    BY DEF SInv, Serial, Serves
  <2> QED
    BY <1>0, <2>1 DEF Progress
<1>3. CASE Books(p)
  BY <1>3, CommitBooking
<1>4. CASE req[p].op \in {"heartbeat", "release_seat", "reinstate"}
  BY <1>4, CommitHeartbeat, CommitRelease, CommitReinstate
<1>5. CASE req[p].op \in {"create", "payment", "suspend", "reactivate", "delete"}
  <2>1. \E t \in Tenants : TenantOps(t)
    BY <1>5, CommitCreate, CommitPayment, CommitStatus, CommitDelete DEF TenantOps
  <2> QED
    BY <2>1 DEF Next
<1>6. CASE req[p].op \in {"generate_token", "revoke_token"}
  <2>1. \E k \in Tokens : TokenOps(k)
    BY <1>6, CommitGenerate, CommitRevocation DEF TokenOps
  <2> QED
    BY <2>1 DEF Next
<1> QED
  BY <1>1, <1>2, <1>3, <1>4, <1>5, <1>6 DEF Books

LEMMA StepImplements == ASSUME Single, SInv, [TxNext]_txVars PROVE [Next]_vars
<1>1. CASE UNCHANGED txVars
  BY <1>1 DEF txVars
<1>2. CASE TxNext
  <2>1. PICK p \in Workers : Begin(p) \/ Serve(p)
    BY <1>2 DEF TxNext
  <2>2. CASE Commit(p)
    BY <2>2, CommitImplements
  <2>3. CASE Statement(p)
    BY <2>3, StatementKeeps
  <2> QED
    BY <2>1, <2>2, <2>3, NoWaiting DEF Serve, Statement
<1> QED
  BY <1>1, <1>2

-----------------------------------------------------------------------------
(* Payments.                                                                 *)

\* A payment is worth its window, and a tenant that is not there has paid nothing.
Honoured ==
    /\ PaymentsHonoured
    /\ \A t \in Tenants : ~Registered(t) => ledger[t] = 0

\* One window more for one payment more.
LEMMA OneWindowMore ==
    ASSUME NEW u \in Nat, NEW d \in Nat, NEW n \in Nat, u >= d * (1 + n)
    PROVE  u + d >= d * (1 + (n + 1))
OBVIOUS

LEMMA PaymentHonours ==
    ASSUME SInv, Honoured, NEW p \in Workers, Commit(p), req[p].op = "payment"
    PROVE  Honoured'
<1>0. IInv /\ TypeOK /\ ledger \in [Tenants -> Nat]
  BY DEF SInv, IInv, TxTypeOK
<1>1. PICK t \in Tenants : req[p].t = t /\ RecordPayment(t)
  BY CommitPayment
<1>2. /\ Registered(t) /\ tenant' = tenant
      /\ sub' = [sub EXCEPT ![t].until = PaidThrough(t), ![t].paid = TRUE,
                            ![t].status = "ACTIVE"]
  BY <1>1 DEF RecordPayment
<1>3. ledger' = [ledger EXCEPT ![t] = @ + 1]
  BY <1>1 DEF Commit
<1>4. ASSUME NEW s \in Tenants, Registered(s)'
      PROVE  sub'[s].until >= Days(sub'[s].window) * (1 + ledger'[s])
  <2>0. Registered(s) /\ sub[s] \in SubRow /\ now \in Nat /\ ledger[s] \in Nat
    BY <1>0, <1>2, <1>4 DEF TypeOK, Registered
  <2>1. sub[s].until >= Days(sub[s].window) * (1 + ledger[s])
    BY <2>0 DEF Honoured, PaymentsHonoured
  <2>2. CASE s # t
    <3>1. sub'[s] = sub[s] /\ ledger'[s] = ledger[s]
      BY <1>0, <1>2, <1>3, <2>2 DEF TypeOK
    <3> QED
      BY <2>1, <3>1
  <2>3. CASE s = t
    <3>1. /\ sub'[s].until = PaidThrough(s) /\ sub'[s].window = sub[s].window
          /\ ledger'[s] = ledger[s] + 1
      BY <1>0, <1>2, <1>3, <2>0, <2>3 DEF TypeOK, SubRow
    <3>2. PICK u \in Nat, d \in Nat, n \in Nat :
            u = sub[s].until /\ d = Days(sub[s].window) /\ n = ledger[s]
      BY <2>0, DaysNat DEF SubRow
    <3>3. u + d >= d * (1 + (n + 1))
      BY <2>1, <3>2, OneWindowMore
    <3>4. PaidThrough(s) >= u + d
      BY <2>0, <3>2 DEF PaidThrough
    <3>5. PaidThrough(s) \in Nat /\ d * (1 + (n + 1)) \in Nat
      BY <2>0, <3>2 DEF PaidThrough
    <3>6. PaidThrough(s) >= d * (1 + (n + 1))
      BY <3>3, <3>4, <3>5
    <3> QED
      BY <3>1, <3>2, <3>6
  <2> QED
    BY <2>2, <2>3
<1>5. ASSUME NEW s \in Tenants, ~Registered(s)' PROVE ledger'[s] = 0
  BY <1>0, <1>2, <1>3, <1>5 DEF Honoured, Registered
<1> QED
  BY <1>4, <1>5 DEF Honoured, PaymentsHonoured

\* Requests about devices and tokens leave tenants and subscriptions alone.
LEMMA TokensAndDevices ==
    ASSUME SInv, NEW p \in Workers, Commit(p),
           \/ Books(p)
           \/ req[p].op \in {"heartbeat", "release_seat", "reinstate", "generate_token",
                             "revoke_token"}
    PROVE  UNCHANGED <<tenant, sub>>
<1>0. IInv /\ TxTypeOK /\ pc[p] = "commit"
  BY DEF SInv, IInv, Commit
<1>1. Drafted(p) \subseteq Tokens \cup HW
  <2>1. CASE Books(p)
    <3>1. PICK op \in BookOps, t \in Tenants \cup {None}, k \in Tokens, h \in HW :
            Booked(p, t, k, h)
      BY <2>1, BookingFacts
    <3>2. Drafted(p) = {k, h} \/ Drafted(p) = {h}
      BY <1>0, <3>1 DEF Booked, One, Two
    <3> QED
      BY <3>2
  <2>2. CASE req[p].op = "heartbeat"
    <3>1. PICK h \in HW : h = req[p].h
      BY <1>0, <2>2, ReqFacts
    <3>2. Progress(p, "heartbeat", req[p].t, req[p].k, h)
      BY <2>2, <3>1 DEF SInv, Serial, Serves
    <3>3. Drafted(p) = {h}
      BY <1>0, <3>2 DEF Progress, Beaten, One
    <3> QED
      BY <3>3
  <2>3. CASE req[p].op = "release_seat"
    <3>1. PICK h \in HW : h = req[p].h
      BY <1>0, <2>3, ReqFacts
    <3>2. PICK t, k : Has(h, t, k)
      BY DEF Has
    <3>3. Progress(p, "release_seat", req[p].t, req[p].k, h)
      BY <2>3, <3>1 DEF SInv, Serial, Serves
    <3>4. Live(h) /\ (Drafted(p) = {h} \/ Drafted(p) = {h, k})
      BY <1>0, <3>2, <3>3 DEF Progress, Released, One, Two
    <3>5. k \in Tokens
      BY <1>0, <3>2, <3>4, BoundFacts DEF Has, Live
    <3> QED
      BY <3>4, <3>5
  <2>4. CASE req[p].op = "reinstate"
    <3>1. PICK t \in Tenants, k \in Tokens, h \in HW : Reinstated(p, t, k, h)
      BY <1>0, <2>4, ReinstatingFacts
    <3>2. Drafted(p) = {h, k}
      BY <1>0, <3>1 DEF Reinstated, Two
    <3> QED
      BY <3>2
  <2>5. CASE req[p].op \in {"generate_token", "revoke_token"}
    <3>1. PICK k \in Tokens : k = req[p].k
      BY <1>0, <2>5, ReqFacts
    <3>2. Drafted(p) = {k}
      BY <1>0, <2>5, <3>1, OperatingFacts DEF TokenMade, TokenRevoked, One
    <3> QED
      BY <3>2
  <2> QED
    BY <2>1, <2>2, <2>3, <2>4, <2>5
<1>2. Drafted(p) \cap Tenants = {} /\ \A t \in Tenants : SubOf(t) \notin Drafted(p)
  BY <1>1, RowNames
<1> QED
  BY <1>0, <1>2, CommitTables

\* What is promised for payments outlasts steps that record or delete none.
LEMMA HonouredStays ==
    ASSUME Honoured, ledger' = ledger,
           \A t \in Tenants :
             /\ Registered(t)' <=> Registered(t)
             /\ Registered(t) => sub'[t].until = sub[t].until /\ sub'[t].window = sub[t].window
    PROVE  Honoured'
<1>1. ASSUME NEW t \in Tenants, Registered(t)'
      PROVE  sub'[t].until >= Days(sub'[t].window) * (1 + ledger'[t])
  BY <1>1 DEF Honoured, PaymentsHonoured
<1>2. \A t \in Tenants : ~Registered(t)' => ledger'[t] = 0
  BY DEF Honoured
<1> QED
  BY <1>1, <1>2 DEF Honoured, PaymentsHonoured

LEMMA CommitHonours ==
    ASSUME SInv, Honoured, NEW p \in Workers, Commit(p)
    PROVE  Honoured'
<1>0. IInv /\ TxTypeOK /\ TypeOK /\ ledger \in [Tenants -> Nat] /\ pc[p] = "commit"
  BY DEF SInv, IInv, TxTypeOK, Commit
<1>1. req[p].op \in {"cp_activate", "cp_consume_seat", "public_activate", "heartbeat",
             "release_seat", "reinstate", "payment", "patch", "suspend", "reactivate",
             "delete", "create", "generate_token", "revoke_token", "none"}
  BY <1>0, ControlTypes DEF Served, Requests, NoReq
<1>2. req[p].op \notin {"patch", "none"}
  <2>1. Progress(p, req[p].op, req[p].t, req[p].k, req[p].h)
    BY DEF SInv, Serial, Serves
  <2> QED
    BY <1>0, <2>1 DEF Progress
<1>3. CASE Books(p) \/ req[p].op \in {"heartbeat", "release_seat", "reinstate",
                                      "generate_token", "revoke_token"}
  <2>1. UNCHANGED <<tenant, sub>>
    BY <1>3, TokensAndDevices
  <2>2. ledger' = ledger
    BY <1>3 DEF Commit, Books
  <2> QED
    BY <2>1, <2>2, HonouredStays DEF Registered
<1>4. CASE req[p].op = "payment"
  BY <1>4, PaymentHonours
<1>5. CASE req[p].op \in {"suspend", "reactivate"}
  <2>1. PICK t \in Tenants : SuspendTenant(t) \/ ReactivateTenant(t)
    BY <1>5, CommitStatus
  <2>2. \A s \in Tenants :
          /\ Registered(s)' <=> Registered(s)
          /\ sub'[s].until = sub[s].until /\ sub'[s].window = sub[s].window
    BY <1>0, <2>1 DEF SuspendTenant, ReactivateTenant, TypeOK, Registered, SubRow
  <2>3. ledger' = ledger
    BY <1>5 DEF Commit
  <2> QED
    BY <2>2, <2>3, HonouredStays
<1>6. CASE req[p].op = "create"
  <2>1. PICK t \in Tenants, n \in SeatLimits, w \in Windows, g \in Graces :
          CreateTenant(t, n, w, g)
    BY <1>6, CommitCreate
  <2>2. /\ ~Registered(t) /\ tenant' = [tenant EXCEPT ![t] = "ACTIVE"]
        /\ sub' = [sub EXCEPT ![t] = NewSub(n, w, g)] /\ ledger' = ledger
    BY <1>6, <2>1 DEF CreateTenant, Commit
  <2>3. ASSUME NEW s \in Tenants, Registered(s)'
        PROVE  sub'[s].until >= Days(sub'[s].window) * (1 + ledger'[s])
    <3>1. CASE s # t
      <4>1. sub'[s] = sub[s] /\ Registered(s) /\ ledger'[s] = ledger[s]
        BY <1>0, <2>2, <2>3, <3>1 DEF TypeOK, Registered
      <4> QED
        BY <4>1 DEF Honoured, PaymentsHonoured
    <3>2. CASE s = t
      <4>1. sub'[s] = NewSub(n, w, g) /\ ledger'[s] = 0
        BY <1>0, <2>2, <3>2 DEF TypeOK, Honoured
      <4>2. OrDefault(w, DefaultWindow) \in Nat
        BY InputAssumption, DefaultAssumption DEF OrDefault
      <4>3. PICK d \in Nat : d = Days(OrDefault(w, DefaultWindow))
        BY <4>2, DaysNat
      <4>4. sub'[s].until = now + d /\ Days(sub'[s].window) = d /\ now \in Nat
        BY <1>0, <4>1, <4>3 DEF NewSub, TypeOK
      <4>5. now + d >= d * (1 + 0)
        BY <4>4
      <4> QED
        BY <4>1, <4>4, <4>5
    <3> QED
      BY <3>1, <3>2
  <2>4. ASSUME NEW s \in Tenants, ~Registered(s)' PROVE ledger'[s] = 0
    BY <1>0, <2>2, <2>4 DEF Honoured, Registered, TypeOK
  <2> QED
    BY <2>3, <2>4 DEF Honoured, PaymentsHonoured
<1>7. CASE req[p].op = "delete"
  <2>1. PICK t \in Tenants : req[p].t = t /\ DeleteTenant(t)
    BY <1>7, CommitDelete
  <2>2. /\ tenant' = [tenant EXCEPT ![t] = "NONE"] /\ sub' = [sub EXCEPT ![t] = NoSub]
        /\ ledger' = [ledger EXCEPT ![t] = 0]
    BY <1>7, <2>1 DEF DeleteTenant, Commit
  <2>3. ASSUME NEW s \in Tenants, Registered(s)'
        PROVE  sub'[s].until >= Days(sub'[s].window) * (1 + ledger'[s])
    <3>1. s # t /\ Registered(s)
      BY <1>0, <2>2, <2>3 DEF TypeOK, Registered
    <3>2. sub'[s] = sub[s] /\ ledger'[s] = ledger[s]
      BY <1>0, <2>2, <3>1 DEF TypeOK
    <3> QED
      BY <3>1, <3>2 DEF Honoured, PaymentsHonoured
  <2>4. ASSUME NEW s \in Tenants, ~Registered(s)' PROVE ledger'[s] = 0
    BY <1>0, <2>2, <2>4 DEF Honoured, Registered, TypeOK
  <2> QED
    BY <2>3, <2>4 DEF Honoured, PaymentsHonoured
<1> QED
  BY <1>1, <1>2, <1>3, <1>4, <1>5, <1>6, <1>7 DEF Books

LEMMA HonouredNext == ASSUME Single, SInv, Honoured, [TxNext]_txVars PROVE Honoured'
<1>1. CASE UNCHANGED txVars
  BY <1>1, HonouredStays DEF txVars, vars, Registered
<1>2. CASE TxNext
  <2>1. PICK p \in Workers : Begin(p) \/ Serve(p)
    BY <1>2 DEF TxNext
  <2>2. CASE Commit(p)
    BY <2>2, CommitHonours
  <2>3. CASE Statement(p)
    <3>1. UNCHANGED <<vars, ledger>>
      BY <2>3, StatementKeeps
    <3> QED
      BY <3>1, HonouredStays DEF vars, Registered
  <2> QED
    BY <2>1, <2>2, <2>3, NoWaiting DEF Serve, Statement
<1> QED
  BY <1>1, <1>2

-----------------------------------------------------------------------------
(* The theorems.                                                             *)

\* All that holds with one worker.
Inv == Single /\ SInv /\ Honoured /\ AloneOnlyPatchCrashes

LEMMA InitSerial == Single /\ (TxInit \/ Stocked) => Inv
<1> SUFFICES ASSUME Single, TxInit \/ Stocked PROVE SInv /\ Honoured /\ AloneOnlyPatchCrashes
  BY DEF Inv
<1>0. IInv /\ WorkersIdle
  BY EmptyTables, StockedTables DEF TxInit, Stocked
<1>1. SInv
  <2>1. \A p \in Workers : pc[p] = "idle" /\ req[p].op = "none"
    BY <1>0 DEF WorkersIdle, NoReq
  <2>2. \A p \in Workers : Serial(p)
    BY <2>1 DEF Serial, Serves, Progress
  <2> QED
    BY <1>0, <2>2 DEF SInv
<1>2. AloneOnlyPatchCrashes
  BY <1>0 DEF WorkersIdle, AloneOnlyPatchCrashes
<1>3. Honoured
  <2>0. \A t \in Tenants : ledger[t] = 0
    BY <1>0 DEF WorkersIdle
  <2>1. CASE TxInit
    BY <2>0, <2>1 DEF TxInit, Init, Registered, Honoured, PaymentsHonoured
  <2>2. CASE Stocked
    <3>1. ASSUME NEW t \in Tenants
          PROVE  sub[t].until >= Days(sub[t].window) * (1 + ledger[t])
      <4>1. PICK n \in SeatLimits, w \in Windows, g \in Graces : sub[t] = NewSub(n, w, g)
        BY <2>2 DEF Stocked, Created
      <4>2. OrDefault(w, DefaultWindow) \in Nat
        BY InputAssumption, DefaultAssumption DEF OrDefault
      <4>3. PICK d \in Nat : d = Days(OrDefault(w, DefaultWindow))
        BY <4>2, DaysNat
      <4>4. sub[t].until = now + d /\ Days(sub[t].window) = d /\ now = 0
        BY <2>2, <4>1, <4>3 DEF NewSub, Stocked
      <4>5. 0 + d >= d * (1 + 0)
        OBVIOUS
      <4> QED
        BY <2>0, <4>4, <4>5
    <3> QED
      BY <2>0, <3>1 DEF Honoured, PaymentsHonoured
  <2> QED
    BY <2>1, <2>2
<1> QED
  BY <1>1, <1>2, <1>3

LEMMA InvNext == Inv /\ [TxNext]_txVars => Inv' /\ [Next]_vars
<1> SUFFICES ASSUME Single, SInv, Honoured, AloneOnlyPatchCrashes, [TxNext]_txVars
             PROVE  Inv' /\ [Next]_vars
  BY DEF Inv
<1>1. AloneOnlyPatchCrashes'
  <2>1. CASE UNCHANGED txVars
    BY <2>1 DEF txVars, AloneOnlyPatchCrashes
  <2>2. CASE TxNext
    <3>1. PICK p \in Workers : Begin(p) \/ Serve(p)
      BY <2>2 DEF TxNext
    <3>2. CASE Commit(p)
      BY <3>2 DEF Commit, AloneOnlyPatchCrashes
    <3>3. CASE Statement(p)
      BY <3>3, StatementKeeps DEF AloneOnlyPatchCrashes
    <3> QED
      BY <3>1, <3>2, <3>3, NoWaiting DEF Serve, Statement
  <2> QED
    BY <2>1, <2>2
<1>2. Single'
  BY DEF Single
<1> QED
  BY <1>1, <1>2, SerialNext, HonouredNext, StepImplements DEF Inv

\* With one worker, from the first read to the commit, the statements of each
\* request add up to one operation of Licensing or to none: what is shown of the
\* atomic operations is shown of their code.
THEOREM SerialRefinement == Single => (TxSpec => SerialImplementsLicensing)
<1>1. TxInit => Init
  BY DEF TxInit
<1> QED
  BY <1>1, InitSerial, InvNext, PTL DEF TxSpec, Spec, SerialImplementsLicensing

\* With one worker, no request but a subscription PATCH is answered 500: no
\* INSERT or UPDATE misses what was read, no DELETE is stopped by a foreign key.
THEOREM OnlyPatchCrashes ==
    Single => (TxSpec => []AloneOnlyPatchCrashes) /\ (StockedSpec => []AloneOnlyPatchCrashes)
<1>1. Inv => AloneOnlyPatchCrashes
  BY DEF Inv
<1> QED
  BY <1>1, InitSerial, InvNext, PTL DEF TxSpec, StockedSpec

\* With one worker, every payment in the ledger is worth its window of days.
THEOREM PaymentsAreHonoured ==
    Single => (TxSpec => []PaymentsHonoured) /\ (StockedSpec => []PaymentsHonoured)
<1>1. Inv => PaymentsHonoured
  BY DEF Inv, Honoured
<1> QED
  BY <1>1, InitSerial, InvNext, PTL DEF TxSpec, StockedSpec
=============================================================================
