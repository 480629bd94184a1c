------------------------------ MODULE SeatPool ------------------------------
(***************************************************************************)
(* What seat accounting promises, with no tables and no counters: every     *)
(* hardware holds at most one seat; a seat is drawn on one coupon (a batch  *)
(* token) and counts against that coupon's quota and against the seat limit *)
(* of the tenant the coupon belongs to; a seat changes hands only by being  *)
(* given back first.  Licensing implements this specification.              *)
(***************************************************************************)
EXTENDS Naturals, FiniteSets

CONSTANTS Tenants, Tokens, HW, None

VARIABLES
    limit,   \* limit[t]: the seats tenant t may hold, 0 while t is not a client
    owner,   \* owner[k]: the tenant coupon k was issued to, or None
    quota,   \* quota[k]: the seats coupon k is good for, 0 while not issued
    seat     \* seat[h]: the coupon the seat of h is drawn on, or None

poolVars == <<limit, owner, quota, seat>>

\* The hardware holding a seat drawn on coupon k.
DrawnOn(k) == {h \in HW : seat[h] = k}

\* The hardware holding a seat of tenant t, on whichever coupon.
HeldBy(t) == {h \in HW : seat[h] # None /\ owner[seat[h]] = t}

PoolInit ==
    /\ limit = [t \in Tenants |-> 0]
    /\ owner = [k \in Tokens |-> None]
    /\ quota = [k \in Tokens |-> 0]
    /\ seat = [h \in HW |-> None]

Open(t) ==
    /\ limit[t] = 0
    /\ limit'[t] \in Nat
    /\ limit' = [limit EXCEPT ![t] = limit'[t]]
    /\ UNCHANGED <<owner, quota, seat>>

Issue(t, k) ==
    /\ limit[t] > 0
    /\ owner[k] = None
    /\ quota'[k] \in Nat
    /\ owner' = [owner EXCEPT ![k] = t]
    /\ quota' = [quota EXCEPT ![k] = quota'[k]]
    /\ UNCHANGED <<limit, seat>>

\* A seat is granted only while both caps leave room for it.
Grant(h, k) ==
    /\ owner[k] # None
    /\ seat[h] = None
    /\ Cardinality(DrawnOn(k)) < quota[k]
    /\ Cardinality(HeldBy(owner[k])) < limit[owner[k]]
    /\ seat' = [seat EXCEPT ![h] = k]
    /\ UNCHANGED <<limit, owner, quota>>

GiveBack(h) ==
    /\ seat[h] # None
    /\ seat' = [seat EXCEPT ![h] = None]
    /\ UNCHANGED <<limit, owner, quota>>

\* A tenant leaves with its coupons and every seat drawn on them.
Close(t) ==
    /\ limit' = [limit EXCEPT ![t] = 0]
    /\ owner' = [k \in Tokens |-> IF owner[k] = t THEN None ELSE owner[k]]
    /\ quota' = [k \in Tokens |-> IF owner[k] = t THEN 0 ELSE quota[k]]
    /\ seat' = [h \in HW |-> IF h \in HeldBy(t) THEN None ELSE seat[h]]

PoolNext ==
    \/ \E t \in Tenants : Open(t) \/ Close(t)
    \/ \E t \in Tenants, k \in Tokens : Issue(t, k)
    \/ \E h \in HW, k \in Tokens : Grant(h, k)
    \/ \E h \in HW : GiveBack(h)

PoolSpec == PoolInit /\ [][PoolNext]_poolVars
=============================================================================
