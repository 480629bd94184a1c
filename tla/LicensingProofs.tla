-------------------------- MODULE LicensingProofs --------------------------
(***************************************************************************)
(* Machine-checked proofs about Licensing, for any number of tenants,       *)
(* tokens and devices and any inputs.  The inductive invariant IInv is the  *)
(* conjunction of the four invariants TLC checks: the caps cannot be shown  *)
(* without the counters agreeing with the device table (SeatConservation),  *)
(* and that cannot be shown to survive a revocation or a deletion without   *)
(* the references being intact.  On it rest what Licensing promises about   *)
(* the fate of devices, about standing, about deadlines and verdicts, and   *)
(* the refinement of SeatPool.                                              *)
(***************************************************************************)
EXTENDS Licensing, FiniteSetTheorems, TLAPS

IInv == TypeOK /\ SeatConservation /\ CapsRespected /\ ReferencesIntact

\* A number of days is a number of ticks.
LEMMA DaysType == \A n \in Nat : Days(n) \in Nat
BY ClockAssumption DEF Days

\* The sets of live devices are finite, so their sizes are numbers.
LEMMA LiveFinite ==
    /\ \A t : IsFiniteSet(LiveOf(t)) /\ Cardinality(LiveOf(t)) \in Nat
    /\ \A k : IsFiniteSet(LiveVia(k)) /\ Cardinality(LiveVia(k)) \in Nat
<1>1. \A t : LiveOf(t) \subseteq HW
  BY DEF LiveOf
<1>2. \A k : LiveVia(k) \subseteq HW
  BY DEF LiveVia
<1> QED
  BY <1>1, <1>2, FiniteAssumption, FS_Subset, FS_CardinalityType

\* A step that changes no binding changes no set of live devices.
LEMMA SeatsKept ==
    ASSUME \A g \in HW : /\ dev'[g].tenant = dev[g].tenant
                         /\ dev'[g].via = dev[g].via
                         /\ dev'[g].revoked = dev[g].revoked
    PROVE  /\ \A g \in HW : Live(g)' = Live(g)
           /\ \A t : LiveOf(t)' = LiveOf(t)
           /\ \A k : LiveVia(k)' = LiveVia(k)
BY DEF LiveOf, LiveVia, Live, Bound

\* A device that takes a seat joins one tenant's and one token's live devices.
LEMMA SeatTaken ==
    ASSUME NEW h \in HW, ~Live(h), Live(h)',
           \A g \in HW \ {h} : dev'[g] = dev[g]
    PROVE  /\ \A t : LiveOf(t)' = IF t = dev'[h].tenant THEN LiveOf(t) \cup {h} ELSE LiveOf(t)
           /\ \A k : LiveVia(k)' = IF k = dev'[h].via THEN LiveVia(k) \cup {h} ELSE LiveVia(k)
           /\ \A t : h \notin LiveOf(t)
           /\ \A k : h \notin LiveVia(k)
<1>1. \A g \in HW \ {h} : Live(g)' = Live(g)
  BY DEF Live, Bound
<1> QED
  BY <1>1 DEF LiveOf, LiveVia

\* A device that gives its seat back leaves them.
LEMMA SeatGiven ==
    ASSUME NEW h \in HW, Live(h), ~Live(h)',
           \A g \in HW \ {h} : dev'[g] = dev[g]
    PROVE  /\ \A t : LiveOf(t)' = IF t = dev[h].tenant THEN LiveOf(t) \ {h} ELSE LiveOf(t)
           /\ \A k : LiveVia(k)' = IF k = dev[h].via THEN LiveVia(k) \ {h} ELSE LiveVia(k)
           /\ h \in LiveOf(dev[h].tenant)
           /\ h \in LiveVia(dev[h].via)
<1>1. \A g \in HW \ {h} : Live(g)' = Live(g)
  BY DEF Live, Bound
<1> QED
  BY <1>1 DEF LiveOf, LiveVia

\* The empty tables satisfy the invariant.
LEMMA InitInv == Init => IInv
<1> SUFFICES ASSUME Init PROVE IInv
  OBVIOUS
<1>1. TypeOK
  BY DEF Init, TypeOK, TenantStatus, SubRow, TokRow, DevRow, NoSub, NoTok, NoDev
<1>2. \A h \in HW : ~Bound(h)
  BY DEF Init, Bound, NoDev
<1>3. \A k \in Tokens : LiveVia(k) = {}
  BY <1>2 DEF LiveVia, Live
<1>4. SeatConservation
  BY <1>3, FS_EmptySet DEF SeatConservation, Init, NoTok
<1>5. CapsRespected
  <2>1. \A t \in Tenants : ~Registered(t)
    BY DEF Init, Registered
  <2>2. \A k \in Tokens : Cardinality(LiveVia(k)) = 0 /\ tok[k].quota = 0
    BY <1>3, FS_EmptySet DEF Init, NoTok
  <2> QED
    BY <2>1, <2>2 DEF CapsRespected
<1>6. ReferencesIntact
  BY <1>2 DEF ReferencesIntact, Init, NoTok
<1> QED
  BY <1>1, <1>4, <1>5, <1>6 DEF IInv

\* Booking a seat on token k for tenant t, with room under both caps, keeps the
\* invariant: the counter and the set grow by the same one.
LEMMA TakeSeat ==
    ASSUME IInv, NEW t \in Tenants, NEW k \in Tokens, NEW h \in HW, NEW u \in Nat,
           Registered(t), tok[k].owner = t, ~Live(h), SeatFree(t, k),
           tok' = Consume(k),
           dev' = [dev EXCEPT ![h] = [tenant |-> t, via |-> k, revoked |-> FALSE, until |-> u]],
           UNCHANGED <<now, tenant, sub>>
    PROVE  IInv'
<1> USE DEF IInv
<1>1. /\ dev'[h].tenant = t /\ dev'[h].via = k /\ ~dev'[h].revoked
      /\ \A g \in HW \ {h} : dev'[g] = dev[g]
  BY DEF TypeOK
<1>2. /\ tok'[k] = [tok[k] EXCEPT !.consumed = @ + 1]
      /\ \A j \in Tokens \ {k} : tok'[j] = tok[j]
      /\ \A j \in Tokens : tok'[j].quota = tok[j].quota /\ tok'[j].owner = tok[j].owner
      /\ tok'[k].consumed = tok[k].consumed + 1
  BY DEF TypeOK, Consume, TokRow
<1>3. Live(h)'
  BY <1>1, NoneAssumption DEF Live, Bound
<1>4. TypeOK'
  BY DEF TypeOK, Consume, TokRow, DevRow
<1>5. /\ \A s : LiveOf(s)' = IF s = t THEN LiveOf(s) \cup {h} ELSE LiveOf(s)
      /\ \A j : LiveVia(j)' = IF j = k THEN LiveVia(j) \cup {h} ELSE LiveVia(j)
      /\ h \notin LiveOf(t) /\ h \notin LiveVia(k)
  BY <1>1, <1>3, SeatTaken
<1>6. /\ Cardinality(LiveOf(t)') = Cardinality(LiveOf(t)) + 1
      /\ Cardinality(LiveVia(k)') = Cardinality(LiveVia(k)) + 1
  BY <1>5, LiveFinite, FS_AddElement
<1>7. SeatConservation'
  BY <1>2, <1>5, <1>6 DEF SeatConservation
<1>8. CapsRespected'
  <2>1. \A s \in Tenants : Registered(s)' => Cardinality(LiveOf(s)') =< sub'[s].limit
    BY <1>5, <1>6, LiveFinite DEF CapsRespected, SeatFree, Registered, TypeOK, SubRow
  <2>2. \A j \in Tokens : Cardinality(LiveVia(j)') =< tok'[j].quota
    BY <1>2, <1>5, <1>6, LiveFinite DEF CapsRespected, SeatFree, SeatConservation, TypeOK, TokRow
  <2> QED
    BY <2>1, <2>2 DEF CapsRespected
<1>9. ReferencesIntact'
  BY <1>1, <1>2, NoneAssumption DEF ReferencesIntact, Registered, Bound, TypeOK, DevRow
<1> QED
  BY <1>4, <1>7, <1>8, <1>9

\* Moving a live device's deadline, and nothing else, keeps the invariant.
LEMMA MoveDeadline ==
    ASSUME IInv, NEW h \in HW, NEW u \in Nat, Live(h),
           dev' = [dev EXCEPT ![h].until = u],
           UNCHANGED <<now, tenant, sub, tok>>
    PROVE  IInv'
<1> USE DEF IInv
<1>1. \A g \in HW : /\ dev'[g].tenant = dev[g].tenant
                    /\ dev'[g].via = dev[g].via
                    /\ dev'[g].revoked = dev[g].revoked
  BY DEF TypeOK, DevRow
<1>2. TypeOK'
  BY DEF TypeOK, DevRow
<1>3. SeatConservation'
  BY <1>1, SeatsKept DEF SeatConservation
<1>4. CapsRespected'
  BY <1>1, SeatsKept DEF CapsRespected, Registered
<1>5. ReferencesIntact'
  BY <1>1 DEF ReferencesIntact, Registered, Bound, Live, TypeOK, DevRow
<1> QED
  BY <1>2, <1>3, <1>4, <1>5

\* Booking for a registered tenant on a token of its own keeps the invariant.
LEMMA BookInv ==
    ASSUME IInv, NEW t \in Tenants, NEW k \in Tokens, NEW h \in HW,
           Registered(t), tok[k].owner = t, Book(t, k, h)
    PROVE  IInv'
<1>1. now + Days(sub[t].window) \in Nat
  BY DaysType DEF IInv, TypeOK, SubRow
<1> QED
  BY <1>1, TakeSeat DEF Book

\* Re-activating a live device keeps the invariant: only its deadline moves.
LEMMA RotateInv ==
    ASSUME IInv, NEW t \in Tenants, NEW h \in HW, Rotate(t, h)
    PROVE  IInv'
<1>1. now + Days(sub[t].window) \in Nat
  BY DaysType DEF IInv, TypeOK, SubRow
<1> QED
  BY <1>1, MoveDeadline DEF Rotate

\* A heartbeat keeps the invariant: only the deadline moves.
LEMMA HeartbeatInv ==
    ASSUME IInv, NEW t \in Tenants, NEW h \in HW, Heartbeat(t, h)
    PROVE  IInv'
<1>1. now + Days(sub[t].window) \in Nat
  BY DaysType DEF IInv, TypeOK, SubRow
<1> QED
  BY <1>1, MoveDeadline DEF Heartbeat

\* Reinstating is booking again on the device's own tenant and token.
LEMMA ReinstateInv ==
    ASSUME IInv, NEW h \in HW, ReinstateDevice(h)
    PROVE  IInv'
<1> DEFINE t == dev[h].tenant
           k == dev[h].via
           u == dev'[h].until
<1>1. Bound(h) /\ dev[h].revoked /\ SeatFree(t, k) /\ tok' = Consume(k)
  BY DEF ReinstateDevice
<1>2. t \in Tenants /\ k \in Tokens /\ tok[k].owner = t /\ Registered(t)
  BY <1>1 DEF IInv, ReferencesIntact, TypeOK, DevRow, Bound
<1>3. now + Days(sub[t].window) \in Nat
  BY <1>2, DaysType DEF IInv, TypeOK, SubRow
<1>4. u \in Nat
  BY <1>2, <1>3 DEF IInv, TypeOK, DevRow, ReinstateDevice
<1>5. dev' = [dev EXCEPT ![h] = [tenant |-> t, via |-> k, revoked |-> FALSE, until |-> u]]
  <2>1. dev' = [dev EXCEPT ![h] = dev'[h]]
    BY DEF IInv, TypeOK, ReinstateDevice
  <2>2. dev[h] \in DevRow
    BY DEF IInv, TypeOK
  <2>3. dev'[h] = [dev[h] EXCEPT !.revoked = FALSE, !.until = u]
    BY <2>2 DEF IInv, TypeOK, DevRow, ReinstateDevice
  <2>4. dev'[h] = [tenant |-> t, via |-> k, revoked |-> FALSE, until |-> u]
    BY <2>2, <2>3 DEF DevRow
  <2> QED
    BY <2>1, <2>4
<1>6. ~Live(h)
  BY <1>1 DEF Live
<1>7. UNCHANGED <<now, tenant, sub>>
  BY DEF ReinstateDevice
<1> HIDE DEF t, k, u
<1> QED
  BY <1>1, <1>2, <1>4, <1>5, <1>6, <1>7, TakeSeat

\* A live device has a seat to give back: the guard seats_consumed > 0 of the
\* release never stops it.
LEMMA GiveSeat ==
    ASSUME IInv, NEW t \in Tenants, NEW k \in Tokens, NEW h \in HW,
           dev[h].tenant = t, dev[h].via = k, tok[k].owner = t, ReleaseSeat(h)
    PROVE  IInv'
<1> USE DEF IInv
<1>1. Live(h) /\ dev' = [dev EXCEPT ![h].revoked = TRUE] /\ UNCHANGED <<now, tenant, sub>>
  BY DEF ReleaseSeat
<1>2. /\ \A g \in HW \ {h} : dev'[g] = dev[g]
      /\ dev'[h] = [dev[h] EXCEPT !.revoked = TRUE]
  BY <1>1 DEF TypeOK
<1>3. dev'[h].tenant = t /\ dev'[h].via = k /\ dev'[h].revoked /\ ~Live(h)'
  BY <1>2 DEF TypeOK, DevRow, Live
<1>4. /\ \A s : LiveOf(s)' = IF s = t THEN LiveOf(s) \ {h} ELSE LiveOf(s)
      /\ \A j : LiveVia(j)' = IF j = k THEN LiveVia(j) \ {h} ELSE LiveVia(j)
      /\ h \in LiveOf(t) /\ h \in LiveVia(k)
  BY <1>1, <1>2, <1>3, SeatGiven
<1>5. /\ Cardinality(LiveOf(t)') = Cardinality(LiveOf(t)) - 1
      /\ Cardinality(LiveVia(k)') = Cardinality(LiveVia(k)) - 1
  <2>1. LiveOf(t)' = LiveOf(t) \ {h} /\ LiveVia(k)' = LiveVia(k) \ {h}
    BY <1>4
  <2>2. Cardinality(LiveOf(t) \ {h}) = Cardinality(LiveOf(t)) - 1
    BY <1>4, LiveFinite, FS_RemoveElement
  <2>3. Cardinality(LiveVia(k) \ {h}) = Cardinality(LiveVia(k)) - 1
    BY <1>4, LiveFinite, FS_RemoveElement
  <2> QED
    BY <2>1, <2>2, <2>3
<1>6. tok[k].consumed > 0
  <2>1. Cardinality(LiveVia(k)) \in Nat /\ Cardinality(LiveVia(k)) # 0
    BY <1>4, LiveFinite, FS_EmptySet
  <2> QED
    BY <2>1 DEF SeatConservation
<1>7. tok' = [tok EXCEPT ![k].consumed = @ - 1]
  BY <1>6 DEF ReleaseSeat
<1>8. tok'[k] = [tok[k] EXCEPT !.consumed = @ - 1] /\ \A j \in Tokens \ {k} : tok'[j] = tok[j]
  BY <1>7 DEF TypeOK
<1>9. /\ \A j \in Tokens : tok'[j].quota = tok[j].quota /\ tok'[j].owner = tok[j].owner
      /\ tok'[k].consumed = tok[k].consumed - 1
  BY <1>8 DEF TypeOK, TokRow
<1>10. TypeOK'
  <2>1. dev' \in [HW -> DevRow]
    BY <1>1 DEF TypeOK, DevRow
  <2>2. tok[k].consumed - 1 \in Nat
    BY <1>6 DEF TypeOK, TokRow
  <2>3. tok' \in [Tokens -> TokRow]
    BY <1>7, <2>2 DEF TypeOK, TokRow
  <2> QED
    BY <1>1, <2>1, <2>3 DEF TypeOK
<1>11. SeatConservation'
  <2>1. tok'[k].consumed = Cardinality(LiveVia(k)')
    BY <1>5, <1>9 DEF SeatConservation
  <2>2. \A j \in Tokens \ {k} : tok'[j].consumed = Cardinality(LiveVia(j)')
    BY <1>4, <1>8 DEF SeatConservation
  <2> QED
    BY <2>1, <2>2 DEF SeatConservation
<1>12. CapsRespected'
  <2>1. \A s \in Tenants : Registered(s)' => Cardinality(LiveOf(s)') =< sub'[s].limit
    BY <1>1, <1>4, <1>5, LiveFinite DEF CapsRespected, Registered, TypeOK, SubRow
  <2>2. \A j \in Tokens : Cardinality(LiveVia(j)') =< tok'[j].quota
    BY <1>4, <1>5, <1>9, LiveFinite DEF CapsRespected, TypeOK, TokRow
  <2> QED
    BY <2>1, <2>2 DEF CapsRespected
<1>13. ReferencesIntact'
  <2>1. \A g \in HW : Bound(g)' = Bound(g) /\ dev'[g].tenant = dev[g].tenant /\ dev'[g].via = dev[g].via
    BY <1>2, <1>3 DEF Bound
  <2>2. \A g \in HW : ~Bound(g)' => dev'[g] = dev[g]
    BY <1>1, <1>2, <2>1 DEF Live
  <2> QED
    BY <1>1, <1>9, <2>1, <2>2 DEF ReferencesIntact, Registered, TypeOK, DevRow
<1> QED
  BY <1>10, <1>11, <1>12, <1>13

\* Releasing a device, by whichever caller, keeps the invariant: the token it was
\* booked on exists and takes the seat back.
LEMMA ReleaseInv ==
    ASSUME IInv, NEW h \in HW, ReleaseSeat(h)
    PROVE  IInv'
<1>1. /\ dev[h].tenant \in Tenants /\ dev[h].via \in Tokens
      /\ tok[dev[h].via].owner = dev[h].tenant
  BY DEF IInv, ReferencesIntact, TypeOK, DevRow, Live, Bound, ReleaseSeat
<1> QED
  BY <1>1, GiveSeat

\* Deleting a tenant takes its tokens and its devices together, so what is left
\* still agrees.
LEMMA DeleteInv ==
    ASSUME IInv, NEW t \in Tenants, DeleteTenant(t)
    PROVE  IInv'
<1> USE DEF IInv
<1>1. /\ tenant' = [tenant EXCEPT ![t] = "NONE"]
      /\ sub' = [sub EXCEPT ![t] = NoSub]
      /\ tok' = [k \in Tokens |-> IF tok[k].owner = t THEN NoTok ELSE tok[k]]
      /\ dev' = [h \in HW |-> IF dev[h].tenant = t THEN NoDev ELSE dev[h]]
      /\ now' = now
  BY DEF DeleteTenant
<1>2. TypeOK'
  BY <1>1 DEF TypeOK, TenantStatus, SubRow, TokRow, DevRow, NoSub, NoTok, NoDev
<1>3. \A h \in HW : Live(h)' <=> Live(h) /\ dev[h].tenant # t
  BY <1>1 DEF Live, Bound, NoDev
<1>4. \A s \in Tenants \ {t} : LiveOf(s)' = LiveOf(s)
  BY <1>1, <1>3 DEF LiveOf
<1>5. \A k \in Tokens : LiveVia(k)' = IF tok[k].owner = t THEN {} ELSE LiveVia(k)
  <2> SUFFICES ASSUME NEW k \in Tokens
               PROVE  LiveVia(k)' = IF tok[k].owner = t THEN {} ELSE LiveVia(k)
    OBVIOUS
  <2>1. \A h \in HW : Live(h) /\ dev[h].via = k => dev[h].tenant = tok[k].owner
    BY DEF ReferencesIntact, Live
  <2>2. \A h \in HW : Live(h)' => dev'[h] = dev[h]
    BY <1>1, <1>3
  <2> QED
    BY <1>3, <2>1, <2>2 DEF LiveVia
<1>6. SeatConservation'
  BY <1>1, <1>5, FS_EmptySet DEF SeatConservation, NoTok
<1>7. CapsRespected'
  <2>1. \A s \in Tenants : Registered(s)' => s # t /\ Registered(s) /\ sub'[s] = sub[s]
    BY <1>1 DEF Registered, TypeOK
  <2>2. \A k \in Tokens : Cardinality(LiveVia(k)') =< tok'[k].quota
    <3>1. \A k \in Tokens : tok[k].owner = t => Cardinality(LiveVia(k)') = 0 /\ tok'[k].quota = 0
      BY <1>1, <1>5, FS_EmptySet DEF NoTok
    <3>2. \A k \in Tokens : tok[k].owner # t => LiveVia(k)' = LiveVia(k) /\ tok'[k] = tok[k]
      BY <1>1, <1>5
    <3> QED
      BY <3>1, <3>2 DEF CapsRespected
  <2> QED
    BY <2>1, <2>2, <1>4 DEF CapsRespected
<1>8. ReferencesIntact'
  <2>1. \A k \in Tokens : tok'[k].owner # None => tok'[k].owner # t /\ tok'[k] = tok[k]
    BY <1>1 DEF NoTok
  <2>2. \A k \in Tokens : tok'[k].owner # None => tenant'[tok'[k].owner] # "NONE"
    BY <1>1, <2>1 DEF ReferencesIntact, Registered, TypeOK, TokRow
  <2>3. \A h \in HW : dev'[h].tenant # None =>
            dev[h].tenant # None /\ dev[h].tenant # t /\ dev'[h] = dev[h]
    BY <1>1 DEF NoDev
  <2>4. \A h \in HW : dev'[h].tenant # None =>
            dev'[h].via # None /\ tok'[dev'[h].via].owner = dev'[h].tenant
    BY <1>1, <2>3 DEF ReferencesIntact, Bound, TypeOK, DevRow
  <2>5. \A h \in HW : dev'[h].tenant = None => dev'[h] = NoDev
    BY <1>1 DEF ReferencesIntact, Bound
  <2> QED
    BY <2>2, <2>4, <2>5 DEF ReferencesIntact, Registered, Bound
<1> QED
  BY <1>2, <1>6, <1>7, <1>8

\* What the operator does to tenants, subscriptions and tokens leaves every
\* binding alone; only the types and the caps need looking at.
LEMMA CreateInv ==
    ASSUME IInv, NEW t \in Tenants, NEW n \in SeatLimits, NEW w \in Windows, NEW g \in Graces,
           CreateTenant(t, n, w, g)
    PROVE  IInv'
<1> USE DEF IInv
<1>1. /\ ~Registered(t) /\ tenant' = [tenant EXCEPT ![t] = "ACTIVE"]
      /\ now' = now /\ tok' = tok /\ dev' = dev
      /\ \A s \in Tenants \ {t} : sub'[s] = sub[s]
  BY DEF CreateTenant, TypeOK
<1>2. TypeOK'
  <2> DEFINE row == NewSub(n, w, g)
  <2>1. row.limit \in Nat /\ row.window \in Nat /\ row.grace \in Nat
    BY InputAssumption, DefaultAssumption DEF OrDefault, NewSub
  <2>2. row.until \in Nat
    BY <2>1, DaysType DEF TypeOK, NewSub
  <2>3. sub' = [sub EXCEPT ![t] = row]
    BY DEF CreateTenant
  <2>4. row \in SubRow
    BY <2>1, <2>2 DEF SubRow, NewSub
  <2> HIDE DEF row
  <2>5. sub' \in [Tenants -> SubRow]
    BY <2>3, <2>4 DEF TypeOK
  <2> QED
    BY <1>1, <2>5 DEF TypeOK, TenantStatus
<1>3. \A s : LiveOf(s)' = LiveOf(s) /\ LiveVia(s)' = LiveVia(s)
  BY <1>1, SeatsKept
<1>4. LiveOf(t) = {}
  BY <1>1 DEF LiveOf, Live, Bound, ReferencesIntact, TypeOK, DevRow
<1>5. CapsRespected'
  <2>1. Cardinality(LiveOf(t)') =< sub'[t].limit
    <3>1. sub'[t].limit \in Nat
      BY <1>2 DEF TypeOK, SubRow
    <3>2. LiveOf(t)' = {}
      BY <1>3, <1>4
    <3>3. Cardinality(LiveOf(t)') = 0
      BY <3>2, FS_EmptySet
    <3> QED
      BY <3>1, <3>3
  <2>2. \A s \in Tenants \ {t} : Registered(s)' => Cardinality(LiveOf(s)') =< sub'[s].limit
    BY <1>1, <1>3 DEF CapsRespected, Registered, TypeOK
  <2> QED
    BY <1>1, <1>3, <2>1, <2>2 DEF CapsRespected
<1>6. SeatConservation'
  BY <1>1, <1>3 DEF SeatConservation
<1>7. ReferencesIntact'
  BY <1>1 DEF ReferencesIntact, Registered, Bound, TypeOK, TokRow
<1> QED
  BY <1>2, <1>5, <1>6, <1>7

\* Payments and changes of standing touch neither limits nor registration.
LEMMA StandingInv ==
    ASSUME IInv, NEW t \in Tenants, RecordPayment(t) \/ SuspendTenant(t) \/ ReactivateTenant(t)
    PROVE  IInv'
<1> USE DEF IInv
<1>1. now' = now /\ tok' = tok /\ dev' = dev
  BY DEF RecordPayment, SuspendTenant, ReactivateTenant
<1>2. PaidThrough(t) \in Nat
  BY DaysType DEF PaidThrough, TypeOK, SubRow
<1>3. sub' \in [Tenants -> SubRow] /\ \A s \in Tenants : sub'[s].limit = sub[s].limit
  BY <1>2 DEF RecordPayment, SuspendTenant, ReactivateTenant, TypeOK, SubRow
<1>4. tenant' \in [Tenants -> TenantStatus] /\ \A s \in Tenants : Registered(s)' = Registered(s)
  BY DEF RecordPayment, SuspendTenant, ReactivateTenant, TypeOK, TenantStatus, Registered
<1>5. \A s : LiveOf(s)' = LiveOf(s) /\ LiveVia(s)' = LiveVia(s)
  BY <1>1, SeatsKept
<1>6. TypeOK'
  BY <1>1, <1>3, <1>4 DEF TypeOK
<1>7. SeatConservation' /\ CapsRespected'
  BY <1>1, <1>3, <1>4, <1>5 DEF SeatConservation, CapsRespected
<1>8. ReferencesIntact'
  BY <1>1, <1>4 DEF ReferencesIntact, Bound, TypeOK, TokRow
<1> QED
  BY <1>6, <1>7, <1>8

\* Issuing a batch token keeps the invariant: no device is booked on it yet.
LEMMA GenerateInv ==
    ASSUME IInv, NEW t \in Tenants, NEW k \in Tokens, NEW q \in Quotas, NEW e \in Expiries,
           GenerateBatchToken(t, k, q, e)
    PROVE  IInv'
<1> USE DEF IInv
<1>1. /\ Registered(t) /\ tok[k].owner = None
      /\ tok' = [tok EXCEPT ![k] = [owner |-> t, quota |-> q, consumed |-> 0,
                                    expires |-> e, revoked |-> FALSE]]
      /\ now' = now /\ tenant' = tenant /\ sub' = sub /\ dev' = dev
  BY DEF GenerateBatchToken
<1>2. TypeOK'
  BY <1>1, InputAssumption DEF TypeOK, TokRow
<1>3. \A s : LiveOf(s)' = LiveOf(s) /\ LiveVia(s)' = LiveVia(s)
  BY <1>1, SeatsKept
<1>4. LiveVia(k) = {}
  BY <1>1 DEF ReferencesIntact, LiveVia, Live, Bound
<1>5. SeatConservation'
  BY <1>1, <1>3, <1>4, FS_EmptySet DEF SeatConservation, TypeOK
<1>6. CapsRespected'
  <2>1. Cardinality(LiveVia(k)') =< tok'[k].quota
    <3>1. tok'[k].quota \in Nat
      BY <1>2 DEF TypeOK, TokRow
    <3>2. LiveVia(k)' = {}
      BY <1>3, <1>4
    <3>3. Cardinality(LiveVia(k)') = 0
      BY <3>2, FS_EmptySet
    <3> QED
      BY <3>1, <3>3
  <2>2. \A j \in Tokens \ {k} : Cardinality(LiveVia(j)') =< tok'[j].quota
    BY <1>1, <1>3 DEF CapsRespected, TypeOK
  <2> QED
    BY <1>1, <1>3, <2>1, <2>2 DEF CapsRespected, Registered
<1>7. ReferencesIntact'
  <2>1. \A j \in Tokens : tok'[j] = IF j = k THEN tok'[k] ELSE tok[j]
    BY <1>1 DEF TypeOK
  <2>2. tok'[k].owner = t
    BY <1>1 DEF TypeOK
  <2>3. \A h \in HW : Bound(h) => dev[h].via # k /\ dev[h].via \in Tokens
    BY <1>1 DEF ReferencesIntact, Bound, TypeOK, DevRow
  <2> QED
    BY <1>1, <2>1, <2>2, <2>3 DEF ReferencesIntact, Registered, Bound
<1> QED
  BY <1>2, <1>5, <1>6, <1>7

\* Revoking a batch token keeps the invariant: its seats stay booked.
LEMMA RevokeTokenInv ==
    ASSUME IInv, NEW k \in Tokens, RevokeBatchToken(k)
    PROVE  IInv'
<1> USE DEF IInv
<1>1. /\ now' = now /\ tenant' = tenant /\ sub' = sub /\ dev' = dev
      /\ tok' = [tok EXCEPT ![k].revoked = TRUE]
  BY DEF RevokeBatchToken
<1>2. \A j \in Tokens : /\ tok'[j].owner = tok[j].owner
                        /\ tok'[j].quota = tok[j].quota
                        /\ tok'[j].consumed = tok[j].consumed
  BY <1>1 DEF TypeOK, TokRow
<1>3. \A s : LiveOf(s)' = LiveOf(s) /\ LiveVia(s)' = LiveVia(s)
  BY <1>1, SeatsKept
<1>4. TypeOK'
  BY <1>1 DEF TypeOK, TokRow
<1>5. SeatConservation' /\ CapsRespected'
  BY <1>1, <1>2, <1>3 DEF SeatConservation, CapsRespected, Registered
<1>6. ReferencesIntact'
  BY <1>1, <1>2 DEF ReferencesIntact, Registered, Bound, TypeOK, DevRow
<1> QED
  BY <1>4, <1>5, <1>6

\* Time alone changes nothing in the tables.
LEMMA QuietInv ==
    ASSUME IInv, now' \in Nat, UNCHANGED <<tenant, sub, tok, dev>>
    PROVE  IInv'
BY SeatsKept DEF IInv, TypeOK, SeatConservation, CapsRespected, ReferencesIntact, Registered, Bound

\* An activation books or rotates for a registered tenant with its own token.
LEMMA ActivateInv ==
    ASSUME IInv, NEW t \in Tenants, NEW k \in Tokens, NEW h \in HW,
           Registered(t), TokenOk(t, k), DoActivate(t, k, h)
    PROVE  IInv'
BY BookInv, RotateInv DEF DoActivate, TokenOk

\* Only what the operator does to tenants touches standing, deadlines or limits
\* of a subscription.
LEMMA OnlyTenantOps ==
    ASSUME [Next]_vars
    PROVE  UNCHANGED <<tenant, sub>> \/ \E t \in Tenants : TenantOps(t)
<1>1. ASSUME NEW k \in Tokens, TokenOps(k) PROVE UNCHANGED <<tenant, sub>>
  BY <1>1 DEF TokenOps, GenerateBatchToken, RevokeBatchToken
<1>2. ASSUME NEW h \in HW, DeviceOps(h) PROVE UNCHANGED <<tenant, sub>>
  <2>1. ASSUME NEW t, NEW k, DoActivate(t, k, h) PROVE UNCHANGED <<tenant, sub>>
    BY <2>1 DEF DoActivate, Book, Rotate
  <2>2. ASSUME NEW t, NEW k, Book(t, k, h) PROVE UNCHANGED <<tenant, sub>>
    BY <2>2 DEF Book
  <2> QED
    BY <1>2, <2>1, <2>2 DEF DeviceOps, CpActivate, PublicActivate, CpConsumeSeat, AdminRevokeDevice,
       CpReleaseSeat, ReleaseSeat, ReinstateDevice, Heartbeat
<1> QED
  BY <1>1, <1>2 DEF Next, vars, Tick

\* The invariant is inductive.
LEMMA NextInv == IInv /\ [Next]_vars => IInv'
<1> SUFFICES ASSUME IInv, [Next]_vars PROVE IInv'
  OBVIOUS
<1>1. CASE UNCHANGED vars
  BY <1>1, QuietInv DEF vars, IInv, TypeOK
<1>2. CASE Tick
  BY <1>2, QuietInv DEF Tick, IInv, TypeOK
<1>3. ASSUME NEW t \in Tenants, TenantOps(t) PROVE IInv'
  BY <1>3, CreateInv, StandingInv, DeleteInv DEF TenantOps
<1>4. ASSUME NEW k \in Tokens, TokenOps(k) PROVE IInv'
  BY <1>4, GenerateInv, RevokeTokenInv DEF TokenOps
<1>5. ASSUME NEW h \in HW, DeviceOps(h) PROVE IInv'
  <2>1. ASSUME NEW t \in Tenants, NEW k \in Tokens, CpActivate(t, k, h) PROVE IInv'
    BY <2>1, ActivateInv DEF CpActivate
  <2>2. ASSUME NEW t \in Tenants, NEW k \in Tokens, CpConsumeSeat(t, k, h) PROVE IInv'
    BY <2>2, BookInv DEF CpConsumeSeat, TokenOk
  <2>3. ASSUME NEW k \in Tokens, PublicActivate(k, h) PROVE IInv'
    <3>1. tok[k].owner \in Tenants /\ Registered(tok[k].owner)
      BY <2>3 DEF PublicActivate, Registered, IInv, TypeOK, TokRow
    <3> QED
      BY <2>3, <3>1, ActivateInv DEF PublicActivate
  <2>4. ASSUME NEW t \in Tenants, CpReleaseSeat(t, h) PROVE IInv'
    BY <2>4, ReleaseInv DEF CpReleaseSeat
  <2>5. CASE AdminRevokeDevice(h)
    BY <2>5, ReleaseInv DEF AdminRevokeDevice
  <2> QED
    BY <1>5, <2>1, <2>2, <2>3, <2>4, <2>5, HeartbeatInv, ReinstateInv DEF DeviceOps
<1> QED
  BY <1>1, <1>2, <1>3, <1>4, <1>5 DEF Next

\* The invariant holds of every reachable state.
THEOREM Inductive == Spec => []IInv
BY InitInv, NextInv, PTL DEF Spec

\* Every row keeps its schema, whatever is asked of the service.
THEOREM TypeCorrect == Spec => []TypeOK
BY Inductive, PTL DEF IInv

\* seats_consumed is always the number of live devices booked on the token.
THEOREM SeatsConserved == Spec => []SeatConservation
BY Inductive, PTL DEF IInv

\* Neither seat_limit nor quota is ever exceeded when requests are serialised.
THEOREM CapsHold == Spec => []CapsRespected
BY Inductive, PTL DEF IInv

\* Deleting a tenant never trips over a device of another one.
THEOREM ReferencesHold == Spec => []ReferencesIntact
BY Inductive, PTL DEF IInv

-----------------------------------------------------------------------------
(* Action properties, from what one step can do to one device.              *)

\* The device takes a seat (booked or reinstated), gives it back, has its
\* deadline moved while live, goes with its tenant, or is left alone.
TakesSeat(h) == ~Live(h) /\ Live(h)'
GivesBack(h) == Live(h) /\ dev'[h] = [dev[h] EXCEPT !.revoked = TRUE]
Renewed(h) == Live(h) /\ dev'[h] = [dev[h] EXCEPT !.until = dev'[h].until]
DeviceFate(h) ==
    \/ dev'[h] = dev[h]
    \/ TakesSeat(h)
    \/ GivesBack(h)
    \/ Renewed(h)
    \/ dev'[h] = NoDev

\* Booking renews the row of a device that is not live, and no other.
LEMMA BookFate ==
    ASSUME IInv, NEW t \in Tenants, NEW k \in Tokens, NEW h \in HW, Book(t, k, h)
    PROVE  \A g \in HW : DeviceFate(g)
<1>1. /\ dev'[h] = [tenant |-> t, via |-> k, revoked |-> FALSE, until |-> now + Days(sub[t].window)]
      /\ \A g \in HW \ {h} : dev'[g] = dev[g]
  BY DEF Book, IInv, TypeOK
<1>2. TakesSeat(h)
  BY <1>1, NoneAssumption DEF TakesSeat, Book, Live, Bound
<1> QED
  BY <1>1, <1>2 DEF DeviceFate

\* A release only revokes, and only the device it names.
LEMMA ReleaseFate ==
    ASSUME IInv, NEW h \in HW, ReleaseSeat(h)
    PROVE  \A g \in HW : DeviceFate(g)
BY DEF DeviceFate, GivesBack, ReleaseSeat, IInv, TypeOK

\* Moving the deadline of a live device is a fate that keeps its binding.
LEMMA RenewFate ==
    ASSUME IInv, NEW t \in Tenants, NEW h \in HW, Rotate(t, h) \/ Heartbeat(t, h)
    PROVE  \A g \in HW : DeviceFate(g)
<1>1. PICK u : dev' = [dev EXCEPT ![h].until = u]
  BY DEF Rotate, Heartbeat
<1>2. dev'[h] = [dev[h] EXCEPT !.until = u] /\ \A g \in HW \ {h} : dev'[g] = dev[g]
  BY <1>1 DEF IInv, TypeOK
<1>3. dev'[h].until = u
  BY <1>2 DEF IInv, TypeOK, DevRow
<1>4. Live(h)
  BY DEF Rotate, Heartbeat
<1> QED
  BY <1>2, <1>3, <1>4 DEF DeviceFate, Renewed

\* Reinstating keeps tenant and token, and takes a revoked device only.
LEMMA ReinstateFate ==
    ASSUME IInv, NEW h \in HW, ReinstateDevice(h)
    PROVE  \A g \in HW : DeviceFate(g)
<1>1. \A g \in HW \ {h} : dev'[g] = dev[g]
  BY DEF ReinstateDevice, IInv, TypeOK
<1>2. dev[h].revoked /\ dev[h].tenant # None /\ dev'[h].tenant = dev[h].tenant /\ ~dev'[h].revoked
  BY DEF ReinstateDevice, IInv, TypeOK, DevRow, Bound
<1>3. TakesSeat(h)
  BY <1>2 DEF TakesSeat, Live, Bound
<1> QED
  BY <1>1, <1>3 DEF DeviceFate

\* Whatever the step, each device meets one of the fates above.
LEMMA StepFate ==
    ASSUME IInv, [Next]_vars
    PROVE  \A g \in HW : DeviceFate(g)
<1>1. CASE dev' = dev
  BY <1>1 DEF DeviceFate
<1>2. ASSUME NEW t \in Tenants, TenantOps(t) PROVE \A g \in HW : DeviceFate(g)
  <2>1. CASE DeleteTenant(t)
    BY <2>1 DEF DeleteTenant, DeviceFate
  <2> QED
    BY <1>1, <1>2, <2>1 DEF TenantOps, CreateTenant, RecordPayment, SuspendTenant, ReactivateTenant
<1>3. ASSUME NEW h \in HW, DeviceOps(h) PROVE \A g \in HW : DeviceFate(g)
  <2>1. ASSUME NEW t \in Tenants, NEW k \in Tokens, DoActivate(t, k, h)
        PROVE  \A g \in HW : DeviceFate(g)
    BY <2>1, BookFate, RenewFate DEF DoActivate
  <2>2. ASSUME NEW k \in Tokens, PublicActivate(k, h) PROVE \A g \in HW : DeviceFate(g)
    <3>1. tok[k].owner \in Tenants
      BY <2>2 DEF PublicActivate, IInv, TypeOK, TokRow
    <3> QED
      BY <2>1, <2>2, <3>1 DEF PublicActivate
  <2>3. ASSUME NEW t \in Tenants, NEW k \in Tokens, CpActivate(t, k, h) \/ CpConsumeSeat(t, k, h)
        PROVE  \A g \in HW : DeviceFate(g)
    BY <2>1, <2>3, BookFate DEF CpActivate, CpConsumeSeat
  <2>4. ASSUME ReleaseSeat(h) PROVE \A g \in HW : DeviceFate(g)
    BY <2>4, ReleaseFate
  <2> QED
    BY <1>3, <2>2, <2>3, <2>4, RenewFate, ReinstateFate
    DEF DeviceOps, CpReleaseSeat, AdminRevokeDevice
<1> QED
  BY <1>1, <1>2, <1>3 DEF Next, Tick, TokenOps, GenerateBatchToken, RevokeBatchToken, vars

\* A live seat is never taken over by another tenant or another token.
THEOREM BindingIsStable == Spec => LiveBindingStable
<1> DEFINE Stable == \A h \in HW : Live(h) /\ Live(h)' =>
                        dev'[h].tenant = dev[h].tenant /\ dev'[h].via = dev[h].via
<1>1. IInv /\ [Next]_vars => Stable
  <2> SUFFICES ASSUME IInv, [Next]_vars, NEW h \in HW, Live(h), Live(h)'
               PROVE  dev'[h].tenant = dev[h].tenant /\ dev'[h].via = dev[h].via
    OBVIOUS
  <2>1. dev[h] \in DevRow
    BY DEF IInv, TypeOK
  <2>2. dev'[h].tenant # None /\ ~dev'[h].revoked
    BY DEF Live, Bound
  <2>3. DeviceFate(h)
    BY StepFate
  <2> QED
    BY <2>1, <2>2, <2>3 DEF DeviceFate, TakesSeat, GivesBack, Renewed, NoDev, DevRow
<1>2. IInv /\ [Next]_vars => [Stable]_vars
  BY <1>1
<1> HIDE DEF Stable
<1>3. Spec => [][Stable]_vars
  BY <1>2, Inductive, PTL DEF Spec
<1> QED
  BY <1>3 DEF LiveBindingStable, Stable

\* Nothing buys time for a revoked device.
THEOREM RevokedStaysFrozen == Spec => RevokedIsFrozen
<1> DEFINE Frozen == \A h \in HW : Bound(h) /\ dev[h].revoked /\ Bound(h)' /\ dev'[h].revoked =>
                        dev'[h] = dev[h]
<1>1. IInv /\ [Next]_vars => Frozen
  <2> SUFFICES ASSUME IInv, [Next]_vars, NEW h \in HW, dev[h].revoked,
                      Bound(h)', dev'[h].revoked
               PROVE  dev'[h] = dev[h]
    OBVIOUS
  <2>1. ~Live(h) /\ ~Live(h)' /\ dev'[h].tenant # None
    BY DEF Live, Bound
  <2>2. DeviceFate(h)
    BY StepFate
  <2> QED
    BY <2>1, <2>2 DEF DeviceFate, TakesSeat, GivesBack, Renewed, NoDev
<1>2. IInv /\ [Next]_vars => [Frozen]_vars
  BY <1>1
<1> HIDE DEF Frozen
<1>3. Spec => [][Frozen]_vars
  BY <1>2, Inductive, PTL DEF Spec
<1> QED
  BY <1>3 DEF RevokedIsFrozen, Frozen

-----------------------------------------------------------------------------
(* Standing.                                                                *)

\* Each operation on a tenant leaves its two status columns and is_paid in
\* agreement, and those of the other tenants alone.
LEMMA StandingNext == IInv /\ StandingConsistent /\ [Next]_vars => StandingConsistent'
<1> SUFFICES ASSUME IInv, StandingConsistent, [Next]_vars PROVE StandingConsistent'
  OBVIOUS
<1>1. CASE UNCHANGED <<tenant, sub>>
  BY <1>1 DEF StandingConsistent, Registered
<1>2. ASSUME NEW t \in Tenants, TenantOps(t) PROVE StandingConsistent'
  <2>1. ASSUME \A s \in Tenants \ {t} : tenant'[s] = tenant[s] /\ sub'[s] = sub[s],
               \/ tenant'[t] = "NONE"
               \/ sub'[t].status = "SUSPENDED" /\ ~sub'[t].paid /\ tenant'[t] = "SUSPENDED"
               \/ sub'[t].status = "ACTIVE"
        PROVE  StandingConsistent'
    BY <2>1 DEF StandingConsistent, Registered
  <2>2. ASSUME NEW n \in SeatLimits, NEW w \in Windows, NEW g \in Graces, CreateTenant(t, n, w, g)
        PROVE  StandingConsistent'
    BY <2>1, <2>2 DEF CreateTenant, NewSub, IInv, TypeOK
  <2>3. CASE RecordPayment(t)
    BY <2>1, <2>3 DEF RecordPayment, IInv, TypeOK, SubRow
  <2>4. CASE SuspendTenant(t)
    BY <2>1, <2>4 DEF SuspendTenant, IInv, TypeOK, SubRow
  <2>5. CASE ReactivateTenant(t)
    BY <2>1, <2>5 DEF ReactivateTenant, IInv, TypeOK, SubRow
  <2>6. CASE DeleteTenant(t)
    BY <2>1, <2>6 DEF DeleteTenant, IInv, TypeOK
  <2> QED
    BY <1>2, <2>2, <2>3, <2>4, <2>5, <2>6 DEF TenantOps
<1> QED
  BY <1>1, <1>2, OnlyTenantOps

\* Tenant status, subscription status and is_paid agree after any history of
\* payments, suspensions and reactivations.
THEOREM StandingHolds == Spec => []StandingConsistent
<1>1. Init => StandingConsistent
  BY DEF Init, StandingConsistent, Registered
<1> QED
  BY <1>1, StandingNext, Inductive, PTL DEF Spec

-----------------------------------------------------------------------------
(* Deadlines.                                                               *)

\* The windows an operator can have given a subscription.
Granted == Windows \cup {DefaultWindow}

\* Deadlines are set from the window of a subscription, so HorizonBounded needs
\* to know where windows come from.
WindowsGranted == \A t \in Tenants : Registered(t) => sub[t].window \in Granted

\* Creation grants a window; no other operation on a tenant changes it.
LEMMA WindowsNext == IInv /\ WindowsGranted /\ [Next]_vars => WindowsGranted'
<1> SUFFICES ASSUME IInv, WindowsGranted, [Next]_vars PROVE WindowsGranted'
  OBVIOUS
<1>1. CASE UNCHANGED <<tenant, sub>>
  BY <1>1 DEF WindowsGranted, Registered
<1>2. ASSUME NEW t \in Tenants, TenantOps(t) PROVE WindowsGranted'
  <2>1. ASSUME \A s \in Tenants \ {t} : tenant'[s] = tenant[s] /\ sub'[s] = sub[s],
               \/ tenant'[t] = "NONE"
               \/ sub'[t].window \in Granted
               \/ Registered(t) /\ sub'[t].window = sub[t].window
        PROVE  WindowsGranted'
    BY <2>1 DEF WindowsGranted, Registered
  <2>2. ASSUME NEW n \in SeatLimits, NEW w \in Windows, NEW g \in Graces, CreateTenant(t, n, w, g)
        PROVE  WindowsGranted'
    BY <2>1, <2>2 DEF CreateTenant, NewSub, OrDefault, Granted, IInv, TypeOK
  <2>3. CASE RecordPayment(t)
    BY <2>1, <2>3 DEF RecordPayment, IInv, TypeOK, SubRow
  <2>4. CASE SuspendTenant(t)
    BY <2>1, <2>4 DEF SuspendTenant, IInv, TypeOK, SubRow
  <2>5. CASE ReactivateTenant(t)
    BY <2>1, <2>5 DEF ReactivateTenant, IInv, TypeOK, SubRow
  <2>6. CASE DeleteTenant(t)
    BY <2>1, <2>6 DEF DeleteTenant, IInv, TypeOK
  <2> QED
    BY <1>2, <2>2, <2>3, <2>4, <2>5, <2>6 DEF TenantOps
<1> QED
  BY <1>1, <1>2, OnlyTenantOps

\* What a step does to one deadline: it stays, or it is set to one granted
\* window from now, or the row is gone.
DeadlineFate(h) ==
    \/ ~Bound(h)'
    \/ Bound(h) /\ dev'[h].until = dev[h].until
    \/ \E w \in Granted : dev'[h].until = now + Days(w)

\* The device operations set deadlines from the window of a registered tenant.
LEMMA DeviceDeadline ==
    ASSUME IInv, WindowsGranted, NEW h \in HW, DeviceOps(h)
    PROVE  \A g \in HW : DeadlineFate(g)
<1>1. ASSUME NEW u, NEW row,
             dev' = [dev EXCEPT ![h] = row], row.until = u,
             \/ u = dev[h].until /\ Bound(h)
             \/ \E w \in Granted : u = now + Days(w)
      PROVE  \A g \in HW : DeadlineFate(g)
  BY <1>1 DEF DeadlineFate, Bound, IInv, TypeOK
<1>2. ASSUME NEW t \in Tenants, NEW k \in Tokens, Registered(t), Book(t, k, h)
      PROVE  \A g \in HW : DeadlineFate(g)
  <2>1. sub[t].window \in Granted
    BY <1>2 DEF WindowsGranted
  <2> QED
    BY <1>1, <1>2, <2>1 DEF Book
<1>3. ASSUME NEW t \in Tenants, Registered(t), Rotate(t, h) \/ Heartbeat(t, h)
      PROVE  \A g \in HW : DeadlineFate(g)
  <2>1. sub[t].window \in Granted /\ dev[h] \in DevRow
    BY <1>3 DEF WindowsGranted, IInv, TypeOK
  <2>2. dev' = [dev EXCEPT ![h] = [dev[h] EXCEPT !.until = now + Days(sub[t].window)]]
    BY <1>3 DEF Rotate, Heartbeat
  <2>3. [dev[h] EXCEPT !.until = now + Days(sub[t].window)].until = now + Days(sub[t].window)
    BY <2>1 DEF DevRow
  <2> QED
    BY <1>1, <2>1, <2>2, <2>3
<1>4. ASSUME ReleaseSeat(h) PROVE \A g \in HW : DeadlineFate(g)
  <2>1. dev[h] \in DevRow /\ Bound(h)
    BY <1>4 DEF ReleaseSeat, Live, IInv, TypeOK
  <2>2. dev' = [dev EXCEPT ![h] = [dev[h] EXCEPT !.revoked = TRUE]]
    BY <1>4 DEF ReleaseSeat
  <2>3. [dev[h] EXCEPT !.revoked = TRUE].until = dev[h].until
    BY <2>1 DEF DevRow
  <2> QED
    BY <1>1, <2>1, <2>2, <2>3
<1>5. ASSUME ReinstateDevice(h) PROVE \A g \in HW : DeadlineFate(g)
  <2>1. dev[h] \in DevRow /\ Bound(h)
    BY <1>5 DEF ReinstateDevice, IInv, TypeOK
  <2>2. dev[h].tenant \in Tenants /\ sub[dev[h].tenant].window \in Granted
    BY <2>1 DEF WindowsGranted, Bound, IInv, TypeOK, DevRow, ReferencesIntact
  <2>3. \/ dev'[h].until = dev[h].until
        \/ dev'[h].until = now + Days(sub[dev[h].tenant].window)
    BY <1>5, <2>1 DEF ReinstateDevice, IInv, TypeOK, DevRow
  <2>4. \A g \in HW \ {h} : dev'[g] = dev[g]
    BY <1>5 DEF ReinstateDevice, IInv, TypeOK
  <2> QED
    BY <2>1, <2>2, <2>3, <2>4 DEF DeadlineFate, Bound
<1>6. ASSUME NEW k \in Tokens, PublicActivate(k, h) PROVE \A g \in HW : DeadlineFate(g)
  <2>1. tok[k].owner \in Tenants /\ Registered(tok[k].owner)
    BY <1>6 DEF PublicActivate, Registered, IInv, TypeOK, TokRow
  <2> QED
    BY <1>2, <1>3, <1>6, <2>1 DEF PublicActivate, DoActivate
<1> QED
  BY <1>2, <1>3, <1>4, <1>5, <1>6
  DEF DeviceOps, CpActivate, CpConsumeSeat, DoActivate, CpReleaseSeat, AdminRevokeDevice, Heartbeat

\* Only device operations set deadlines, only a deletion takes rows away, and
\* only the clock moves time, forwards.
LEMMA HorizonNext == IInv /\ WindowsGranted /\ HorizonBounded /\ [Next]_vars => HorizonBounded'
<1> SUFFICES ASSUME IInv, WindowsGranted, HorizonBounded, [Next]_vars PROVE HorizonBounded'
  OBVIOUS
<1>1. now' \in Nat /\ now \in Nat /\ now =< now'
  <2>1. \A t \in Tenants : TenantOps(t) => now' = now
    BY DEF TenantOps, CreateTenant, RecordPayment, SuspendTenant, ReactivateTenant, DeleteTenant
  <2>2. \A k \in Tokens : TokenOps(k) => now' = now
    BY DEF TokenOps, GenerateBatchToken, RevokeBatchToken
  <2>3. \A h \in HW : DeviceOps(h) => now' = now
    BY DEF DeviceOps, CpActivate, PublicActivate, CpConsumeSeat, DoActivate, Book, Rotate,
           AdminRevokeDevice, CpReleaseSeat, ReleaseSeat, ReinstateDevice, Heartbeat
  <2>4. now' = now \/ now' = now + 1
    BY <2>1, <2>2, <2>3 DEF Next, vars, Tick
  <2> QED
    BY <2>4 DEF IInv, TypeOK
<1>2. \A g \in HW : DeadlineFate(g)
  <2>1. CASE dev' = dev
    BY <2>1 DEF DeadlineFate, Bound
  <2>2. ASSUME NEW t \in Tenants, DeleteTenant(t) PROVE \A g \in HW : DeadlineFate(g)
    BY <2>2 DEF DeleteTenant, DeadlineFate, Bound, NoDev
  <2> QED
    BY <2>1, <2>2, DeviceDeadline
    DEF Next, vars, Tick, TenantOps, CreateTenant, RecordPayment, SuspendTenant,
        ReactivateTenant, TokenOps, GenerateBatchToken, RevokeBatchToken
<1>3. \A w \in Granted : Days(w) \in Nat
  BY DaysType, InputAssumption, DefaultAssumption DEF Granted
<1>4. ASSUME NEW g \in HW, Bound(g)' PROVE \E w \in Granted : dev'[g].until =< now' + Days(w)
  <2>1. \E w \in Granted : dev'[g].until =< now + Days(w)
    <3>1. CASE Bound(g) /\ dev'[g].until = dev[g].until
      BY <3>1 DEF HorizonBounded, Granted
    <3>2. CASE \E w \in Granted : dev'[g].until = now + Days(w)
      BY <3>2, <1>1, <1>3
    <3> QED
      BY <1>2, <1>4, <3>1, <3>2 DEF DeadlineFate
  <2>2. dev'[g].until \in Nat
    BY NextInv DEF IInv, TypeOK, DevRow
  <2> QED
    BY <2>1, <2>2, <1>1, <1>3
<1> QED
  BY <1>4 DEF HorizonBounded, Granted, Days

\* No order of payments, activations, heartbeats and reinstatements buys a
\* device more than one window from now.
THEOREM HorizonHolds == Spec => []HorizonBounded
<1>1. Init => WindowsGranted /\ HorizonBounded
  BY DEF Init, WindowsGranted, Registered, HorizonBounded, Bound, NoDev
<1> QED
  BY <1>1, WindowsNext, HorizonNext, Inductive, PTL DEF Spec

-----------------------------------------------------------------------------
(* Verdicts.                                                                *)

\* A whole number of days is left, or missing, exactly when the instants say so.
LEMMA WholeDays ==
    ASSUME NEW u \in Nat, NEW v \in Nat, NEW n \in Nat
    PROVE  /\ (u - v) \div TicksPerDay >= -n <=> v =< u + Days(n)
           /\ (u - v) \div TicksPerDay >= 0 <=> v =< u
<1> DEFINE q == (u - v) \div TicksPerDay
<1>1. q \in Int /\ TicksPerDay * q =< u - v /\ u - v < TicksPerDay * (q + 1)
  BY ClockAssumption
<1> QED
  BY <1>1, ClockAssumption DEF Days

\* The verdict computed from whole days is the one the deadline means, whatever
\* the length of a tick and the days of grace.
LEMMA VerdictOfRow == IInv => VerdictMatchesDeadline
<1> SUFFICES ASSUME IInv, NEW h \in HW, Bound(h)
             PROVE  /\ DeviceState(h) = "ACTIVE" <=> Live(h) /\ now =< dev[h].until
                    /\ VerifyDevice(dev[h].tenant, h)
                         <=> Live(h) /\ now =< dev[h].until + Days(sub[dev[h].tenant].grace)
  BY DEF VerdictMatchesDeadline
<1> DEFINE until == dev[h].until
           grace == sub[dev[h].tenant].grace
           days == DaysRemaining(until)
<1>1. until \in Nat /\ grace \in Nat /\ now \in Nat /\ 0 \in Nat
  BY DEF IInv, TypeOK, DevRow, SubRow, Bound
<1>2. days >= -grace <=> now =< until + Days(grace)
  BY <1>1, WholeDays DEF DaysRemaining
<1>3. days >= 0 <=> now =< until
  BY <1>1, WholeDays DEF DaysRemaining
<1>4. days \in Int /\ Days(grace) \in Nat
  BY <1>1, DaysType, ClockAssumption DEF DaysRemaining
<1> HIDE DEF until, grace, days
<1>5. DeviceState(h) = IF dev[h].revoked THEN "REVOKED" ELSE IF days >= 0 THEN "ACTIVE"
                       ELSE IF days >= -grace THEN "GRACE" ELSE "EXPIRED"
  BY DEF DeviceState, until, grace, days
<1>6. DeviceState(h) = "ACTIVE" <=> ~dev[h].revoked /\ days >= 0
  BY <1>5
<1>7. DeviceState(h) \in {"ACTIVE", "GRACE"} <=> ~dev[h].revoked /\ (days >= 0 \/ days >= -grace)
  BY <1>5
<1>8. days >= 0 => days >= -grace
  BY <1>1, <1>4
<1> QED
  BY <1>2, <1>3, <1>6, <1>7, <1>8 DEF VerifyDevice, Live, until, grace

\* The verdicts hold of every reachable state.
THEOREM VerdictHolds == Spec => []VerdictMatchesDeadline
BY VerdictOfRow, Inductive, PTL

-----------------------------------------------------------------------------
(* The tables implement SeatPool: initial states map to initial states, and  *)
(* every operation is one move of the pool or leaves the pool alone.  A seat *)
(* of the pool is the token a live device is booked on.                      *)

\* The coupon of the mapped pool that device h holds.
SeatOf(h) == IF Live(h) THEN dev[h].via ELSE None

-----------------------------------------------------------------------------
(* A tenant is a client of the pool exactly while it has a positive limit.  *)

\* The mapping shows the limit and hides the status, so the pool needs this to
\* know who is its client.
LimitsPositive == \A t \in Tenants : Registered(t) <=> sub[t].limit > 0

\* Limits are set on creation, where 0 means the default, and go with the tenant.
LEMMA LimitsNext == IInv /\ LimitsPositive /\ [Next]_vars => LimitsPositive'
<1> SUFFICES ASSUME IInv, LimitsPositive, [Next]_vars PROVE LimitsPositive'
  OBVIOUS
<1>1. CASE UNCHANGED <<tenant, sub>>
  BY <1>1 DEF LimitsPositive, Registered
<1>2. ASSUME NEW t \in Tenants, TenantOps(t) PROVE LimitsPositive'
  <2>1. ASSUME \A s \in Tenants \ {t} : tenant'[s] = tenant[s] /\ sub'[s] = sub[s],
               Registered(t)' <=> sub'[t].limit > 0
        PROVE  LimitsPositive'
    BY <2>1 DEF LimitsPositive, Registered
  <2>2. ASSUME NEW n \in SeatLimits, NEW w \in Windows, NEW g \in Graces, CreateTenant(t, n, w, g)
        PROVE  LimitsPositive'
    <3>1. OrDefault(n, DefaultLimit) > 0
      BY InputAssumption, DefaultAssumption DEF OrDefault
    <3> QED
      BY <2>1, <2>2, <3>1 DEF CreateTenant, NewSub, Registered, IInv, TypeOK
  <2>3. CASE RecordPayment(t) \/ SuspendTenant(t) \/ ReactivateTenant(t)
    <3>1. sub'[t].limit = sub[t].limit
      BY <2>3 DEF RecordPayment, SuspendTenant, ReactivateTenant, IInv, TypeOK, SubRow
    <3>2. Registered(t) /\ Registered(t)'
      BY <2>3 DEF RecordPayment, SuspendTenant, ReactivateTenant, Registered, IInv, TypeOK
    <3>3. \A s \in Tenants \ {t} : tenant'[s] = tenant[s] /\ sub'[s] = sub[s]
      BY <2>3 DEF RecordPayment, SuspendTenant, ReactivateTenant, IInv, TypeOK
    <3> QED
      BY <2>1, <3>1, <3>2, <3>3 DEF LimitsPositive
  <2>4. CASE DeleteTenant(t)
    BY <2>1, <2>4 DEF DeleteTenant, Registered, NoSub, IInv, TypeOK
  <2> QED
    BY <1>2, <2>2, <2>3, <2>4 DEF TenantOps
<1> QED
  BY <1>1, <1>2, OnlyTenantOps

-----------------------------------------------------------------------------
(* The mapped pool, row by row.                                             *)

\* The pool does not move when no limit, owner, quota or seat does.
LEMMA PoolKept ==
    ASSUME \A t \in Tenants : sub'[t].limit = sub[t].limit,
           \A k \in Tokens : tok'[k].owner = tok[k].owner /\ tok'[k].quota = tok[k].quota,
           \A h \in HW : SeatOf(h)' = SeatOf(h)
    PROVE  UNCHANGED Pool!poolVars
BY DEF Pool!poolVars, SeatOf

\* The pool counts with the same Cardinality.
LEMMA SameCardinality == \A S : Pool!Cardinality(S) = Cardinality(S)
BY DEF Pool!Cardinality, Cardinality

\* The sets the pool counts are the live devices of the tables.
LEMMA PoolSets ==
    ASSUME IInv
    PROVE  /\ \A k \in Tokens : Pool!DrawnOn(k) = LiveVia(k)
           /\ \A t \in Tenants : Pool!HeldBy(t) = LiveOf(t)
<1>1. \A h \in HW : Live(h) => /\ dev[h].via # None /\ dev[h].via \in Tokens
                              /\ tok[dev[h].via].owner = dev[h].tenant
  BY DEF Live, IInv, ReferencesIntact, TypeOK, DevRow
<1>2. \A k \in Tokens : k # None
  BY NoneAssumption
<1>3. \A k \in Tokens : Pool!DrawnOn(k) = LiveVia(k)
  BY <1>1, <1>2 DEF Pool!DrawnOn, LiveVia
<1>4. \A t \in Tenants : Pool!HeldBy(t) = LiveOf(t)
  BY <1>1 DEF Pool!HeldBy, LiveOf
<1> QED
  BY <1>3, <1>4

\* Booking and reinstating grant a seat of the pool: both caps are the pool's.
LEMMA GrantsSeat ==
    ASSUME IInv, NEW t \in Tenants, NEW k \in Tokens, NEW h \in HW,
           tok[k].owner = t, ~Live(h), SeatFree(t, k), tok' = Consume(k), sub' = sub,
           \A g \in HW \ {h} : dev'[g] = dev[g], Live(h)', dev'[h].via = k
    PROVE  Pool!Grant(h, k)
<1>1. /\ Cardinality(Pool!DrawnOn(k)) < tok[k].quota
      /\ Cardinality(Pool!HeldBy(t)) < sub[t].limit
  BY PoolSets DEF SeatFree, IInv, SeatConservation
<1>2. \A j \in Tokens : tok'[j].owner = tok[j].owner /\ tok'[j].quota = tok[j].quota
  BY DEF Consume, IInv, TypeOK, TokRow
<1>3. \A g \in HW : SeatOf(g)' = IF g = h THEN k ELSE SeatOf(g)
  BY DEF SeatOf, Live, Bound
<1>4. SeatOf(h) = None /\ t # None
  BY NoneAssumption DEF SeatOf
<1> QED
  BY <1>1, <1>2, <1>3, <1>4, SameCardinality DEF Pool!Grant, SeatOf

\* Booking a seat grants it on the token presented.
LEMMA BookGrants ==
    ASSUME IInv, NEW t \in Tenants, NEW k \in Tokens, NEW h \in HW, tok[k].owner = t, Book(t, k, h)
    PROVE  Pool!Grant(h, k)
<1>1. /\ ~Live(h) /\ SeatFree(t, k) /\ tok' = Consume(k) /\ sub' = sub
      /\ \A g \in HW \ {h} : dev'[g] = dev[g]
      /\ dev'[h].tenant = t /\ dev'[h].via = k /\ ~dev'[h].revoked
  BY DEF Book, IInv, TypeOK
<1>2. Live(h)'
  BY <1>1, NoneAssumption DEF Live, Bound
<1> QED
  BY <1>1, <1>2, GrantsSeat

\* Reinstating grants it on the token it was drawn on before.
LEMMA ReinstateGrants ==
    ASSUME IInv, NEW h \in HW, ReinstateDevice(h)
    PROVE  \E k \in Tokens : Pool!Grant(h, k)
<1>1. /\ Bound(h) /\ ~Live(h) /\ SeatFree(dev[h].tenant, dev[h].via)
      /\ tok' = Consume(dev[h].via) /\ sub' = sub
      /\ \A g \in HW \ {h} : dev'[g] = dev[g]
  BY DEF ReinstateDevice, Live, IInv, TypeOK
<1>2. dev[h].tenant \in Tenants /\ dev[h].via \in Tokens /\ tok[dev[h].via].owner = dev[h].tenant
  BY <1>1 DEF Bound, IInv, ReferencesIntact, TypeOK, DevRow
<1>3. dev'[h].tenant = dev[h].tenant /\ dev'[h].via = dev[h].via /\ ~dev'[h].revoked
  BY DEF ReinstateDevice, IInv, TypeOK, DevRow
<1>4. Live(h)'
  BY <1>1, <1>3 DEF Live, Bound
<1>5. PICK t \in Tenants, k \in Tokens : dev[h].tenant = t /\ dev[h].via = k
  BY <1>2
<1>6. Pool!Grant(h, k)
  BY <1>1, <1>2, <1>3, <1>4, <1>5, GrantsSeat
<1> QED
  BY <1>6

\* A release gives the seat back, on whoever's behalf it is asked for.
LEMMA ReleaseGivesBack ==
    ASSUME IInv, NEW h \in HW, ReleaseSeat(h)
    PROVE  Pool!GiveBack(h)
<1>1. /\ Live(h) /\ sub' = sub
      /\ dev'[h] = [dev[h] EXCEPT !.revoked = TRUE] /\ \A g \in HW \ {h} : dev'[g] = dev[g]
  BY DEF ReleaseSeat, IInv, TypeOK
<1>2. dev'[h].revoked /\ dev[h].via # None
  BY <1>1 DEF Live, IInv, ReferencesIntact, TypeOK, DevRow
<1>3. \A g \in HW : SeatOf(g)' = IF g = h THEN None ELSE SeatOf(g)
  BY <1>1, <1>2 DEF SeatOf, Live, Bound
<1>4. \A j \in Tokens : tok'[j].owner = tok[j].owner /\ tok'[j].quota = tok[j].quota
  BY DEF ReleaseSeat, IInv, TypeOK, TokRow
<1>5. SeatOf(h) # None
  BY <1>1, <1>2 DEF SeatOf
<1> QED
  BY <1>1, <1>3, <1>4, <1>5 DEF Pool!GiveBack, SeatOf

\* Moving a live device's deadline leaves the pool alone.
LEMMA DeadlineKeepsPool ==
    ASSUME IInv, NEW t \in Tenants, NEW h \in HW, Rotate(t, h) \/ Heartbeat(t, h)
    PROVE  UNCHANGED Pool!poolVars
<1>1. \A g \in HW : /\ dev'[g].tenant = dev[g].tenant /\ dev'[g].via = dev[g].via
                    /\ dev'[g].revoked = dev[g].revoked
  BY DEF Rotate, Heartbeat, IInv, TypeOK, DevRow
<1>2. \A g \in HW : SeatOf(g)' = SeatOf(g)
  BY <1>1, SeatsKept DEF SeatOf
<1> QED
  BY <1>2, PoolKept DEF Rotate, Heartbeat

\* Revoking a batch token leaves the pool alone: the seats drawn on it stay.
LEMMA RevocationKeepsPool ==
    ASSUME IInv, NEW k \in Tokens, RevokeBatchToken(k)
    PROVE  UNCHANGED Pool!poolVars
<1>1. \A j \in Tokens : tok'[j].owner = tok[j].owner /\ tok'[j].quota = tok[j].quota
  BY DEF RevokeBatchToken, IInv, TypeOK, TokRow
<1>2. \A g \in HW : SeatOf(g)' = SeatOf(g)
  BY SeatsKept DEF RevokeBatchToken, SeatOf
<1> QED
  BY <1>1, <1>2, PoolKept DEF RevokeBatchToken

\* So do payments and changes of standing.
LEMMA StandingKeepsPool ==
    ASSUME IInv, NEW t \in Tenants, RecordPayment(t) \/ SuspendTenant(t) \/ ReactivateTenant(t)
    PROVE  UNCHANGED Pool!poolVars
<1>1. tok' = tok /\ dev' = dev
  BY DEF RecordPayment, SuspendTenant, ReactivateTenant
<1>2. \A s \in Tenants : sub'[s].limit = sub[s].limit
  BY DEF RecordPayment, SuspendTenant, ReactivateTenant, IInv, TypeOK, SubRow
<1>3. \A g \in HW : SeatOf(g)' = SeatOf(g)
  BY <1>1, SeatsKept DEF SeatOf
<1> QED
  BY <1>1, <1>2, <1>3, PoolKept

\* Registering a tenant opens an account in the pool.
LEMMA CreateOpens ==
    ASSUME IInv, LimitsPositive, NEW t \in Tenants,
           NEW n \in SeatLimits, NEW w \in Windows, NEW g \in Graces, CreateTenant(t, n, w, g)
    PROVE  Pool!Open(t)
<1>1. tok' = tok /\ dev' = dev /\ \A s \in Tenants \ {t} : sub'[s] = sub[s]
  BY DEF CreateTenant, IInv, TypeOK
<1>2. sub[t].limit = 0
  BY DEF CreateTenant, LimitsPositive, IInv, TypeOK, SubRow
<1>3. sub'[t].limit \in Nat
  BY CreateInv DEF IInv, TypeOK, SubRow
<1>4. \A h \in HW : SeatOf(h)' = SeatOf(h)
  BY <1>1, SeatsKept DEF SeatOf
<1> QED
  BY <1>1, <1>2, <1>3, <1>4 DEF Pool!Open, SeatOf

\* Deleting a tenant closes it, with its coupons and its seats.
LEMMA DeleteCloses ==
    ASSUME IInv, NEW t \in Tenants, DeleteTenant(t)
    PROVE  Pool!Close(t)
<1>1. /\ \A s \in Tenants : sub'[s].limit = IF s = t THEN 0 ELSE sub[s].limit
      /\ \A k \in Tokens : /\ tok'[k].owner = IF tok[k].owner = t THEN None ELSE tok[k].owner
                           /\ tok'[k].quota = IF tok[k].owner = t THEN 0 ELSE tok[k].quota
      /\ \A h \in HW : dev'[h] = IF dev[h].tenant = t THEN NoDev ELSE dev[h]
  BY DEF DeleteTenant, NoSub, NoTok, IInv, TypeOK
<1>2. \A h \in HW : h \in Pool!HeldBy(t) <=> Live(h) /\ dev[h].tenant = t
  BY PoolSets DEF LiveOf
<1>3. \A h \in HW : SeatOf(h)' = IF h \in Pool!HeldBy(t) THEN None ELSE SeatOf(h)
  BY <1>1, <1>2 DEF SeatOf, Live, Bound, NoDev
<1> QED
  BY <1>1, <1>3 DEF Pool!Close, SeatOf

\* Issuing a batch token issues a coupon to a client.
LEMMA GenerateIssues ==
    ASSUME IInv, LimitsPositive, NEW t \in Tenants, NEW k \in Tokens,
           NEW q \in Quotas, NEW e \in Expiries, GenerateBatchToken(t, k, q, e)
    PROVE  Pool!Issue(t, k)
<1>1. /\ sub' = sub /\ dev' = dev /\ tok[k].owner = None
      /\ tok'[k].owner = t /\ tok'[k].quota = q
      /\ \A j \in Tokens \ {k} : tok'[j] = tok[j]
  BY DEF GenerateBatchToken, IInv, TypeOK
<1>2. sub[t].limit > 0 /\ q \in Nat
  BY InputAssumption DEF GenerateBatchToken, LimitsPositive
<1>3. \A h \in HW : SeatOf(h)' = SeatOf(h)
  BY <1>1, SeatsKept DEF SeatOf
<1> QED
  BY <1>1, <1>2, <1>3 DEF Pool!Issue, SeatOf

-----------------------------------------------------------------------------
\* Every step of the tables is a move of the pool or a stutter.
LEMMA StepSimulation == IInv /\ LimitsPositive /\ [Next]_vars => [Pool!PoolNext]_(Pool!poolVars)
<1> SUFFICES ASSUME IInv, LimitsPositive, [Next]_vars
             PROVE  Pool!PoolNext \/ UNCHANGED Pool!poolVars
  OBVIOUS
<1>1. CASE UNCHANGED <<tenant, sub, tok, dev>>
  <2>1. \A g \in HW : SeatOf(g)' = SeatOf(g)
    BY <1>1, SeatsKept DEF SeatOf
  <2> QED
    BY <1>1, <2>1, PoolKept
<1>2. ASSUME NEW t \in Tenants, TenantOps(t) PROVE Pool!PoolNext \/ UNCHANGED Pool!poolVars
  BY <1>2, CreateOpens, DeleteCloses, StandingKeepsPool DEF TenantOps, Pool!PoolNext
<1>3. ASSUME NEW k \in Tokens, TokenOps(k) PROVE Pool!PoolNext \/ UNCHANGED Pool!poolVars
  BY <1>3, GenerateIssues, RevocationKeepsPool DEF TokenOps, Pool!PoolNext
<1>4. ASSUME NEW h \in HW, DeviceOps(h) PROVE Pool!PoolNext \/ UNCHANGED Pool!poolVars
  <2>1. ASSUME NEW t \in Tenants, NEW k \in Tokens, tok[k].owner = t, DoActivate(t, k, h)
        PROVE  Pool!PoolNext \/ UNCHANGED Pool!poolVars
    BY <2>1, BookGrants, DeadlineKeepsPool DEF DoActivate, Pool!PoolNext
  <2>2. ASSUME NEW t \in Tenants, NEW k \in Tokens, CpActivate(t, k, h) \/ CpConsumeSeat(t, k, h)
        PROVE  Pool!PoolNext \/ UNCHANGED Pool!poolVars
    BY <2>1, <2>2 DEF CpActivate, CpConsumeSeat, DoActivate, TokenOk
  <2>3. ASSUME NEW k \in Tokens, PublicActivate(k, h)
        PROVE  Pool!PoolNext \/ UNCHANGED Pool!poolVars
    <3>1. PICK t \in Tenants : tok[k].owner = t
      BY <2>3 DEF PublicActivate, IInv, TypeOK, TokRow
    <3>2. DoActivate(t, k, h)
      BY <2>3, <3>1 DEF PublicActivate, DoActivate, Book, Rotate, SeatFree, LiveOf
    <3> QED
      BY <2>1, <3>1, <3>2
  <2>4. CASE ReleaseSeat(h)
    BY <2>4, ReleaseGivesBack DEF Pool!PoolNext
  <2>5. ASSUME NEW t \in Tenants, Heartbeat(t, h) PROVE UNCHANGED Pool!poolVars
    BY <2>5, DeadlineKeepsPool
  <2>6. CASE ReinstateDevice(h)
    BY <2>6, ReinstateGrants DEF Pool!PoolNext
  <2> QED
    BY <1>4, <2>2, <2>3, <2>4, <2>5, <2>6 DEF DeviceOps, CpReleaseSeat, AdminRevokeDevice
<1> QED
  BY <1>1, <1>2, <1>3, <1>4 DEF Next, Tick, vars

\* Seat accounting over counters and tables keeps the promise of the seat pool:
\* seats are granted only within both caps, change hands only by being given
\* back, and leave with their tenant.
THEOREM ImplementsPool == Spec => ImplementsSeatPool
<1>1. Init => Pool!PoolInit
  BY DEF Init, Pool!PoolInit, Live, Bound, NoDev, NoSub, NoTok
<1>2. Init => LimitsPositive
  BY DEF Init, LimitsPositive, Registered, NoSub
<1> QED
  BY <1>1, <1>2, LimitsNext, StepSimulation, Inductive, PTL
  DEF Spec, ImplementsSeatPool, Pool!PoolSpec
=============================================================================
