-------------------------- MODULE LicensingTxProofs --------------------------
(***************************************************************************)
(* Machine-checked proofs about LicensingTx: any number of request threads  *)
(* run the statements of any operations against the tables, in any order    *)
(* the row locks allow.                                                     *)
(* The inductive invariant says what each uncommitted row version is next   *)
(* to the committed one it will replace (TokenDraft, DeviceDraft), what a   *)
(* worker knows at its next statement, and that locks exclude: since a      *)
(* locked row does not change under its holder, both stay true until the    *)
(* commit, where they decide the counters.                                  *)
(***************************************************************************)
EXTENDS LicensingTx, FiniteSetTheorems, TLAPS

Drafted(p) == DOMAIN draft[p]
Books(p) == req[p].op \in {"cp_activate", "public_activate", "cp_consume_seat"}
Rows == Tenants \cup {SubOf(t) : t \in Tenants} \cup Tokens \cup HW

-----------------------------------------------------------------------------
(* What an uncommitted row version is.                                      *)

TenantDraft(p, t) ==
    /\ draft[p][t] \in TenantStatus
    /\ draft[p][t] = "NONE" => Deletes(p) /\ req[p].t = t

SubDraft(p, t) ==
    /\ draft[p][SubOf(t)] \in SubRow
    /\ Registered(t) \/ t \in Drafted(p)

\* p releases a live device that was booked on k.
Releases(p, k) ==
    LET h == req[p].h IN
    h \in HW \cap Drafted(p) /\ Live(h) /\ dev[h].via = k /\ draft[p][h].revoked

TakesOne(p, k) == k \in Drafted(p) /\ draft[p][k].consumed = tok[k].consumed + 1

\* A counter moves by one at most: down with a device of its token, up within
\* the quota; otherwise the token is new, or goes with its tenant.
TokenDraft(p, k) ==
    LET new == draft[p][k]
        old == tok[k]
    IN
    /\ new \in TokRow
    /\ IF Deletes(p) THEN new = NoTok /\ old.owner = req[p].t
       ELSE \/ /\ old.owner # None /\ new.owner = old.owner /\ new.quota = old.quota
               /\ \/ new.consumed = old.consumed
                  \/ new.consumed = old.consumed + 1 /\ old.consumed < old.quota
                  \/ new.consumed = old.consumed - 1 /\ old.consumed > 0 /\ Releases(p, k)
            \/ /\ old.owner = None /\ req[p].op = "generate_token" /\ k = req[p].k
               /\ new.owner = req[p].t /\ new.consumed = 0
               /\ Registered(req[p].t) /\ SubOf(req[p].t) \in share[p]

\* A device comes to life only with the seat that is taken for it.
DeviceDraft(p, h) ==
    LET new == draft[p][h]
        old == dev[h]
    IN
    /\ new \in DevRow
    /\ IF Deletes(p) THEN new = NoDev /\ old.tenant = req[p].t
       ELSE /\ h = req[p].h
            /\ \/ /\ Bound(h) /\ new.tenant = old.tenant /\ new.via = old.via
                  /\ old.revoked => new.revoked
               \/ /\ new.tenant # None /\ new.via \in Tokens /\ TakesOne(p, new.via)
                  /\ tok[new.via].owner = new.tenant
                  /\ old.tenant = new.tenant \/ new.tenant \in share[p]

Draft(p) ==
    /\ Drafted(p) \subseteq Rows
    /\ \A t \in Tenants : t \in Drafted(p) => TenantDraft(p, t)
    /\ \A t \in Tenants : SubOf(t) \in Drafted(p) => SubDraft(p, t)
    /\ \A k \in Tokens : k \in Drafted(p) => TokenDraft(p, k)
    /\ \A h \in HW : h \in Drafted(p) => DeviceDraft(p, h)

-----------------------------------------------------------------------------
(* Where a worker can be, and what it knows there.                          *)

\* The statements of each operation.
OnPath(p) ==
    LET op == req[p].op
        at == pc[p]
    IN
    /\ at \in {"check", "lookup", "rotate", "touch"} => Books(p)
    /\ at \in {"count", "take", "store"} => Books(p) \/ op = "reinstate"
    /\ at \in {"revoke", "give"} => op = "release_seat"
    /\ at = "lock" => op = "reinstate"
    /\ at \in {"heartbeat", "beat"} => op = "heartbeat"
    /\ at = "create" => op = "create"
    /\ at = "generate_token" => op = "generate_token"
    /\ at = "insert" => op \in {"create", "generate_token"}
    /\ at = "revoke_token" => op = "revoke_token"
    /\ at \in {"payment", "record", "pay"} => op = "payment"
    /\ at \in {"status", "substatus"} => op \in {"suspend", "reactivate"}
    /\ at \in {"patch", "audit"} => op = "patch"
    /\ at \in {"delete", "cascade_sub", "cascade_dev", "cascade_tok"} => op = "delete"
    /\ at # "idle" => op \in Ops

\* Nothing is written before the first write.
NothingYet(p) ==
    \/ pc[p] \notin {"count", "take", "store", "give", "substatus", "audit", "cascade_sub",
                     "cascade_dev", "cascade_tok", "commit"}
    \/ pc[p] \in {"count", "take"} /\ Books(p)

\* The token that was judged has not changed hands; once its seat is taken it
\* cannot.
Booking(p) ==
    LET r == req[p] IN
    Books(p) /\ pc[p] \in {"lookup", "count", "take", "store", "rotate", "touch"} =>
        /\ r.t \in Tenants /\ tok[r.k].owner \in {None, r.t}
        /\ pc[p] = "store" =>
              Drafted(p) = {r.k} /\ TakesOne(p, r.k) /\ tok[r.k].owner = r.t

\* The device that is locked is the one that was seen.
Reinstating(p) ==
    LET h == req[p].h IN
    req[p].op = "reinstate" /\ pc[p] \in {"count", "take", "store"} =>
        /\ Bound(h) /\ dev[h].revoked /\ draft[p][h] = dev[h] /\ seen[p].dev = dev[h]
        /\ pc[p] \in {"count", "take"} => Drafted(p) = {h}
        /\ pc[p] = "store" => Drafted(p) = {h, dev[h].via} /\ TakesOne(p, dev[h].via)

Releasing(p) ==
    LET h == req[p].h IN
    pc[p] = "give" =>
        Drafted(p) = {h} /\ Live(h) /\ draft[p][h].revoked /\ seen[p].dev = dev[h]

\* A tenant that is locked stays registered.
Locking(p) ==
    pc[p] \in {"substatus", "cascade_sub"} => Drafted(p) = {req[p].t} /\ Registered(req[p].t)

\* A delete leaves nothing of its tenant behind, and no device of another.
Deleting(p) ==
    LET t == req[p].t IN
    Deletes(p) =>
        /\ pc[p] \in {"cascade_sub", "cascade_dev", "cascade_tok", "commit"} => t \in Drafted(p)
        /\ pc[p] \in {"cascade_dev", "cascade_tok", "commit"} => SubOf(t) \in Drafted(p)
        /\ pc[p] \in {"cascade_tok", "commit"} =>
              \A h \in HW : dev[h].tenant = t => h \in Drafted(p)
        /\ pc[p] = "commit" =>
              /\ \A k \in Tokens : tok[k].owner = t => k \in Drafted(p)
              /\ \A h \in HW : dev[h].via \in Tokens \cap Drafted(p) => h \in Drafted(p)

Local(p) ==
    /\ OnPath(p) /\ (NothingYet(p) => Drafted(p) = {})
    /\ Booking(p) /\ Reinstating(p) /\ Releasing(p) /\ Locking(p) /\ Deleting(p)
    /\ req[p].op = "generate_token" => tok[req[p].k].owner = None

-----------------------------------------------------------------------------
(* What workers know of each other.                                         *)

\* A row has one holder, a row somebody refers to is not deleted, and nobody
\* gets anywhere with a token that is being inserted.
Apart(p, q) ==
    /\ Drafted(p) \cap Drafted(q) = {}
    /\ Deletes(p) => Drafted(p) \cap share[q] = {}
    /\ req[p].op = "generate_token" /\ req[q].k = req[p].k => pc[q] \in {"check", "revoke_token"}

\* A token without an owner has no seats to take.
FreeTokens == \A k \in Tokens : tok[k].owner = None => tok[k].quota = 0

IInv ==
    /\ TxTypeOK /\ NeverUndercounted /\ ReferencesIntact /\ FreeTokens
    /\ \A p \in Workers : Draft(p) /\ Local(p)
    /\ \A p \in Workers, q \in Workers : p # q => Apart(p, q)
-----------------------------------------------------------------------------
(* Lemmas about rows, requests and locks.                                   *)

\* The rows of the four tables have different names.
LEMMA RowNames ==
    /\ \A t \in Tenants : t \notin Tokens /\ t \notin HW
    /\ \A k \in Tokens : k \notin HW
    /\ \A t \in Tenants : SubOf(t) \notin Tenants /\ SubOf(t) \notin Tokens /\ SubOf(t) \notin HW
    /\ \A s, t : SubOf(s) = SubOf(t) => s = t
<1>1. \A s, t : SubOf(s) = SubOf(t) => s = t
  BY DEF SubOf
<1> QED
  BY <1>1, RowsAssumption DEF SubOf

\* What a request names, by its operation.
LEMMA ReqFacts ==
    ASSUME TxTypeOK, NEW p \in Workers
    PROVE  /\ req[p].t \in Tenants \cup {None} /\ req[p].k \in Tokens \cup {None}
           /\ Books(p) => req[p].k \in Tokens /\ req[p].h \in HW
           /\ req[p].op \in {"cp_activate", "cp_consume_seat"} => req[p].t \in Tenants
           /\ req[p].op = "heartbeat" => req[p].t \in Tenants /\ req[p].h \in HW
           /\ req[p].op \in {"release_seat", "reinstate"} => req[p].h \in HW
           /\ req[p].op \in {"payment", "patch", "suspend", "reactivate", "delete", "create"}
                => req[p].t \in Tenants
           /\ req[p].op = "generate_token" => req[p].t \in Tenants /\ req[p].k \in Tokens
           /\ req[p].op = "revoke_token" => req[p].k \in Tokens
<1> DEFINE r == req[p]
<1>1. r \in Served
  BY DEF TxTypeOK
<1>2. CASE r = NoReq
  BY <1>2 DEF NoReq, Books
<1>3. CASE r \in [op : {"public_activate"}, t : Tenants, k : Tokens, h : HW]
  BY <1>3 DEF Books
<1>4. CASE r \in Requests
  BY <1>4 DEF Requests, Books
<1> QED
  BY <1>1, <1>2, <1>3, <1>4 DEF Served

\* A statement that wants one row and runs has that row to itself.
LEMMA Alone ==
    ASSUME NEW p \in Workers, NEW row, NEW s, Runs(p, s), Wanted(p) = {row}
    PROVE  Holders(p, row) = {}
<1> SUFFICES ASSUME Holders(p, row) # {} PROVE FALSE
  OBVIOUS
<1>1. UNION {Holders(p, x) : x \in Wanted(p)} = Holders(p, row)
  OBVIOUS
<1>2. ~ \E x \in Wanted(p) : Holders(p, x) = {}
  OBVIOUS
<1>3. Holders(p, row) \subseteq WaitsFor(p)
  BY <1>1, <1>2 DEF WaitsFor
<1> QED
  BY <1>3 DEF Runs

\* A statement that refers to a row runs only while nobody deletes it.
LEMMA RefersFree ==
    ASSUME NEW p \in Workers, NEW s, Runs(p, s)
    PROVE  \A q \in Workers \ {p} : Deletes(q) => Drafted(q) \cap Referred(p) = {}
BY DEF Runs, WaitsFor, Drafted

\* Whoever has judged a token, or uses it otherwise, finds no request that is
\* still inserting it.
Undisputed(p) ==
    \A q \in Workers \ {p} : ~ (req[q].op = "generate_token" /\ req[q].k = req[p].k)

\* So it is once the token has an owner, or is past being judged.
LEMMA NoDispute ==
    ASSUME IInv, NEW p \in Workers,
           \/ pc[p] \notin {"check", "revoke_token"}
           \/ tok[req[p].k].owner # None
    PROVE  Undisputed(p)
<1> SUFFICES ASSUME NEW q \in Workers \ {p}, req[q].op = "generate_token", req[q].k = req[p].k
             PROVE  FALSE
  BY DEF Undisputed
<1>1. Apart(q, p) /\ Local(q)
  BY DEF IInv
<1> QED
  BY <1>1 DEF Apart, Local

-----------------------------------------------------------------------------
(* Steps that leave the tables alone.                                       *)

Same(q) ==
    /\ pc'[q] = pc[q] /\ req'[q] = req[q] /\ seen'[q] = seen[q]
    /\ draft'[q] = draft[q] /\ share'[q] = share[q]

\* What is known of a worker outlasts a step of another that does not commit.
LEMMA Elsewhere ==
    ASSUME UNCHANGED vars, NEW q, Same(q)
    PROVE  /\ Draft(q) => Draft(q)'
           /\ Local(q) => Local(q)'
<1> USE DEF Same, vars
<1>1. Drafted(q)' = Drafted(q) /\ (Deletes(q)' <=> Deletes(q)) /\ (Books(q)' <=> Books(q))
  BY DEF Drafted, Deletes, Books
<1>2. /\ \A t : Registered(t)' <=> Registered(t)
      /\ \A h : (Bound(h)' <=> Bound(h)) /\ (Live(h)' <=> Live(h))
  BY DEF Registered, Bound, Live
<1>3. \A k : TakesOne(q, k)' <=> TakesOne(q, k)
  BY <1>1 DEF TakesOne
<1>4. \A k : Releases(q, k)' <=> Releases(q, k)
  BY <1>1, <1>2 DEF Releases
<1>5. ASSUME Draft(q) PROVE Draft(q)'
  <2>1. \A t : TenantDraft(q, t)' <=> TenantDraft(q, t)
    BY <1>1 DEF TenantDraft
  <2>2. \A t : SubDraft(q, t)' <=> SubDraft(q, t)
    BY <1>1, <1>2 DEF SubDraft
  <2>3. \A k : TokenDraft(q, k)' <=> TokenDraft(q, k)
    BY <1>1, <1>2, <1>4 DEF TokenDraft
  <2>4. \A h : DeviceDraft(q, h)' <=> DeviceDraft(q, h)
    BY <1>1, <1>2, <1>3 DEF DeviceDraft
  <2> QED
    BY <1>1, <1>5, <2>1, <2>2, <2>3, <2>4 DEF Draft
<1>6. ASSUME Local(q) PROVE Local(q)'
  <2>1. OnPath(q)' <=> OnPath(q)
    BY <1>1 DEF OnPath
  <2>2. NothingYet(q)' <=> NothingYet(q)
    BY <1>1 DEF NothingYet
  <2>3. Booking(q)' <=> Booking(q)
    BY <1>1, <1>3 DEF Booking
  <2>4. Reinstating(q)' <=> Reinstating(q)
    BY <1>1, <1>2, <1>3 DEF Reinstating
  <2>5. Releasing(q)' <=> Releasing(q)
    BY <1>1, <1>2 DEF Releasing
  <2>6. Locking(q)' <=> Locking(q)
    BY <1>1, <1>2 DEF Locking
  <2>7. Deleting(q)' <=> Deleting(q)
    BY <1>1 DEF Deleting
  <2> QED
    BY <1>1, <1>6, <2>1, <2>2, <2>3, <2>4, <2>5, <2>6, <2>7 DEF Local
<1> QED
  BY <1>5, <1>6

\* A function stays one of its type when a value of its range is put in it.
LEMMA Update ==
    ASSUME NEW S, NEW T, NEW f \in [S -> T], NEW x \in S, NEW v \in T
    PROVE  [f EXCEPT ![x] = v] \in [S -> T]
OBVIOUS

Remembered == [sub : SubRow, dev : DevRow]
Referable == Tenants \cup {SubOf(t) : t \in Tenants}

\* What a worker is at, serves, remembers and refers to has its type.
LEMMA ControlTypes ==
    ASSUME TxTypeOK
    PROVE  /\ pc \in [Workers -> Statements] /\ req \in [Workers -> Served]
           /\ seen \in [Workers -> Remembered] /\ share \in [Workers -> SUBSET Referable]
           /\ DOMAIN draft = Workers
BY DEF TxTypeOK, Remembered, Referable

\* A step of p, other than a commit: what it may touch, in the types it has.
Moves(p) ==
    /\ UNCHANGED <<vars, ledger>> /\ crashed' \subseteq Ops
    /\ \A q \in Workers \ {p} : Same(q)
    /\ pc' \in [Workers -> Statements]
    /\ req' \in [Workers -> Served]
    /\ seen' \in [Workers -> Remembered] /\ share' \in [Workers -> SUBSET Referable]
    /\ DOMAIN draft' = Workers
    /\ pc'[p] = "idle" => draft'[p] = Empty /\ share'[p] = {} /\ req'[p] = NoReq

\* Such a step keeps the invariant if it keeps what concerns p.
LEMMA MovesInv ==
    ASSUME IInv, NEW p \in Workers, Moves(p), Draft(p)', Local(p)',
           \A q \in Workers \ {p} : Apart(p, q)' /\ Apart(q, p)'
    PROVE  IInv'
<1>1. UNCHANGED vars
  BY DEF Moves
<1>2. NeverUndercounted' /\ ReferencesIntact' /\ FreeTokens' /\ TypeOK'
  <2>1. TypeOK' /\ FreeTokens'
    BY <1>1 DEF IInv, TxTypeOK, TypeOK, FreeTokens, vars
  <2>2. \A h : (Bound(h)' <=> Bound(h)) /\ (Live(h)' <=> Live(h))
    BY <1>1 DEF Bound, Live, vars
  <2>3. \A k : LiveVia(k)' = LiveVia(k)
    BY <1>1, <2>2 DEF LiveVia, vars
  <2>4. NeverUndercounted'
    BY <1>1, <2>3 DEF IInv, NeverUndercounted, vars
  <2>5. ReferencesIntact'
    BY <1>1, <2>2 DEF IInv, ReferencesIntact, Registered, vars
  <2> QED
    BY <2>1, <2>4, <2>5
<1>3. \A q \in Workers : Draft(q)' /\ Local(q)'
  <2>1. \A q \in Workers \ {p} : Same(q)
    BY DEF Moves
  <2> QED
    BY <1>1, <2>1, Elsewhere DEF IInv
<1>4. \A q, w \in Workers : q # w => Apart(q, w)'
  <2> SUFFICES ASSUME NEW q \in Workers, NEW w \in Workers, q # w PROVE Apart(q, w)'
    OBVIOUS
  <2>1. CASE q = p \/ w = p
    BY <2>1
  <2>2. CASE q # p /\ w # p
    BY <2>2 DEF IInv, Moves, Same, Apart, Drafted, Deletes
  <2> QED
    BY <2>1, <2>2
<1>5. TxTypeOK'
  <2>1. ledger' \in [Tenants -> Nat] /\ crashed' \subseteq Ops
    BY DEF Moves, IInv, TxTypeOK
  <2>2. ASSUME NEW q \in Workers
        PROVE  pc'[q] = "idle" => draft'[q] = Empty /\ share'[q] = {} /\ req'[q] = NoReq
    <3>1. CASE q = p
      BY <3>1 DEF Moves
    <3>2. CASE q # p
      BY <3>2 DEF Moves, Same, IInv, TxTypeOK
    <3> QED
      BY <3>1, <3>2
  <2>3. \A q, w \in Workers : q # w => DOMAIN draft'[q] \cap DOMAIN draft'[w] = {}
    BY <1>4 DEF Apart, Drafted
  <2> QED
    BY <1>2, <2>1, <2>2, <2>3 DEF TxTypeOK, Moves, Remembered, Referable
<1> QED
  BY <1>2, <1>3, <1>4, <1>5 DEF IInv

\* Reading and thinking: a step that drafts nothing.
Reads(p) ==
    /\ Moves(p) /\ pc'[p] # "idle"
    /\ draft' = draft /\ share' = share
    /\ req'[p].op = req[p].op /\ req'[p].k = req[p].k /\ req'[p].h = req[p].h
    /\ req' = req \/ Drafted(p) = {}

\* Such a step keeps the invariant if what p knows next is true.
LEMMA ReadsInv ==
    ASSUME IInv, NEW p \in Workers, Reads(p), Undisputed(p), Local(p)'
    PROVE  IInv'
<1>1. \A q \in Workers \ {p} : Same(q)
  BY DEF Reads, Moves
<1>2. Draft(p)'
  <2>1. CASE Drafted(p) = {}
    BY <2>1 DEF Reads, Draft, Drafted
  <2>2. CASE req' = req
    <3> USE <2>2 DEF Reads, Moves, vars
    <3>1. Drafted(p)' = Drafted(p) /\ (Deletes(p)' <=> Deletes(p)) /\ Draft(p)
      BY DEF Drafted, Deletes, IInv
    <3>2. /\ \A t : Registered(t)' <=> Registered(t)
          /\ \A h : (Bound(h)' <=> Bound(h)) /\ (Live(h)' <=> Live(h))
      BY DEF Registered, Bound, Live
    <3>3. \A k : TakesOne(p, k)' <=> TakesOne(p, k)
      BY <3>1 DEF TakesOne
    <3>4. \A k : Releases(p, k)' <=> Releases(p, k)
      BY <3>1, <3>2 DEF Releases
    <3>5. \A t : TenantDraft(p, t)' <=> TenantDraft(p, t)
      BY <3>1 DEF TenantDraft
    <3>6. \A t : SubDraft(p, t)' <=> SubDraft(p, t)
      BY <3>1, <3>2 DEF SubDraft
    <3>7. \A k : TokenDraft(p, k)' <=> TokenDraft(p, k)
      BY <3>1, <3>2, <3>4 DEF TokenDraft
    <3>8. \A h : DeviceDraft(p, h)' <=> DeviceDraft(p, h)
      BY <3>1, <3>2, <3>3 DEF DeviceDraft
    <3> QED
      BY <3>1, <3>5, <3>6, <3>7, <3>8 DEF Draft
  <2> QED
    BY <2>1, <2>2 DEF Reads
<1>3. ASSUME NEW q \in Workers \ {p} PROVE Apart(p, q)' /\ Apart(q, p)'
  BY <1>1 DEF IInv, Apart, Same, Drafted, Deletes, Reads, Undisputed
<1> QED
  BY <1>2, <1>3, MovesInv DEF Reads

\* A request that ends without a commit leaves nothing behind.
LEMMA GoneInv ==
    ASSUME IInv, NEW p \in Workers, pc[p] # "idle", Leave(p) \/ Crash(p)
    PROVE  IInv'
<1>0. EndRequest(p) /\ UNCHANGED <<vars, ledger>> /\ crashed' \subseteq crashed \cup {req[p].op}
  BY DEF Leave, Crash
<1>1. /\ pc'[p] = "idle" /\ req'[p] = NoReq /\ seen'[p] = NoSeen
      /\ draft'[p] = Empty /\ share'[p] = {}
      /\ \A q \in Workers \ {p} : Same(q)
  BY <1>0 DEF EndRequest, IInv, TxTypeOK, Same
<1>2. NoReq \in Served /\ NoSeen \in Remembered /\ "idle" \in Statements
  BY DEF Served, NoSeen, NoSub, NoDev, SubRow, DevRow, Statements, Remembered
<1>3. crashed' \subseteq Ops
  BY <1>0 DEF IInv, Local, OnPath, TxTypeOK
<1>4. Moves(p)
  <2>1. TxTypeOK
    BY DEF IInv
  <2>2. /\ pc' \in [Workers -> Statements] /\ req' \in [Workers -> Served]
        /\ seen' \in [Workers -> Remembered] /\ share' \in [Workers -> SUBSET Referable]
        /\ DOMAIN draft' = Workers
    BY <1>0, <1>2, <2>1, ControlTypes, Update DEF EndRequest
  <2> QED
    BY <1>0, <1>1, <1>3, <2>2 DEF Moves
<1>5. Drafted(p)' = {}
  BY <1>1 DEF Drafted, Empty
<1>6. Draft(p)'
  BY <1>5 DEF Draft
<1>7. Local(p)'
  BY <1>1, <1>5 DEF Local, OnPath, NothingYet, Booking, Reinstating, Releasing, Locking,
     Deleting, Deletes, Books, NoReq
<1>8. ASSUME NEW q \in Workers \ {p} PROVE Apart(p, q)' /\ Apart(q, p)'
  <2>1. Apart(p, q)'
    BY <1>1, <1>5 DEF Apart, Deletes, NoReq
  <2>2. req[q].op = "generate_token" => req[q].k # None
    BY ReqFacts, NoneAssumption DEF IInv
  <2>3. Same(q) /\ req'[p].k = None
    BY <1>1 DEF NoReq
  <2>4. req'[q].op = "generate_token" => req'[q].k # req'[p].k
    BY <2>2, <2>3 DEF Same
  <2>5. Apart(q, p)'
    BY <1>1, <1>5, <2>4 DEF Apart
  <2> QED
    BY <2>1, <2>5
<1> QED
  BY <1>4, <1>6, <1>7, <1>8, MovesInv

-----------------------------------------------------------------------------
(* Statements that draft a row.                                              *)

Adds(p, row, value, statement) ==
    /\ UNCHANGED <<vars, ledger, crashed>> /\ req' = req
    /\ pc' = [pc EXCEPT ![p] = statement]
    /\ draft' = [draft EXCEPT ![p] = With(draft[p], row, value)]
    /\ share' = [share EXCEPT ![p] = share[p] \cup Referred(p)]
    /\ seen' \in [Workers -> Remembered] /\ \A q \in Workers \ {p} : seen'[q] = seen[q]

\* A write is such a step.
LEMMA WriteAdds ==
    ASSUME TxTypeOK, NEW p \in Workers, NEW row, NEW value, NEW s, Write(p, row, value, s)
    PROVE  Adds(p, row, value, s) /\ seen' = seen
BY ControlTypes DEF Write, Then, Adds

\* What the step changes for p, and what it does not.
LEMMA AddsFacts ==
    ASSUME TxTypeOK, NEW p \in Workers, NEW row, NEW value, NEW s, Adds(p, row, value, s)
    PROVE  /\ Drafted(p)' = Drafted(p) \cup {row} /\ draft'[p][row] = value
           /\ \A x \in Drafted(p) : x # row => draft'[p][x] = draft[p][x]
           /\ pc'[p] = s /\ req' = req /\ share'[p] = share[p] \cup Referred(p)
           /\ tenant' = tenant /\ sub' = sub /\ tok' = tok /\ dev' = dev
           /\ (Deletes(p)' <=> Deletes(p)) /\ (Books(p)' <=> Books(p))
           /\ \A t : Registered(t)' <=> Registered(t)
           /\ \A h : (Bound(h)' <=> Bound(h)) /\ (Live(h)' <=> Live(h))
           /\ \A k : TakesOne(p, k) /\ k # row => TakesOne(p, k)'
           /\ \A q \in Workers \ {p} : Same(q)
<1> DEFINE rows == With(draft[p], row, value)
<1>1. /\ DOMAIN rows = Drafted(p) \cup {row} /\ rows[row] = value
      /\ \A x \in Drafted(p) : x # row => rows[x] = draft[p][x]
  BY DEF Drafted, With
<1>2. draft' = [draft EXCEPT ![p] = rows]
  BY DEF Adds
<1> HIDE DEF rows
<1>3. draft'[p] = rows /\ \A q \in Workers \ {p} : draft'[q] = draft[q]
  BY <1>2, ControlTypes
<1>4. /\ pc'[p] = s /\ req' = req /\ share'[p] = share[p] \cup Referred(p)
      /\ tenant' = tenant /\ sub' = sub /\ tok' = tok /\ dev' = dev
      /\ \A q \in Workers \ {p} : pc'[q] = pc[q] /\ share'[q] = share[q] /\ seen'[q] = seen[q]
  BY ControlTypes DEF Adds, vars
<1>5. /\ Drafted(p)' = Drafted(p) \cup {row} /\ draft'[p][row] = value
      /\ \A x \in Drafted(p) : x # row => draft'[p][x] = draft[p][x]
  BY <1>1, <1>3 DEF Drafted
<1>6. /\ (Deletes(p)' <=> Deletes(p)) /\ (Books(p)' <=> Books(p))
      /\ \A t : Registered(t)' <=> Registered(t)
      /\ \A h : (Bound(h)' <=> Bound(h)) /\ (Live(h)' <=> Live(h))
  BY <1>4 DEF Deletes, Books, Registered, Bound, Live
<1>7. \A k : TakesOne(p, k) /\ k # row => TakesOne(p, k)'
  BY <1>4, <1>5 DEF TakesOne
<1>8. \A q \in Workers \ {p} : Same(q)
  BY <1>3, <1>4 DEF Same
<1> QED
  BY <1>4, <1>5, <1>6, <1>7, <1>8

\* What the row added must be.
Fits(p, row) ==
    /\ row \in Tenants => TenantDraft(p, row)
    /\ \A t \in Tenants : row = SubOf(t) => SubDraft(p, t)
    /\ row \in Tokens => TokenDraft(p, row)
    /\ row \in HW => DeviceDraft(p, row)

\* A row that p had not drafted leaves the others what they are.
LEMMA DraftGrows ==
    ASSUME IInv, NEW p \in Workers, NEW row \in Rows, NEW value, NEW s, Adds(p, row, value, s),
           row \notin Drafted(p), Fits(p, row)'
    PROVE  Draft(p)'
<1>0. TxTypeOK /\ Draft(p)
  BY DEF IInv
<1>1. /\ Drafted(p)' = Drafted(p) \cup {row}
      /\ \A x \in Drafted(p) : draft'[p][x] = draft[p][x]
      /\ req' = req /\ share[p] \subseteq share'[p]
      /\ tenant' = tenant /\ sub' = sub /\ tok' = tok /\ dev' = dev
      /\ (Deletes(p)' <=> Deletes(p))
      /\ \A t : Registered(t)' <=> Registered(t)
      /\ \A h : (Bound(h)' <=> Bound(h)) /\ (Live(h)' <=> Live(h))
      /\ \A k : TakesOne(p, k) /\ k # row => TakesOne(p, k)'
  BY <1>0, AddsFacts
<1>2. Drafted(p)' \subseteq Rows
  BY <1>0, <1>1 DEF Draft
<1>3. ASSUME NEW t \in Tenants, t \in Drafted(p)' PROVE TenantDraft(p, t)'
  <2>1. CASE t = row
    BY <2>1 DEF Fits
  <2>2. CASE t # row
    BY <1>0, <1>1, <1>3, <2>2 DEF Draft, TenantDraft
  <2> QED
    BY <2>1, <2>2
<1>4. ASSUME NEW t \in Tenants, SubOf(t) \in Drafted(p)' PROVE SubDraft(p, t)'
  <2>1. CASE SubOf(t) = row
    BY <2>1 DEF Fits
  <2>2. CASE SubOf(t) # row
    BY <1>0, <1>1, <1>4, <2>2 DEF Draft, SubDraft
  <2> QED
    BY <2>1, <2>2
<1>5. ASSUME NEW k \in Tokens, k \in Drafted(p)' PROVE TokenDraft(p, k)'
  <2>1. CASE k = row
    BY <2>1 DEF Fits
  <2>2. CASE k # row
    <3>1. k \in Drafted(p) /\ TokenDraft(p, k)
      BY <1>0, <1>1, <1>5, <2>2 DEF Draft
    <3>2. Releases(p, k) => Releases(p, k)'
      BY <1>1 DEF Releases
    <3> QED
      BY <1>1, <3>1, <3>2 DEF TokenDraft
  <2> QED
    BY <2>1, <2>2
<1>6. ASSUME NEW h \in HW, h \in Drafted(p)' PROVE DeviceDraft(p, h)'
  <2>1. CASE h = row
    BY <2>1 DEF Fits
  <2>2. CASE h # row
    <3>1. h \in Drafted(p) /\ DeviceDraft(p, h)
      BY <1>0, <1>1, <1>6, <2>2 DEF Draft
    <3>2. \A k : TakesOne(p, k) => TakesOne(p, k)'
      BY <1>1 DEF TakesOne
    <3> QED
      BY <1>1, <3>1, <3>2 DEF DeviceDraft
  <2> QED
    BY <2>1, <2>2
<1> QED
  BY <1>2, <1>3, <1>4, <1>5, <1>6 DEF Draft

\* What a statement refers to can be referred to.
LEMMA ReferredType ==
    ASSUME IInv, NEW p \in Workers
    PROVE  Referred(p) \subseteq Referable
<1>1. TxTypeOK /\ Booking(p) /\ OnPath(p)
  BY DEF IInv, Local
<1>2. CASE pc[p] = "store" /\ req[p].op # "reinstate" /\ dev[req[p].h].tenant # req[p].t
  BY <1>1, <1>2 DEF OnPath, Booking, Referred, Referable
<1>3. CASE pc[p] = "insert" /\ req[p].op = "generate_token"
  BY <1>1, <1>3, ReqFacts DEF Referred, Referable
<1>4. CASE pc[p] = "record"
  <2>1. req[p].t \in Tenants /\ Referred(p) = {SubOf(req[p].t)}
    BY <1>1, <1>4, ReqFacts DEF OnPath, Referred
  <2> QED
    BY <2>1 DEF Referable
<1> QED
  BY <1>2, <1>3, <1>4 DEF Referred

\* A statement that has its row to itself and keeps what concerns p keeps the
\* invariant.
LEMMA AddsInv ==
    ASSUME IInv, NEW p \in Workers, NEW row, NEW value, NEW s \in Statements \ {"idle"},
           Adds(p, row, value, s), NEW at, Runs(p, at), Holders(p, row) = {},
           Undisputed(p), Draft(p)', Local(p)'
    PROVE  IInv'
<1>0. TxTypeOK
  BY DEF IInv
<1>1. /\ Drafted(p)' = Drafted(p) \cup {row} /\ share'[p] = share[p] \cup Referred(p)
      /\ pc'[p] = s /\ req' = req
      /\ \A q \in Workers \ {p} : Same(q)
  BY <1>0, AddsFacts
<1>2. Moves(p)
  <2>1. pc' \in [Workers -> Statements] /\ DOMAIN draft' = Workers
    BY <1>0, ControlTypes DEF Adds
  <2>2. share' \in [Workers -> SUBSET Referable]
    <3>1. share[p] \cup Referred(p) \in SUBSET Referable
      BY <1>0, ControlTypes, ReferredType
    <3> QED
      BY <1>0, <3>1, ControlTypes, Update DEF Adds
  <2>3. UNCHANGED <<vars, ledger>> /\ crashed' \subseteq Ops
    BY <1>0 DEF Adds, TxTypeOK
  <2> QED
    BY <1>0, <1>1, <2>1, <2>2, <2>3, ControlTypes DEF Moves, Adds
<1>3. ASSUME NEW q \in Workers \ {p} PROVE Apart(p, q)' /\ Apart(q, p)'
  <2>1. Same(q) /\ Apart(p, q) /\ Apart(q, p)
    BY <1>1 DEF IInv
  <2>2. row \notin Drafted(q) /\ (Deletes(p) => row \notin share[q])
    BY DEF Holders, Drafted
  <2>3. Deletes(q) => Drafted(q) \cap Referred(p) = {}
    BY RefersFree
  <2>4. Drafted(q)' = Drafted(q) /\ (Deletes(q)' <=> Deletes(q)) /\ (Deletes(p)' <=> Deletes(p))
    BY <1>1, <2>1 DEF Same, Drafted, Deletes
  <2>5. Apart(p, q)'
    BY <1>1, <2>1, <2>2, <2>4 DEF Apart, Same
  <2>6. Apart(q, p)'
    BY <1>1, <2>1, <2>2, <2>3, <2>4 DEF Apart, Same, Undisputed
  <2> QED
    BY <2>5, <2>6
<1> QED
  BY <1>2, <1>3, MovesInv

-----------------------------------------------------------------------------
(* Lemmas the actions share.                                                *)

\* Looking at rows and going on.
LEMMA LooksReads ==
    ASSUME IInv, NEW p \in Workers, NEW s \in Statements \ {"idle"}, Then(p, s),
           UNCHANGED <<req, draft, share>>,
           seen' \in [Workers -> Remembered], \A q \in Workers \ {p} : seen'[q] = seen[q]
    PROVE  /\ Reads(p) /\ pc'[p] = s /\ req' = req
           /\ UNCHANGED vars /\ Drafted(p)' = Drafted(p) /\ draft'[p] = draft[p]
<1>1. TxTypeOK
  BY DEF IInv
<1>2. pc' = [pc EXCEPT ![p] = s] /\ UNCHANGED <<vars, ledger, crashed>>
  BY DEF Then
<1>3. /\ pc'[p] = s /\ pc' \in [Workers -> Statements]
      /\ \A q \in Workers \ {p} : Same(q)
  BY <1>1, <1>2, ControlTypes DEF Same
<1>4. Moves(p)
  BY <1>1, <1>2, <1>3, ControlTypes DEF Moves, TxTypeOK
<1> QED
  BY <1>2, <1>3, <1>4 DEF Reads, Drafted

\* A statement that matched no row.
LEMMA SkipReads ==
    ASSUME IInv, NEW p \in Workers, NEW s \in Statements \ {"idle"}, Skip(p, s)
    PROVE  /\ Reads(p) /\ pc'[p] = s /\ req' = req /\ seen' = seen
           /\ UNCHANGED vars /\ Drafted(p)' = Drafted(p) /\ draft'[p] = draft[p]
<1>1. TxTypeOK /\ Then(p, s) /\ UNCHANGED <<req, seen, draft, share>>
  BY DEF IInv, Skip
<1>2. seen' \in [Workers -> Remembered] /\ \A q \in Workers \ {p} : seen'[q] = seen[q]
  BY <1>1, ControlTypes
<1> QED
  BY <1>1, <1>2, LooksReads

\* A worker remembers a row of subscriptions, or of the device table.
LEMMA SeesSub ==
    ASSUME TxTypeOK, NEW p \in Workers, NEW row \in SubRow, seen' = [seen EXCEPT ![p].sub = row]
    PROVE  /\ seen' \in [Workers -> Remembered] /\ \A q \in Workers \ {p} : seen'[q] = seen[q]
           /\ seen'[p].sub = row /\ seen'[p].dev = seen[p].dev
<1>1. seen \in [Workers -> Remembered]
  BY ControlTypes
<1>2. seen[p] \in Remembered
  BY <1>1
<1>3. [seen[p] EXCEPT !.sub = row] \in Remembered
  BY <1>2 DEF Remembered
<1> QED
  BY <1>1, <1>2, <1>3 DEF Remembered

\* It may remember the device row.
LEMMA SeesDev ==
    ASSUME TxTypeOK, NEW p \in Workers, NEW row \in DevRow, seen' = [seen EXCEPT ![p].dev = row]
    PROVE  /\ seen' \in [Workers -> Remembered] /\ \A q \in Workers \ {p} : seen'[q] = seen[q]
           /\ seen'[p].dev = row /\ seen'[p].sub = seen[p].sub
<1>1. seen \in [Workers -> Remembered]
  BY ControlTypes
<1>2. seen[p] \in Remembered
  BY <1>1
<1>3. [seen[p] EXCEPT !.dev = row] \in Remembered
  BY <1>2 DEF Remembered
<1> QED
  BY <1>1, <1>2, <1>3 DEF Remembered

\* Once it has only to commit, a worker that deletes nothing knows nothing more.
LEMMA ReadyToCommit ==
    ASSUME IInv, NEW p \in Workers, pc[p] # "idle", ~Deletes(p),
           UNCHANGED vars, req' = req, pc'[p] = "commit"
    PROVE  Local(p)'
<1>1. /\ req[p].op \in Ops
      /\ req[p].op = "generate_token" => tok[req[p].k].owner = None
  BY DEF IInv, Local, OnPath
<1>2. tok' = tok /\ req'[p] = req[p]
  BY DEF vars
<1>3. OnPath(p)' /\ ~ NothingYet(p)'
  BY <1>1, <1>2 DEF OnPath, NothingYet
<1>4. Booking(p)' /\ Reinstating(p)' /\ Releasing(p)' /\ Locking(p)'
  BY DEF Booking, Reinstating, Releasing, Locking
<1>5. Deleting(p)'
  BY <1>2 DEF Deleting, Deletes
<1> QED
  BY <1>1, <1>2, <1>3, <1>4, <1>5 DEF Local

\* The rows of the tables, and what may be put in them.
LEMMA RowTypes ==
    ASSUME IInv
    PROVE  /\ now \in Nat
           /\ \A t \in Tenants : tenant[t] \in TenantStatus /\ sub[t] \in SubRow
           /\ \A k \in Tokens : tok[k] \in TokRow
           /\ \A h \in HW : dev[h] \in DevRow
           /\ NoSub \in SubRow /\ NoTok \in TokRow /\ NoDev \in DevRow
<1>1. NoSub \in SubRow /\ NoTok \in TokRow /\ NoDev \in DevRow
  BY DEF NoSub, NoTok, NoDev, SubRow, TokRow, DevRow
<1>2. TypeOK
  BY DEF IInv, TxTypeOK
<1> QED
  BY <1>1, <1>2 DEF TypeOK

\* A bound device refers to a token of its tenant.
LEMMA BoundFacts ==
    ASSUME IInv, NEW h \in HW, Bound(h)
    PROVE  /\ dev[h].tenant \in Tenants /\ dev[h].via \in Tokens
           /\ tok[dev[h].via].owner = dev[h].tenant
<1>1. dev[h].tenant \in Tenants \cup {None} /\ dev[h].via \in Tokens \cup {None}
  BY RowTypes DEF DevRow
<1>2. ReferencesIntact
  BY DEF IInv
<1> QED
  BY <1>1, <1>2 DEF ReferencesIntact, Bound

\* A whole number of days is a whole number of ticks.
LEMMA DaysNat == \A n \in Nat : Days(n) \in Nat
BY ClockAssumption DEF Days

-----------------------------------------------------------------------------
(* Booking a seat.                                                           *)

\* A token is judged: nothing is written, and its tenant is noted.
LEMMA CheckInv == ASSUME IInv, NEW p \in Workers, Check(p) PROVE IInv'
<1> DEFINE r == req[p]
           t == IF r.op = "public_activate" THEN tok[r.k].owner ELSE r.t
<1>0. TxTypeOK /\ pc[p] = "check" /\ OnPath(p) /\ Local(p)
  BY DEF IInv, Check, Runs, Local
<1>1. Books(p) /\ r.k \in Tokens /\ r.h \in HW
  BY <1>0, ReqFacts DEF OnPath
<1>2. CASE Leave(p)
  BY <1>0, <1>2, GoneInv
<1>3. CASE /\ t # None /\ TokenOk(t, r.k) /\ Then(p, "lookup")
           /\ req' = [req EXCEPT ![p].t = t] /\ seen' = [seen EXCEPT ![p].sub = sub[t]]
           /\ UNCHANGED <<draft, share>>
  <2>1. t \in Tenants /\ tok[r.k].owner = t
    <3>1. tok[r.k].owner \in Tenants \cup {None}
      BY <1>1, RowTypes DEF TokRow
    <3>2. tok[r.k].owner = t
      BY <1>3 DEF TokenOk
    <3> QED
      BY <1>3, <3>1, <3>2
  <2>2. /\ seen' \in [Workers -> Remembered] /\ \A q \in Workers \ {p} : seen'[q] = seen[q]
    BY <1>0, <1>3, <2>1, SeesSub, RowTypes
  <2>3. /\ req' \in [Workers -> Served] /\ \A q \in Workers \ {p} : req'[q] = req[q]
        /\ req'[p].op = r.op /\ req'[p].k = r.k /\ req'[p].h = r.h /\ req'[p].t = t
    <3>1. req \in [Workers -> Served] /\ r \in Served
      BY <1>0, ControlTypes
    <3> DEFINE s == [r EXCEPT !.t = t]
    <3>2. s \in Served /\ s.op = r.op /\ s.k = r.k /\ s.h = r.h /\ s.t = t
      <4>1. r \in Requests \/ r \in [op : {"public_activate"}, t : Tenants, k : Tokens, h : HW]
        BY <1>1, <3>1 DEF Served, Books, NoReq
      <4>2. CASE r.op = "public_activate"
        BY <1>1, <2>1, <4>1, <4>2 DEF Served, Requests
      <4>3. CASE r.op # "public_activate"
        <5>1. s = r
          BY <4>1, <4>3 DEF Requests
        <5> QED
          BY <3>1, <4>3, <5>1
      <4> QED
        BY <4>2, <4>3
    <3>3. req' = [req EXCEPT ![p] = s]
      BY <1>3, <3>1
    <3> HIDE DEF s
    <3> QED
      BY <3>1, <3>2, <3>3
  <2>4. /\ pc' \in [Workers -> Statements] /\ pc'[p] = "lookup"
        /\ \A q \in Workers \ {p} : pc'[q] = pc[q]
    BY <1>0, <1>3, ControlTypes DEF Then, Statements
  <2>5. /\ \A q \in Workers \ {p} : Same(q)
        /\ UNCHANGED <<vars, ledger, crashed>> /\ draft' = draft /\ share' = share
    BY <1>3, <2>2, <2>3, <2>4 DEF Same, Then
  <2>6. Drafted(p) = {} /\ Drafted(p)' = {}
    BY <1>0, <2>5 DEF Local, NothingYet, Drafted
  <2>7. Moves(p)
    BY <1>0, <2>2, <2>3, <2>4, <2>5, ControlTypes DEF Moves, TxTypeOK
  <2>8. Reads(p)
    BY <2>3, <2>4, <2>5, <2>6, <2>7 DEF Reads
  <2>9. Local(p)'
    <3>1. tok' = tok
      BY <2>5 DEF vars
    <3>2. Books(p)' /\ ~ Deletes(p)'
      BY <1>1, <2>3 DEF Books, Deletes
    <3>3. OnPath(p)'
      BY <1>0, <2>3, <2>4, <3>2 DEF OnPath
    <3>4. Booking(p)'
      BY <2>1, <2>3, <2>4, <3>1 DEF Booking
    <3>5. Reinstating(p)' /\ Releasing(p)' /\ Locking(p)' /\ Deleting(p)'
      BY <2>4, <3>2 DEF Reinstating, Releasing, Locking, Deleting
    <3>6. req'[p].op # "generate_token"
      BY <3>2 DEF Books
    <3> QED
      BY <2>6, <3>3, <3>4, <3>5, <3>6 DEF Local
  <2>10. Undisputed(p)
    BY <2>1, NoneAssumption, NoDispute
  <2> QED
    BY <2>8, <2>9, <2>10, ReadsInv
<1> QED
  BY <1>2, <1>3 DEF Check

\* A booking goes on with what it knows while it writes nothing.
LEMMA BookingGoesOn ==
    ASSUME IInv, NEW p \in Workers, Books(p), pc[p] \in {"lookup", "count"},
           UNCHANGED vars, req' = req, Drafted(p)' = Drafted(p),
           pc'[p] \in {"count", "take", "touch", "rotate"}
    PROVE  Local(p)'
<1>1. Local(p) /\ Drafted(p) = {}
  BY DEF IInv, Local, NothingYet
<1>2. tok' = tok /\ req'[p] = req[p] /\ Books(p)' /\ ~ Deletes(p)'
  BY DEF vars, Books, Deletes
<1>3. OnPath(p)' /\ Booking(p)'
  BY <1>1, <1>2 DEF Local, OnPath, Booking
<1>4. Reinstating(p)' /\ Releasing(p)' /\ Locking(p)' /\ Deleting(p)'
  BY <1>2 DEF Reinstating, Releasing, Locking, Deleting, Books
<1> QED
  BY <1>1, <1>2, <1>3, <1>4 DEF Local, Books

\* The device row is read.
LEMMA LookupInv == ASSUME IInv, NEW p \in Workers, Lookup(p) PROVE IInv'
<1> DEFINE h == req[p].h
<1>0. TxTypeOK /\ pc[p] = "lookup" /\ OnPath(p)
  BY DEF IInv, Lookup, Runs, Local
<1>1. Books(p) /\ h \in HW
  BY <1>0, ReqFacts DEF OnPath
<1>2. CASE Leave(p)
  BY <1>0, <1>2, GoneInv
<1>3. CASE /\ \E s \in {"count", "touch", "rotate"} : Then(p, s)
           /\ seen' = [seen EXCEPT ![p].dev = dev[h]]
           /\ UNCHANGED <<req, draft, share>>
  <2>1. PICK s \in {"count", "touch", "rotate"} : Then(p, s)
    BY <1>3
  <2>2. /\ seen' \in [Workers -> Remembered] /\ \A q \in Workers \ {p} : seen'[q] = seen[q]
    BY <1>0, <1>1, <1>3, SeesDev, RowTypes
  <2>3. s \in Statements \ {"idle"}
    BY DEF Statements
  <2>4. Reads(p) /\ pc'[p] = s /\ UNCHANGED vars /\ Drafted(p)' = Drafted(p)
    BY <1>3, <2>1, <2>2, <2>3, LooksReads
  <2>5. Local(p)'
    BY <1>0, <1>1, <1>3, <2>4, BookingGoesOn
  <2> QED
    BY <1>0, <2>4, <2>5, NoDispute, ReadsInv
<1> QED
  BY <1>2, <1>3 DEF Lookup

\* The live devices are counted.
LEMMA CountInv == ASSUME IInv, NEW p \in Workers, Count(p) PROVE IInv'
<1> DEFINE t == IF req[p].op = "reinstate" THEN seen[p].dev.tenant ELSE req[p].t
           row == IF req[p].op = "reinstate" THEN sub[t] ELSE seen[p].sub
<1>0. TxTypeOK /\ pc[p] = "count" /\ Local(p)
  BY DEF IInv, Count, Runs
<1>1. row \in SubRow
  <2>1. CASE req[p].op = "reinstate"
    <3>1. req[p].h \in HW /\ Bound(req[p].h) /\ seen[p].dev = dev[req[p].h]
      BY <1>0, <2>1, ReqFacts DEF Local, Reinstating
    <3>2. t \in Tenants
      BY <2>1, <3>1, BoundFacts
    <3> QED
      BY <2>1, <3>2, RowTypes
  <2>2. CASE req[p].op # "reinstate"
    BY <1>0, <2>2, ControlTypes DEF Remembered
  <2> QED
    BY <2>1, <2>2
<1>2. CASE Leave(p)
  BY <1>0, <1>2, GoneInv
<1>3. CASE /\ Then(p, "take") /\ seen' = [seen EXCEPT ![p].sub = row]
           /\ UNCHANGED <<req, draft, share>>
  <2>1. /\ seen' \in [Workers -> Remembered] /\ \A q \in Workers \ {p} : seen'[q] = seen[q]
        /\ seen'[p].dev = seen[p].dev
    <3> HIDE DEF row
    <3> QED
      BY <1>0, <1>1, <1>3, SeesSub
  <2>2. "take" \in Statements \ {"idle"}
    BY DEF Statements
  <2>3. /\ Reads(p) /\ pc'[p] = "take" /\ UNCHANGED vars
        /\ Drafted(p)' = Drafted(p) /\ draft'[p] = draft[p]
    BY <1>3, <2>1, <2>2, LooksReads
  <2>4. Local(p)'
    <3>1. CASE Books(p)
      BY <1>0, <1>3, <2>3, <3>1, BookingGoesOn
    <3>2. CASE req[p].op = "reinstate"
      <4>1. dev' = dev /\ req'[p] = req[p] /\ (\A h : Bound(h)' <=> Bound(h))
        BY <1>3, <2>3 DEF vars, Bound
      <4>2. Reinstating(p)'
        BY <1>0, <2>1, <2>3, <3>2, <4>1 DEF Local, Reinstating
      <4>3. OnPath(p)' /\ Booking(p)' /\ Releasing(p)' /\ Locking(p)' /\ Deleting(p)'
        BY <1>0, <2>3, <3>2, <4>1 DEF Local, OnPath, Booking, Books, Releasing, Locking,
           Deleting, Deletes
      <4>4. ~ NothingYet(p)'
        BY <2>3, <3>2, <4>1 DEF NothingYet, Books
      <4> QED
        BY <3>2, <4>1, <4>2, <4>3, <4>4 DEF Local
    <3> QED
      BY <1>0, <3>1, <3>2 DEF Local, OnPath
  <2> QED
    BY <1>0, <2>3, <2>4, NoDispute, ReadsInv
<1> QED
  BY <1>2, <1>3 DEF Count

\* A seat is taken while the row is locked, so the quota still has room.
LEMMA TakeInv == ASSUME IInv, NEW p \in Workers, Take(p) PROVE IInv'
<1> DEFINE r == req[p]
           j == IF r.op \in {"release_seat", "reinstate"} THEN seen[p].dev.via ELSE r.k
<1>0. TxTypeOK /\ pc[p] = "take" /\ Local(p) /\ Runs(p, "take")
  BY DEF IInv, Take, Runs
<1>1. CASE Leave(p)
  BY <1>0, <1>1, GoneInv
<1>2. CASE \E k \in Wanted(p) : Write(p, k, [tok[k] EXCEPT !.consumed = @ + 1], "store")
  <2>1. PICK k \in Wanted(p) : Write(p, k, [tok[k] EXCEPT !.consumed = @ + 1], "store")
    BY <1>2
  <2>2. k \in Tokens /\ k = j /\ tok[k].consumed < tok[k].quota /\ Wanted(p) = {k}
    BY <1>0, <2>1 DEF Wanted
  <2>3. tok[k] \in TokRow /\ tok[k].owner # None
    BY <2>2, RowTypes DEF TokRow, IInv, FreeTokens
  <2> DEFINE value == [tok[k] EXCEPT !.consumed = @ + 1]
  <2>4. /\ value \in TokRow /\ value.consumed = tok[k].consumed + 1
        /\ value.owner = tok[k].owner /\ value.quota = tok[k].quota
    BY <2>3 DEF TokRow
  <2> HIDE DEF value
  <2>5. Adds(p, k, value, "store")
    BY <1>0, <2>1, WriteAdds DEF value
  <2>6. Holders(p, k) = {}
    BY <1>0, <2>2, Alone
  <2>7. /\ Drafted(p)' = Drafted(p) \cup {k} /\ draft'[p][k] = value
        /\ \A x \in Drafted(p) : x # k => draft'[p][x] = draft[p][x]
        /\ pc'[p] = "store" /\ req' = req /\ tok' = tok /\ dev' = dev
        /\ (Deletes(p)' <=> Deletes(p)) /\ (Books(p)' <=> Books(p))
        /\ \A h : Bound(h)' <=> Bound(h)
    BY <1>0, <2>5, AddsFacts
  <2>8. seen' = seen
    BY <1>0, <2>1, WriteAdds
  <2>9. k \notin Drafted(p)
    BY <1>0, <2>2, ReqFacts, RowNames DEF Local, OnPath, NothingYet, Reinstating
  <2>10. ~ Deletes(p)
    BY <1>0 DEF Local, OnPath, Books, Deletes
  <2>11. TokenDraft(p, k)'
    BY <2>2, <2>3, <2>4, <2>7, <2>10 DEF TokenDraft
  <2>12. k \in Rows /\ Fits(p, k)'
    BY <2>2, <2>11, RowNames DEF Rows, Fits
  <2>13. Draft(p)'
    BY <2>5, <2>9, <2>12, DraftGrows
  <2>14. TakesOne(p, k)'
    BY <2>4, <2>7 DEF TakesOne
  <2>15. Local(p)'
    <3>1. OnPath(p)' /\ ~ NothingYet(p)'
      BY <1>0, <2>7 DEF Local, OnPath, NothingYet
    <3>2. Booking(p)'
      <4>1. CASE Books(p)
        <5>1. k = r.k /\ Drafted(p) = {} /\ r.t \in Tenants /\ tok[k].owner = r.t
          BY <1>0, <2>2, <2>3, <4>1 DEF Local, NothingYet, Booking, Books
        <5> QED
          BY <2>7, <2>14, <5>1 DEF Booking
      <4>2. CASE ~ Books(p)
        BY <2>7, <4>2 DEF Booking
      <4> QED
        BY <4>1, <4>2
    <3>3. Reinstating(p)'
      <4>1. CASE r.op = "reinstate"
        <5> DEFINE h == r.h
        <5>1. /\ h \in HW /\ Bound(h) /\ dev[h].revoked /\ draft[p][h] = dev[h]
              /\ seen[p].dev = dev[h] /\ Drafted(p) = {h} /\ k = dev[h].via
          BY <1>0, <2>2, <4>1, ReqFacts DEF Local, Reinstating
        <5>2. draft'[p][h] = dev[h] /\ Drafted(p)' = {h, dev[h].via}
          BY <2>2, <2>7, <5>1, RowNames
        <5> QED
          BY <2>7, <2>8, <2>14, <5>1, <5>2 DEF Reinstating
      <4>2. CASE r.op # "reinstate"
        BY <2>7, <4>2 DEF Reinstating
      <4> QED
        BY <4>1, <4>2
    <3>4. Releasing(p)' /\ Locking(p)' /\ Deleting(p)'
      BY <2>7, <2>10 DEF Releasing, Locking, Deleting
    <3>5. r.op # "generate_token"
      BY <1>0 DEF Local, OnPath, Books
    <3> QED
      BY <2>7, <3>1, <3>2, <3>3, <3>4, <3>5 DEF Local
  <2>16. "store" \in Statements \ {"idle"} /\ Undisputed(p)
    BY <1>0, NoDispute DEF Statements
  <2> QED
    BY <1>0, <2>5, <2>6, <2>13, <2>15, <2>16, AddsInv
<1> QED
  BY <1>0, <1>1, <1>2 DEF Take

\* A device row is drafted, and the commit is next.
LEMMA DeviceWritten ==
    ASSUME IInv, NEW p \in Workers, NEW h \in HW, NEW value, NEW at, Runs(p, at),
           pc[p] \notin {"idle", "check", "revoke_token"}, ~Deletes(p),
           Adds(p, h, value, "commit"), h \notin Drafted(p), Holders(p, h) = {},
           DeviceDraft(p, h)'
    PROVE  IInv'
<1>1. Fits(p, h)' /\ h \in Rows
  BY RowNames DEF Fits, Rows
<1>2. Draft(p)'
  BY <1>1, DraftGrows
<1>3. UNCHANGED vars /\ req' = req /\ pc'[p] = "commit"
  <2>1. TxTypeOK
    BY DEF IInv
  <2>2. UNCHANGED vars /\ req' = req
    BY DEF Adds
  <2> QED
    BY <2>1, <2>2, AddsFacts
<1>4. Local(p)' /\ Undisputed(p) /\ "commit" \in Statements \ {"idle"}
  BY <1>3, ReadyToCommit, NoDispute DEF Statements
<1> QED
  BY <1>2, <1>4, AddsInv

\* A row that changes only its deadline, or nothing at all, fits.
LEMMA Renewed ==
    ASSUME IInv, NEW p \in Workers, NEW h \in HW, NEW value, Adds(p, h, value, "commit"),
           h = req[p].h, Bound(h), ~Deletes(p), value \in DevRow,
           value.tenant = dev[h].tenant, value.via = dev[h].via, value.revoked = dev[h].revoked
    PROVE  DeviceDraft(p, h)'
BY AddsFacts DEF IInv, DeviceDraft

\* A reactivation renews the row whoever has it, and frees nothing.
LEMMA RotateKeyInv == ASSUME IInv, NEW p \in Workers, RotateKey(p) PROVE IInv'
<1>0. TxTypeOK /\ pc[p] = "rotate" /\ Local(p) /\ Runs(p, "rotate")
  BY DEF IInv, RotateKey, Runs
<1>h. PICK h \in HW : h = req[p].h
  BY <1>0, ReqFacts DEF Local, OnPath
<1> DEFINE value == [dev[h] EXCEPT !.until = now + Days(seen[p].sub.window)]
<1>1. Books(p) /\ Drafted(p) = {} /\ ~ Deletes(p)
  BY <1>0 DEF Local, OnPath, NothingYet, Books, Deletes
<1>2. CASE Crash(p)
  BY <1>0, <1>2, GoneInv
<1>3. CASE Bound(h) /\ Write(p, h, value, "commit")
  <2>1. dev[h] \in DevRow /\ now + Days(seen[p].sub.window) \in Nat
    <3>1. seen[p].sub.window \in Nat
      BY <1>0, ControlTypes DEF Remembered, SubRow
    <3> QED
      BY <1>1, <3>1, DaysNat, RowTypes
  <2>2. /\ value \in DevRow /\ value.tenant = dev[h].tenant /\ value.via = dev[h].via
        /\ value.revoked = dev[h].revoked
    BY <2>1 DEF DevRow
  <2> HIDE DEF value
  <2>3. Adds(p, h, value, "commit")
    BY <1>0, <1>3, WriteAdds
  <2>4. DeviceDraft(p, h)'
    BY <1>h, <1>1, <1>3, <2>2, <2>3, Renewed
  <2>5. Wanted(p) = {h}
    BY <1>0, <1>h, <1>3 DEF Wanted
  <2>6. Holders(p, h) = {}
    BY <1>0, <2>5, Alone
  <2> QED
    BY <1>0, <1>1, <2>3, <2>4, <2>6, DeviceWritten
<1> QED
  BY <1>h, <1>2, <1>3 DEF RotateKey

\* A repeated consume_seat writes the row as it is.
LEMMA TouchInv == ASSUME IInv, NEW p \in Workers, Touch(p) PROVE IInv'
<1>0. TxTypeOK /\ pc[p] = "touch" /\ Local(p) /\ Runs(p, "touch")
  BY DEF IInv, Touch, Runs
<1>h. PICK h \in HW : h = req[p].h
  BY <1>0, ReqFacts DEF Local, OnPath
<1>1. Books(p) /\ Drafted(p) = {} /\ ~ Deletes(p)
  BY <1>0 DEF Local, OnPath, NothingYet, Books, Deletes
<1>2. CASE Skip(p, "commit")
  BY <1>0, <1>1, <1>2, SkipReads, ReadyToCommit, NoDispute, ReadsInv DEF Statements
<1>3. CASE Bound(h) /\ Write(p, h, dev[h], "commit")
  <2>1. dev[h] \in DevRow /\ Adds(p, h, dev[h], "commit")
    BY <1>0, <1>3, WriteAdds, RowTypes
  <2>2. DeviceDraft(p, h)'
    BY <1>h, <1>1, <1>3, <2>1, Renewed
  <2>3. Wanted(p) = {h}
    BY <1>0, <1>h, <1>3 DEF Wanted
  <2>4. Holders(p, h) = {}
    BY <1>0, <2>3, Alone
  <2> QED
    BY <1>0, <1>1, <2>1, <2>2, <2>4, DeviceWritten
<1> QED
  BY <1>h, <1>2, <1>3 DEF Touch

\* The seat that was taken goes to the row found now.
LEMMA StoreInv == ASSUME IInv, NEW p \in Workers, Store(p) PROVE IInv'
<1> DEFINE r == req[p]
<1>0. TxTypeOK /\ pc[p] = "store" /\ Local(p) /\ Runs(p, "store")
  BY DEF IInv, Store, Runs
<1>h. PICK h \in HW : h = r.h
  BY <1>0, ReqFacts DEF Local, OnPath, Store
<1>1. Books(p) /\ r.k \in Tokens /\ ~ Deletes(p)
  BY <1>0, ReqFacts DEF Local, OnPath, Books, Deletes, Store
<1>2. r.t \in Tenants /\ Drafted(p) = {r.k} /\ TakesOne(p, r.k) /\ tok[r.k].owner = r.t
  BY <1>0, <1>1 DEF Local, Booking
<1>3. CASE Crash(p)
  BY <1>0, <1>3, GoneInv
<1>4. CASE Skip(p, "commit")
  BY <1>0, <1>1, <1>4, SkipReads, ReadyToCommit, NoDispute, ReadsInv DEF Statements
<1>5. CASE Bound(h) # (seen[p].dev = NoDev) /\ Write(p, h, NewRow(p), "commit")
  <2>1. NewRow(p) \in DevRow
    <3>1. seen[p].sub.window \in Nat
      BY <1>0, ControlTypes DEF Remembered, SubRow
    <3> QED
      BY <1>1, <1>2, <3>1, DaysNat, RowTypes DEF NewRow, DevRow
  <2>2. NewRow(p).tenant = r.t /\ NewRow(p).via = r.k
    BY DEF NewRow
  <2>3. Adds(p, h, NewRow(p), "commit")
    BY <1>0, <1>5, WriteAdds
  <2>4. /\ Drafted(p)' = Drafted(p) \cup {h} /\ draft'[p][h] = NewRow(p)
        /\ req' = req /\ share'[p] = share[p] \cup Referred(p)
        /\ tok' = tok /\ dev' = dev /\ (Deletes(p)' <=> Deletes(p))
        /\ \A k : TakesOne(p, k) /\ k # h => TakesOne(p, k)'
    BY <1>0, <2>3, AddsFacts
  <2>5. dev[h].tenant = r.t \/ r.t \in share'[p]
    BY <1>0, <1>h, <2>4 DEF Referred, Store
  <2>6. TakesOne(p, r.k)' /\ r.t # None
    BY <1>1, <1>2, <2>4, RowNames, NoneAssumption
  <2>7. DeviceDraft(p, h)'
    BY <1>h, <1>1, <1>2, <2>1, <2>2, <2>4, <2>5, <2>6 DEF DeviceDraft
  <2>8. Wanted(p) = {h}
    <3>1. Bound(h) \/ seen[p].dev = NoDev
      BY <1>5 DEF Bound
    <3>2. Wanted(p) = {g \in HW : g = r.h /\ (Bound(g) \/ seen[p].dev = NoDev)}
      BY <1>0 DEF Wanted
    <3> QED
      BY <1>h, <3>1, <3>2
  <2>9. Holders(p, h) = {} /\ h \notin Drafted(p)
    BY <1>0, <1>1, <1>2, <2>8, Alone, RowNames
  <2> QED
    BY <1>0, <1>1, <2>3, <2>7, <2>9, DeviceWritten
<1> QED
  BY <1>h, <1>3, <1>4, <1>5 DEF Store

-----------------------------------------------------------------------------
(* Device operations.                                                        *)

\* A release locks a live row and revokes it.
LEMMA RevokeInv == ASSUME IInv, NEW p \in Workers, Revoke(p) PROVE IInv'
<1>0. TxTypeOK /\ pc[p] = "revoke" /\ Local(p) /\ Runs(p, "revoke")
  BY DEF IInv, Revoke, Runs
<1>h. PICK h \in HW : h = req[p].h
  BY <1>0, ReqFacts DEF Local, OnPath
<1>1. req[p].op = "release_seat" /\ Drafted(p) = {} /\ ~ Deletes(p)
  BY <1>0 DEF Local, OnPath, NothingYet, Deletes
<1> DEFINE value == [dev[h] EXCEPT !.revoked = TRUE]
<1>2. CASE Leave(p)
  BY <1>0, <1>2, GoneInv
<1>3. CASE /\ Live(h) /\ Then(p, "give")
           /\ draft' = [draft EXCEPT ![p] = With(draft[p], h, value)]
           /\ seen' = [seen EXCEPT ![p].dev = dev[h]] /\ UNCHANGED <<req, share>>
  <2>1. /\ dev[h] \in DevRow /\ value \in DevRow /\ value.revoked
        /\ value.tenant = dev[h].tenant /\ value.via = dev[h].via
    BY RowTypes DEF DevRow
  <2> HIDE DEF value
  <2>2. /\ seen' \in [Workers -> Remembered] /\ \A q \in Workers \ {p} : seen'[q] = seen[q]
        /\ seen'[p].dev = dev[h]
    BY <1>0, <1>3, <2>1, SeesDev
  <2>3. Referred(p) = {}
    BY <1>0 DEF Referred
  <2>4. Adds(p, h, value, "give")
    BY <1>0, <1>3, <2>2, <2>3, ControlTypes DEF Adds, Then
  <2>5. /\ Drafted(p)' = {h} /\ draft'[p][h] = value
        /\ pc'[p] = "give" /\ req' = req /\ dev' = dev
        /\ (Deletes(p)' <=> Deletes(p)) /\ Bound(h)' /\ Live(h)'
    BY <1>0, <1>1, <1>3, <2>4, AddsFacts DEF Live
  <2>6. DeviceDraft(p, h)'
    BY <1>h, <1>1, <2>1, <2>5 DEF DeviceDraft
  <2>7. Fits(p, h)' /\ h \in Rows
    BY <2>6, RowNames DEF Fits, Rows
  <2>8. Draft(p)'
    BY <1>1, <2>4, <2>7, DraftGrows
  <2>9. Local(p)'
    <3>1. OnPath(p)' /\ ~ NothingYet(p)'
      BY <1>0, <1>1, <2>5 DEF Local, OnPath, NothingYet
    <3>2. Releasing(p)'
      BY <1>h, <1>3, <2>1, <2>2, <2>5 DEF Releasing
    <3>3. Booking(p)' /\ Reinstating(p)' /\ Locking(p)' /\ Deleting(p)'
      BY <1>1, <2>5 DEF Booking, Reinstating, Locking, Deleting
    <3> QED
      BY <1>1, <2>5, <3>1, <3>2, <3>3 DEF Local
  <2>10. Wanted(p) = {h}
    BY <1>0, <1>h, <1>3 DEF Wanted
  <2>11. Holders(p, h) = {} /\ "give" \in Statements \ {"idle"} /\ Undisputed(p)
    BY <1>0, <2>10, Alone, NoDispute DEF Statements
  <2> QED
    BY <1>0, <2>4, <2>8, <2>9, <2>11, AddsInv
<1> QED
  BY <1>h, <1>2, <1>3 DEF Revoke

\* The seat goes back while its device is still live in the tables.
LEMMA GiveInv == ASSUME IInv, NEW p \in Workers, Give(p) PROVE IInv'
<1>0. TxTypeOK /\ pc[p] = "give" /\ Local(p) /\ Runs(p, "give")
  BY DEF IInv, Give, Runs
<1>h. PICK h \in HW : h = req[p].h
  BY <1>0, ReqFacts DEF Local, OnPath
<1>1. req[p].op = "release_seat" /\ ~ Deletes(p)
  BY <1>0 DEF Local, OnPath, Deletes
<1>2. Drafted(p) = {h} /\ Live(h) /\ Bound(h) /\ draft[p][h].revoked /\ seen[p].dev = dev[h]
  BY <1>0, <1>h DEF Local, Releasing, Live
<1>3. CASE Skip(p, "commit")
  BY <1>0, <1>1, <1>3, SkipReads, ReadyToCommit, NoDispute, ReadsInv DEF Statements
<1>4. CASE \E k \in Wanted(p) : Write(p, k, [tok[k] EXCEPT !.consumed = @ - 1], "commit")
  <2>1. PICK k \in Wanted(p) : Write(p, k, [tok[k] EXCEPT !.consumed = @ - 1], "commit")
    BY <1>4
  <2>2. k \in Tokens /\ k = dev[h].via /\ tok[k].consumed > 0 /\ Wanted(p) = {k}
    BY <1>0, <1>1, <1>2, <2>1 DEF Wanted
  <2>3. tok[k] \in TokRow /\ tok[k].owner # None
    BY <1>2, <2>2, BoundFacts, RowTypes, NoneAssumption
  <2> DEFINE value == [tok[k] EXCEPT !.consumed = @ - 1]
  <2>4. /\ value \in TokRow /\ value.consumed = tok[k].consumed - 1
        /\ value.owner = tok[k].owner /\ value.quota = tok[k].quota
    BY <2>2, <2>3 DEF TokRow
  <2> HIDE DEF value
  <2>5. Adds(p, k, value, "commit")
    BY <1>0, <2>1, WriteAdds DEF value
  <2>6. k \notin Drafted(p) /\ k # h
    BY <1>2, <2>2, RowNames
  <2>7. /\ Drafted(p)' = {h, k} /\ draft'[p][k] = value /\ draft'[p][h] = draft[p][h]
        /\ pc'[p] = "commit" /\ req' = req /\ tok' = tok /\ dev' = dev
        /\ (Deletes(p)' <=> Deletes(p)) /\ Live(h)'
    BY <1>0, <1>2, <2>5, <2>6, AddsFacts
  <2>8. Releases(p, k)'
    BY <1>h, <1>2, <2>2, <2>7 DEF Releases
  <2>9. TokenDraft(p, k)'
    BY <1>1, <2>2, <2>3, <2>4, <2>7, <2>8 DEF TokenDraft
  <2>10. k \in Rows /\ Fits(p, k)'
    BY <2>2, <2>9, RowNames DEF Rows, Fits
  <2>11. Draft(p)'
    BY <2>5, <2>6, <2>10, DraftGrows
  <2>12. UNCHANGED vars
    BY <2>5 DEF Adds
  <2>13. Local(p)' /\ "commit" \in Statements \ {"idle"} /\ Undisputed(p)
    BY <1>0, <1>1, <2>7, <2>12, ReadyToCommit, NoDispute DEF Statements
  <2>14. Holders(p, k) = {}
    BY <1>0, <2>2, Alone
  <2> QED
    BY <1>0, <2>5, <2>11, <2>13, <2>14, AddsInv
<1> QED
  BY <1>3, <1>4 DEF Give

\* A reinstatement locks the revoked row it goes by.
LEMMA LockDeviceInv == ASSUME IInv, NEW p \in Workers, LockDevice(p) PROVE IInv'
<1>0. TxTypeOK /\ pc[p] = "lock" /\ Local(p) /\ Runs(p, "lock")
  BY DEF IInv, LockDevice, Runs
<1>h. PICK h \in HW : h = req[p].h
  BY <1>0, ReqFacts DEF Local, OnPath
<1>1. req[p].op = "reinstate" /\ Drafted(p) = {} /\ ~ Deletes(p)
  BY <1>0 DEF Local, OnPath, NothingYet, Deletes
<1>2. CASE Leave(p)
  BY <1>0, <1>2, GoneInv
<1>3. CASE /\ Bound(h) /\ dev[h].revoked /\ Then(p, "count")
           /\ draft' = [draft EXCEPT ![p] = With(draft[p], h, dev[h])]
           /\ seen' = [seen EXCEPT ![p].dev = dev[h]] /\ UNCHANGED <<req, share>>
  <2>1. dev[h] \in DevRow
    BY RowTypes
  <2>2. /\ seen' \in [Workers -> Remembered] /\ \A q \in Workers \ {p} : seen'[q] = seen[q]
        /\ seen'[p].dev = dev[h]
    BY <1>0, <1>3, <2>1, SeesDev
  <2>3. Referred(p) = {}
    BY <1>0 DEF Referred
  <2>4. Adds(p, h, dev[h], "count")
    BY <1>0, <1>3, <2>2, <2>3, ControlTypes DEF Adds, Then
  <2>5. /\ Drafted(p)' = {h} /\ draft'[p][h] = dev[h]
        /\ pc'[p] = "count" /\ req' = req /\ dev' = dev
        /\ (Deletes(p)' <=> Deletes(p)) /\ (Books(p)' <=> Books(p)) /\ Bound(h)'
    BY <1>0, <1>1, <1>3, <2>4, AddsFacts
  <2>6. DeviceDraft(p, h)'
    BY <1>h, <1>1, <2>1, <2>5 DEF DeviceDraft
  <2>7. Fits(p, h)' /\ h \in Rows
    BY <2>6, RowNames DEF Fits, Rows
  <2>8. Draft(p)'
    BY <1>1, <2>4, <2>7, DraftGrows
  <2>9. Local(p)'
    <3>1. OnPath(p)' /\ ~ NothingYet(p)'
      BY <1>0, <1>1, <2>5 DEF Local, OnPath, NothingYet, Books
    <3>2. Reinstating(p)'
      BY <1>h, <1>3, <2>2, <2>5 DEF Reinstating
    <3>3. Booking(p)' /\ Releasing(p)' /\ Locking(p)' /\ Deleting(p)'
      BY <1>1, <2>5 DEF Booking, Books, Releasing, Locking, Deleting
    <3> QED
      BY <1>1, <2>5, <3>1, <3>2, <3>3 DEF Local
  <2>10. Wanted(p) = {h}
    BY <1>0, <1>h, <1>3 DEF Wanted
  <2>11. Holders(p, h) = {} /\ "count" \in Statements \ {"idle"} /\ Undisputed(p)
    BY <1>0, <2>10, Alone, NoDispute DEF Statements
  <2> QED
    BY <1>0, <2>4, <2>8, <2>9, <2>11, AddsInv
<1> QED
  BY <1>h, <1>2, <1>3 DEF LockDevice

\* The locked row is drafted a second time: now it comes to life, with the seat
\* taken on its token.
LEMMA StoreReinstatedInv == ASSUME IInv, NEW p \in Workers, StoreReinstated(p) PROVE IInv'
<1>0. /\ TxTypeOK /\ pc[p] = "store" /\ Local(p) /\ Runs(p, "store") /\ Draft(p)
      /\ req[p].op = "reinstate"
  BY DEF IInv, StoreReinstated, Runs
<1>h. PICK h \in HW : h = req[p].h
  BY <1>0, ReqFacts
<1>1. ~ Deletes(p)
  BY <1>0 DEF Deletes
<1>k. PICK k \in Tokens : k = dev[h].via
  BY <1>0, <1>h, BoundFacts DEF Local, Reinstating
<1>2. /\ Bound(h) /\ Drafted(p) = {h, k} /\ TakesOne(p, k) /\ k # h
      /\ dev[h].tenant \in Tenants /\ tok[k].owner = dev[h].tenant
  BY <1>0, <1>h, <1>k, BoundFacts, RowNames DEF Local, Reinstating
<1>3. PICK until \in Nat :
        Write(p, h, [dev[h] EXCEPT !.revoked = FALSE, !.until = until], "commit")
  <2> DEFINE fresh == now + Days(seen[p].sub.window)
             refresh == seen[p].sub.paid /\ tenant[dev[h].tenant] = "ACTIVE" /\ dev[h].until < fresh
             until == IF refresh THEN fresh ELSE dev[h].until
  <2>1. until \in Nat
    <3>1. seen[p].sub.window \in Nat
      BY <1>0, ControlTypes DEF Remembered, SubRow
    <3>2. dev[h].until \in Nat /\ fresh \in Nat
      BY <3>1, DaysNat, RowTypes DEF DevRow
    <3> QED
      BY <3>2
  <2>2. Write(p, h, [dev[h] EXCEPT !.revoked = FALSE, !.until = until], "commit")
    BY <1>h DEF StoreReinstated
  <2> QED
    BY <2>1, <2>2
<1> DEFINE value == [dev[h] EXCEPT !.revoked = FALSE, !.until = until]
<1>4. value \in DevRow /\ value.tenant = dev[h].tenant /\ value.via = k
  BY <1>k, RowTypes DEF DevRow
<1> HIDE DEF value
<1>5. Adds(p, h, value, "commit")
  BY <1>0, <1>3, WriteAdds DEF value
<1>6. /\ Drafted(p)' = {h, k} /\ draft'[p][h] = value /\ draft'[p][k] = draft[p][k]
      /\ pc'[p] = "commit" /\ req' = req /\ tok' = tok /\ dev' = dev
      /\ share[p] \subseteq share'[p]
      /\ (Deletes(p)' <=> Deletes(p)) /\ TakesOne(p, k)'
      /\ \A t : Registered(t)' <=> Registered(t)
  BY <1>0, <1>2, <1>5, AddsFacts
<1>7. Draft(p)'
  <2>1. DeviceDraft(p, h)'
    BY <1>h, <1>1, <1>2, <1>4, <1>6, NoneAssumption DEF DeviceDraft
  <2>2. TokenDraft(p, k)'
    <3>1. TokenDraft(p, k) /\ draft[p][k].consumed = tok[k].consumed + 1 /\ tok[k].consumed \in Nat
      BY <1>0, <1>2, RowTypes DEF Draft, TakesOne, TokRow
    <3>2. tok[k].owner # None
      BY <1>2, NoneAssumption
    <3> QED
      BY <1>1, <1>6, <3>1, <3>2 DEF TokenDraft
  <2>3. Drafted(p)' \subseteq Rows
    BY <1>6 DEF Rows
  <2>4. \A t \in Tenants : t \notin Drafted(p)' /\ SubOf(t) \notin Drafted(p)'
    BY <1>6, RowNames
  <2>5. \A x \in Tokens : x \in Drafted(p)' => x = k
    BY <1>6, RowNames
  <2>6. \A g \in HW : g \in Drafted(p)' => g = h
    BY <1>6, RowNames
  <2> QED
    BY <2>1, <2>2, <2>3, <2>4, <2>5, <2>6 DEF Draft
<1>8. UNCHANGED vars
  BY <1>5 DEF Adds
<1>9. Local(p)' /\ "commit" \in Statements \ {"idle"} /\ Undisputed(p)
  BY <1>0, <1>1, <1>6, <1>8, ReadyToCommit, NoDispute DEF Statements
<1>10. Holders(p, h) = {}
  <2>1. \A q \in Workers \ {p} : h \notin Drafted(q)
    BY <1>2 DEF IInv, Apart
  <2> QED
    BY <1>1, <2>1 DEF Holders, Drafted
<1> QED
  BY <1>0, <1>5, <1>7, <1>9, <1>10, AddsInv

\* A heartbeat judges the row.
LEMMA ListenInv == ASSUME IInv, NEW p \in Workers, Listen(p) PROVE IInv'
<1> DEFINE t == req[p].t
           row == [sub[t] EXCEPT !.paid = sub[t].paid /\ tenant[t] = "ACTIVE"]
<1>0. TxTypeOK /\ pc[p] = "heartbeat" /\ Local(p)
  BY DEF IInv, Listen, Runs
<1>1. req[p].op = "heartbeat" /\ t \in Tenants /\ Drafted(p) = {}
  BY <1>0, ReqFacts DEF Local, OnPath, NothingYet
<1>2. CASE Leave(p)
  BY <1>0, <1>2, GoneInv
<1>3. CASE /\ Then(p, "beat") /\ seen' = [seen EXCEPT ![p].sub = row]
           /\ UNCHANGED <<req, draft, share>>
  <2>1. row \in SubRow
    <3>1. sub[t] \in SubRow /\ (sub[t].paid /\ tenant[t] = "ACTIVE") \in BOOLEAN
      BY <1>1, RowTypes DEF SubRow
    <3> QED
      BY <3>1 DEF SubRow
  <2> HIDE DEF row
  <2>2. /\ seen' \in [Workers -> Remembered] /\ \A q \in Workers \ {p} : seen'[q] = seen[q]
    BY <1>0, <1>3, <2>1, SeesSub
  <2>3. Reads(p) /\ pc'[p] = "beat" /\ Drafted(p)' = Drafted(p) /\ req' = req
    BY <1>3, <2>2, LooksReads DEF Statements
  <2>4. Local(p)'
    BY <1>0, <1>1, <2>3 DEF Local, OnPath, NothingYet, Booking, Books, Reinstating, Releasing,
       Locking, Deleting, Deletes
  <2> QED
    BY <1>0, <2>3, <2>4, NoDispute, ReadsInv
<1> QED
  BY <1>2, <1>3 DEF Listen

\* A heartbeat moves a deadline and revives nothing.
LEMMA BeatInv == ASSUME IInv, NEW p \in Workers, Beat(p) PROVE IInv'
<1>0. TxTypeOK /\ pc[p] = "beat" /\ Local(p) /\ Runs(p, "beat")
  BY DEF IInv, Beat, Runs
<1>h. PICK h \in HW : h = req[p].h
  BY <1>0, ReqFacts DEF Local, OnPath
<1>1. req[p].op = "heartbeat" /\ Drafted(p) = {} /\ ~ Deletes(p)
  BY <1>0 DEF Local, OnPath, NothingYet, Deletes
<1> DEFINE value == IF seen[p].sub.paid
                    THEN [dev[h] EXCEPT !.until = now + Days(seen[p].sub.window)] ELSE dev[h]
<1>2. CASE Skip(p, "commit")
  BY <1>0, <1>1, <1>2, SkipReads, ReadyToCommit, NoDispute, ReadsInv DEF Statements
<1>3. CASE Bound(h) /\ Write(p, h, value, "commit")
  <2>1. dev[h] \in DevRow /\ now + Days(seen[p].sub.window) \in Nat
    <3>1. seen[p].sub.window \in Nat
      BY <1>0, ControlTypes DEF Remembered, SubRow
    <3> QED
      BY <3>1, DaysNat, RowTypes
  <2>2. /\ value \in DevRow /\ value.tenant = dev[h].tenant /\ value.via = dev[h].via
        /\ value.revoked = dev[h].revoked
    BY <2>1 DEF DevRow
  <2> HIDE DEF value
  <2>3. Adds(p, h, value, "commit")
    BY <1>0, <1>3, WriteAdds
  <2>4. DeviceDraft(p, h)'
    BY <1>h, <1>1, <1>3, <2>2, <2>3, Renewed
  <2>5. Wanted(p) = {h}
    BY <1>0, <1>h, <1>3 DEF Wanted
  <2>6. Holders(p, h) = {}
    BY <1>0, <2>5, Alone
  <2> QED
    BY <1>0, <1>1, <2>3, <2>4, <2>6, DeviceWritten
<1> QED
  BY <1>h, <1>2, <1>3 DEF Beat

-----------------------------------------------------------------------------
(* Operator requests.                                                        *)

\* A first statement that matched goes on to an INSERT.
LEMMA GoesOnToInsert ==
    ASSUME IInv, NEW p \in Workers, Skip(p, "insert"),
           \/ pc[p] = "create"
           \/ pc[p] = "generate_token"
    PROVE  IInv'
<1>0. TxTypeOK /\ Local(p)
  BY DEF IInv
<1>1. /\ Reads(p) /\ pc'[p] = "insert" /\ req' = req
      /\ UNCHANGED vars /\ Drafted(p)' = Drafted(p)
  BY SkipReads DEF Statements
<1>2. req[p].op \in {"create", "generate_token"} /\ req[p].op \in Ops
  BY <1>0 DEF Local, OnPath
<1>3. Drafted(p) = {} /\ (req[p].op = "generate_token" => tok[req[p].k].owner = None)
  BY <1>0 DEF Local, NothingYet
<1>4. Local(p)'
  <2>1. OnPath(p)'
    BY <1>1, <1>2 DEF OnPath
  <2>2. Booking(p)' /\ Reinstating(p)' /\ Releasing(p)' /\ Locking(p)' /\ Deleting(p)'
    BY <1>1, <1>2 DEF Booking, Reinstating, Releasing, Locking, Deleting, Deletes
  <2> QED
    BY <1>1, <1>3, <2>1, <2>2 DEF Local, vars
<1> QED
  BY <1>1, <1>4, NoDispute, ReadsInv

\* A slug is found free.
LEMMA CreateInv == ASSUME IInv, NEW p \in Workers, Create(p) PROVE IInv'
<1>1. pc[p] = "create" /\ (Skip(p, "insert") \/ Leave(p))
  BY DEF Create, Runs
<1> QED
  BY <1>1, GoneInv, GoesOnToInsert

\* A tenant is found for a new token.
LEMMA GenerateTokenInv == ASSUME IInv, NEW p \in Workers, GenerateToken(p) PROVE IInv'
<1>1. pc[p] = "generate_token" /\ (Skip(p, "insert") \/ Leave(p))
  BY DEF GenerateToken, Runs
<1> QED
  BY <1>1, GoneInv, GoesOnToInsert

\* The subscription created from a request's fields.
LEMMA NewSubType ==
    ASSUME now \in Nat, NEW n \in SeatLimits, NEW w \in Windows, NEW g \in Graces
    PROVE  NewSub(n, w, g) \in SubRow
<1>1. /\ OrDefault(n, DefaultLimit) \in Nat /\ OrDefault(w, DefaultWindow) \in Nat
      /\ OrDefault(g, DefaultGrace) \in Nat
  BY InputAssumption, DefaultAssumption DEF OrDefault
<1>2. now + Days(OrDefault(w, DefaultWindow)) \in Nat
  BY <1>1, DaysNat
<1> QED
  BY <1>1, <1>2 DEF NewSub, SubRow

\* Nobody holds the subscription row of a tenant that is not there, unless he
\* holds that tenant too.
LEMMA InsertTenantInv == ASSUME IInv, NEW p \in Workers, InsertTenant(p) PROVE IInv'
<1>0. /\ TxTypeOK /\ pc[p] = "insert" /\ Local(p) /\ Runs(p, "insert")
      /\ req[p].op = "create"
  BY DEF IInv, InsertTenant, Runs
<1>t. PICK t \in Tenants : t = req[p].t
  BY <1>0, ReqFacts
<1>1. Drafted(p) = {} /\ ~ Deletes(p) /\ req[p].op \in Ops
  BY <1>0 DEF Local, OnPath, NothingYet, Deletes
<1>2. CASE Crash(p)
  BY <1>0, <1>2, GoneInv
<1>3. ASSUME NEW n \in SeatLimits, NEW w \in Windows, NEW g \in Graces,
             ~Registered(t), Then(p, "commit"), UNCHANGED <<req, seen, share>>,
             draft' = [draft EXCEPT ![p] =
                         With(With(Empty, SubOf(t), NewSub(n, w, g)), t, "ACTIVE")]
      PROVE  IInv'
  <2> DEFINE row == NewSub(n, w, g)
             one == With(Empty, SubOf(t), row)
             rows == With(one, t, "ACTIVE")
  <2>1. row \in SubRow
    BY RowTypes, NewSubType
  <2>2. t # SubOf(t)
    BY RowNames
  <2>3. DOMAIN rows = {SubOf(t), t} /\ rows[SubOf(t)] = row /\ rows[t] = "ACTIVE"
    <3> HIDE DEF row
    <3>1. DOMAIN one = {SubOf(t)} /\ one[SubOf(t)] = row
      BY DEF With, Empty
    <3> HIDE DEF one
    <3> QED
      BY <2>2, <3>1 DEF With
  <2> HIDE DEF rows, row
  <2>4. draft' = [draft EXCEPT ![p] = rows]
    BY <1>3 DEF rows, row
  <2>5. draft'[p] = rows /\ DOMAIN draft' = Workers
        /\ \A q \in Workers \ {p} : draft'[q] = draft[q]
    BY <1>0, <2>4, ControlTypes
  <2>6. Drafted(p)' = {SubOf(t), t}
    BY <2>3, <2>5 DEF Drafted
  <2>7. /\ UNCHANGED <<vars, ledger, crashed>> /\ pc'[p] = "commit" /\ req' = req
        /\ pc' \in [Workers -> Statements] /\ \A q \in Workers \ {p} : pc'[q] = pc[q]
    BY <1>0, <1>3, ControlTypes DEF Then, Statements
  <2>8. Moves(p)
    <3>1. \A q \in Workers \ {p} : Same(q)
      BY <1>3, <2>5, <2>7 DEF Same
    <3> QED
      BY <1>0, <1>3, <2>5, <2>7, <3>1, ControlTypes DEF Moves, TxTypeOK
  <2>9. Draft(p)'
    <3>1. TenantDraft(p, t)' /\ SubDraft(p, t)'
      BY <2>1, <2>3, <2>5, <2>6 DEF TenantDraft, SubDraft, TenantStatus
    <3>2. Drafted(p)' \subseteq Rows
      BY <2>6 DEF Rows
    <3>3. \A x \in Tenants : x \in Drafted(p)' \/ SubOf(x) \in Drafted(p)' => x = t
      BY <2>6, RowNames
    <3>4. \A x \in Tokens \cup HW : x \notin Drafted(p)'
      BY <2>6, RowNames
    <3> QED
      BY <3>1, <3>2, <3>3, <3>4 DEF Draft
  <2>10. Local(p)'
    BY <1>0, <1>1, <2>7, ReadyToCommit
  <2>11. ASSUME NEW q \in Workers \ {p} PROVE Apart(p, q)' /\ Apart(q, p)'
    <3>1. Wanted(p) = {t}
      BY <1>0, <1>t DEF Wanted
    <3>2. t \notin Drafted(q)
      BY <1>0, <3>1, Alone DEF Holders, Drafted
    <3>3. SubOf(t) \notin Drafted(q)
      BY <1>3, <3>2 DEF IInv, Draft, SubDraft
    <3>4. Same(q) /\ Apart(q, p) /\ Apart(p, q)
      BY <2>8 DEF Moves, IInv
    <3>5. Drafted(p)' \cap Drafted(q)' = {} /\ share'[p] = share[p] /\ req'[p] = req[p]
      BY <1>3, <2>6, <3>2, <3>3, <3>4 DEF Same, Drafted
    <3>6. ~ Deletes(p)' /\ (Deletes(q)' <=> Deletes(q)) /\ Drafted(q)' = Drafted(q)
      BY <1>0, <3>4, <3>5 DEF Deletes, Same, Drafted
    <3>7. Undisputed(p)
      BY <1>0, NoDispute
    <3>8. Apart(p, q)'
      BY <1>0, <3>5, <3>6 DEF Apart
    <3>9. Apart(q, p)'
      BY <3>4, <3>5, <3>6, <3>7 DEF Apart, Same, Undisputed
    <3> QED
      BY <3>8, <3>9
  <2> QED
    BY <2>8, <2>9, <2>10, <2>11, MovesInv
<1> QED
  BY <1>t, <1>2, <1>3 DEF InsertTenant

\* A row is drafted, and the commit is next.
LEMMA RowWritten ==
    ASSUME IInv, NEW p \in Workers, NEW row \in Rows, NEW value, NEW at, Runs(p, at),
           pc[p] # "idle", ~Deletes(p), Undisputed(p),
           Adds(p, row, value, "commit"), row \notin Drafted(p), Holders(p, row) = {},
           Fits(p, row)'
    PROVE  IInv'
<1>1. Draft(p)'
  BY DraftGrows
<1>2. TxTypeOK /\ UNCHANGED vars /\ req' = req
  BY DEF IInv, Adds
<1>3. pc'[p] = "commit"
  BY <1>2, AddsFacts
<1>4. Local(p)' /\ "commit" \in Statements \ {"idle"}
  BY <1>2, <1>3, ReadyToCommit DEF Statements
<1> QED
  BY <1>1, <1>4, AddsInv

\* A new token has no seats taken, and its subscription cannot go.
LEMMA InsertTokenInv == ASSUME IInv, NEW p \in Workers, InsertToken(p) PROVE IInv'
<1>0. /\ TxTypeOK /\ pc[p] = "insert" /\ Local(p) /\ Runs(p, "insert")
      /\ req[p].op = "generate_token"
  BY DEF IInv, InsertToken, Runs
<1>t. PICK t \in Tenants, k \in Tokens : t = req[p].t /\ k = req[p].k
  BY <1>0, ReqFacts
<1>1. Drafted(p) = {} /\ ~ Deletes(p) /\ tok[k].owner = None
  BY <1>0, <1>t DEF Local, NothingYet, Deletes
<1>2. CASE Crash(p)
  BY <1>0, <1>2, GoneInv
<1>3. ASSUME NEW q \in Quotas \ {0}, NEW e \in Expiries, Registered(t),
             Write(p, k, [owner |-> t, quota |-> q, consumed |-> 0,
                          expires |-> e, revoked |-> FALSE], "commit")
      PROVE  IInv'
  <2> DEFINE value == [owner |-> t, quota |-> q, consumed |-> 0,
                       expires |-> e, revoked |-> FALSE]
  <2>1. value \in TokRow /\ value.owner = t /\ value.consumed = 0
    BY InputAssumption DEF TokRow
  <2> HIDE DEF value
  <2>2. Adds(p, k, value, "commit")
    BY <1>0, <1>3, WriteAdds DEF value
  <2>3. /\ Drafted(p)' = Drafted(p) \cup {k} /\ draft'[p][k] = value
        /\ req' = req /\ share'[p] = share[p] \cup Referred(p)
        /\ tok' = tok /\ (Deletes(p)' <=> Deletes(p))
        /\ Registered(t)'
    BY <1>0, <1>3, <2>2, AddsFacts
  <2>4. SubOf(t) \in share'[p]
    BY <1>0, <1>t, <2>3 DEF Referred
  <2>5. TokenDraft(p, k)'
    BY <1>0, <1>t, <1>1, <2>1, <2>3, <2>4 DEF TokenDraft
  <2>6. Fits(p, k)' /\ k \in Rows
    BY <2>5, RowNames DEF Fits, Rows
  <2>7. Wanted(p) = {k}
    BY <1>0, <1>t DEF Wanted
  <2>8. Holders(p, k) = {} /\ Undisputed(p)
    BY <1>0, <2>7, Alone, NoDispute
  <2> QED
    BY <1>0, <1>1, <2>2, <2>6, <2>8, RowWritten
<1> QED
  BY <1>t, <1>2, <1>3 DEF InsertToken

\* A revoked token keeps its counter.
LEMMA RevokeTokenInv == ASSUME IInv, NEW p \in Workers, RevokeToken(p) PROVE IInv'
<1>0. TxTypeOK /\ pc[p] = "revoke_token" /\ Local(p) /\ Runs(p, "revoke_token")
  BY DEF IInv, RevokeToken, Runs
<1>k. PICK k \in Tokens : k = req[p].k
  BY <1>0, ReqFacts DEF Local, OnPath
<1>1. Drafted(p) = {} /\ ~ Deletes(p) /\ req[p].op = "revoke_token"
  BY <1>0 DEF Local, OnPath, NothingYet, Deletes
<1>2. CASE Leave(p)
  BY <1>0, <1>2, GoneInv
<1>3. CASE tok[k].owner # None /\ Write(p, k, [tok[k] EXCEPT !.revoked = TRUE], "commit")
  <2> DEFINE value == [tok[k] EXCEPT !.revoked = TRUE]
  <2>1. /\ value \in TokRow /\ value.owner = tok[k].owner /\ value.quota = tok[k].quota
        /\ value.consumed = tok[k].consumed
    BY RowTypes DEF TokRow
  <2> HIDE DEF value
  <2>2. Adds(p, k, value, "commit")
    BY <1>0, <1>3, WriteAdds DEF value
  <2>3. /\ Drafted(p)' = Drafted(p) \cup {k} /\ draft'[p][k] = value
        /\ req' = req /\ tok' = tok /\ (Deletes(p)' <=> Deletes(p))
    BY <1>0, <2>2, AddsFacts
  <2>4. TokenDraft(p, k)'
    BY <1>1, <1>3, <2>1, <2>3 DEF TokenDraft
  <2>5. Fits(p, k)' /\ k \in Rows
    BY <2>4, RowNames DEF Fits, Rows
  <2>6. Wanted(p) = {k}
    BY <1>0, <1>k, <1>1, <1>3 DEF Wanted
  <2>7. Holders(p, k) = {} /\ Undisputed(p)
    BY <1>0, <1>k, <1>3, <2>6, Alone, NoDispute
  <2> QED
    BY <1>0, <1>1, <2>2, <2>5, <2>7, RowWritten
<1> QED
  BY <1>k, <1>2, <1>3 DEF RevokeToken

\* A payment may be worth any deadline: the row is written as it was read.
LEMMA ReadPaidInv == ASSUME IInv, NEW p \in Workers, ReadPaid(p) PROVE IInv'
<1> DEFINE t == req[p].t
           row == [sub[t] EXCEPT !.until = PaidThrough(t)]
<1>0. TxTypeOK /\ pc[p] = "payment" /\ Local(p)
  BY DEF IInv, ReadPaid, Runs
<1>1. req[p].op = "payment" /\ t \in Tenants /\ Drafted(p) = {}
  BY <1>0, ReqFacts DEF Local, OnPath, NothingYet
<1>2. CASE Leave(p)
  BY <1>0, <1>2, GoneInv
<1>3. CASE /\ Then(p, "record") /\ seen' = [seen EXCEPT ![p].sub = row]
           /\ UNCHANGED <<req, draft, share>>
  <2>1. row \in SubRow
    <3>1. sub[t] \in SubRow /\ now \in Nat
      BY <1>1, RowTypes
    <3>2. PaidThrough(t) \in Nat
      BY <3>1, DaysNat DEF PaidThrough, SubRow
    <3> QED
      BY <3>1, <3>2 DEF SubRow
  <2> HIDE DEF row
  <2>2. /\ seen' \in [Workers -> Remembered] /\ \A q \in Workers \ {p} : seen'[q] = seen[q]
    BY <1>0, <1>3, <2>1, SeesSub
  <2>3. Reads(p) /\ pc'[p] = "record" /\ Drafted(p)' = Drafted(p) /\ req' = req
    BY <1>3, <2>2, LooksReads DEF Statements
  <2>4. Local(p)'
    BY <1>0, <1>1, <2>3 DEF Local, OnPath, NothingYet, Booking, Books, Reinstating, Releasing,
       Locking, Deleting, Deletes
  <2> QED
    BY <1>0, <2>3, <2>4, NoDispute, ReadsInv
<1> QED
  BY <1>2, <1>3 DEF ReadPaid

\* A subscription row fits while its tenant is registered.
LEMMA SubFits ==
    ASSUME IInv, NEW p \in Workers, NEW t \in Tenants, NEW value \in SubRow, NEW s,
           Registered(t), Adds(p, SubOf(t), value, s)
    PROVE  Fits(p, SubOf(t))' /\ SubOf(t) \in Rows
<1>1. SubOf(t) \notin Tenants /\ SubOf(t) \notin Tokens /\ SubOf(t) \notin HW
      /\ \A x \in Tenants : SubOf(x) = SubOf(t) => x = t
  BY RowNames
<1>2. draft'[p][SubOf(t)] = value /\ Registered(t)'
  BY AddsFacts DEF IInv
<1>3. SubDraft(p, t)'
  BY <1>2 DEF SubDraft
<1> QED
  BY <1>1, <1>3 DEF Fits, Rows

\* A subscription that a payment refers to is not being deleted.
LEMMA InsertPaymentInv == ASSUME IInv, NEW p \in Workers, InsertPayment(p) PROVE IInv'
<1> DEFINE t == req[p].t
<1>0. TxTypeOK /\ pc[p] = "record" /\ Local(p) /\ Runs(p, "record")
  BY DEF IInv, InsertPayment, Runs
<1>1. req[p].op = "payment" /\ Drafted(p) = {} /\ ~ Deletes(p) /\ Undisputed(p)
  BY <1>0, NoDispute DEF Local, OnPath, NothingYet, Deletes
<1>2. CASE Crash(p)
  BY <1>0, <1>2, GoneInv
<1>3. CASE /\ Then(p, "pay") /\ share' = [share EXCEPT ![p] = @ \cup Referred(p)]
           /\ UNCHANGED <<req, seen, draft>>
  <2>1. /\ UNCHANGED <<vars, ledger, crashed>> /\ pc' = [pc EXCEPT ![p] = "pay"]
        /\ UNCHANGED <<req, seen, draft>>
    BY <1>3 DEF Then
  <2>2. share[p] \cup Referred(p) \in SUBSET Referable
    BY <1>0, ControlTypes, ReferredType
  <2>3. /\ share' \in [Workers -> SUBSET Referable] /\ share'[p] = share[p] \cup Referred(p)
        /\ pc' \in [Workers -> Statements] /\ pc'[p] = "pay"
        /\ \A q \in Workers \ {p} : Same(q)
    BY <1>0, <1>3, <2>1, <2>2, ControlTypes DEF Same, Statements
  <2>4. Moves(p)
    BY <1>0, <2>1, <2>3, ControlTypes DEF Moves, TxTypeOK
  <2>5. Drafted(p)' = {} /\ (Deletes(p)' <=> Deletes(p))
    BY <1>1, <2>1 DEF Drafted, Deletes
  <2>6. Draft(p)'
    BY <2>5 DEF Draft
  <2>7. Local(p)'
    BY <1>0, <1>1, <2>1, <2>3, <2>5 DEF Local, OnPath, NothingYet, Booking, Books,
       Reinstating, Releasing, Locking, Deleting, Deletes
  <2>8. ASSUME NEW q \in Workers \ {p} PROVE Apart(p, q)' /\ Apart(q, p)'
    <3>1. Same(q) /\ Apart(p, q) /\ Apart(q, p)
      BY <2>3 DEF IInv
    <3>2. Deletes(q) => Drafted(q) \cap Referred(p) = {}
      BY <1>0, RefersFree
    <3>3. Drafted(q)' = Drafted(q) /\ (Deletes(q)' <=> Deletes(q)) /\ req' = req
      BY <2>1, <3>1 DEF Same, Drafted, Deletes
    <3>4. Apart(p, q)'
      BY <1>1, <2>5, <3>1, <3>3 DEF Apart, Deletes
    <3>5. Apart(q, p)'
      BY <1>1, <2>3, <2>5, <3>1, <3>2, <3>3 DEF Apart, Undisputed
    <3> QED
      BY <3>4, <3>5
  <2> QED
    BY <2>4, <2>6, <2>7, <2>8, MovesInv
<1> QED
  BY <1>2, <1>3 DEF InsertPayment

\* A payment writes the subscription of a registered tenant.
LEMMA PayInv == ASSUME IInv, NEW p \in Workers, Pay(p) PROVE IInv'
<1>0. TxTypeOK /\ pc[p] = "pay" /\ Local(p) /\ Runs(p, "pay")
  BY DEF IInv, Pay, Runs
<1>t. PICK t \in Tenants : t = req[p].t
  BY <1>0, ReqFacts DEF Local, OnPath
<1>1. Drafted(p) = {} /\ ~ Deletes(p)
  BY <1>0 DEF Local, OnPath, NothingYet, Deletes
<1> DEFINE value == [sub[t] EXCEPT !.until = seen[p].sub.until, !.paid = TRUE,
                                   !.status = "ACTIVE"]
<1>2. CASE Leave(p)
  BY <1>0, <1>2, GoneInv
<1>3. CASE Registered(t) /\ Write(p, SubOf(t), value, "commit")
  <2>1. value \in SubRow
    <3>1. seen[p].sub.until \in Nat
      BY <1>0, ControlTypes DEF Remembered, SubRow
    <3> QED
      BY <3>1, RowTypes DEF SubRow
  <2> HIDE DEF value
  <2>2. Adds(p, SubOf(t), value, "commit")
    BY <1>0, <1>3, WriteAdds
  <2>3. Fits(p, SubOf(t))' /\ SubOf(t) \in Rows
    BY <1>3, <2>1, <2>2, SubFits
  <2>4. Wanted(p) = {SubOf(t)}
    BY <1>0, <1>t, <1>3 DEF Wanted
  <2>5. Holders(p, SubOf(t)) = {} /\ Undisputed(p)
    BY <1>0, <2>4, Alone, NoDispute
  <2> QED
    BY <1>0, <1>1, <2>2, <2>3, <2>5, RowWritten
<1> QED
  BY <1>t, <1>2, <1>3 DEF Pay

\* A tenant that is locked to change its status stays registered.
LEMMA SetStatusInv == ASSUME IInv, NEW p \in Workers, SetStatus(p) PROVE IInv'
<1>0. TxTypeOK /\ pc[p] = "status" /\ Local(p) /\ Runs(p, "status")
  BY DEF IInv, SetStatus, Runs
<1>t. PICK t \in Tenants : t = req[p].t
  BY <1>0, ReqFacts DEF Local, OnPath
<1>1. Drafted(p) = {} /\ ~ Deletes(p)
  BY <1>0 DEF Local, OnPath, NothingYet, Deletes
<1>2. CASE Leave(p)
  BY <1>0, <1>2, GoneInv
<1>3. CASE /\ Registered(t)
           /\ \E value \in {"SUSPENDED", "ACTIVE"} : Write(p, t, value, "substatus")
  <2>1. PICK value \in {"SUSPENDED", "ACTIVE"} : Write(p, t, value, "substatus")
    BY <1>3
  <2>2. Adds(p, t, value, "substatus")
    BY <1>0, <2>1, WriteAdds
  <2>3. /\ Drafted(p)' = {t} /\ draft'[p][t] = value /\ pc'[p] = "substatus" /\ req' = req
        /\ tok' = tok /\ (Deletes(p)' <=> Deletes(p)) /\ Registered(t)'
    BY <1>0, <1>1, <1>3, <2>2, AddsFacts
  <2>4. TenantDraft(p, t)'
    BY <2>1, <2>3 DEF TenantDraft, TenantStatus
  <2>5. Fits(p, t)' /\ t \in Rows
    BY <2>4, RowNames DEF Fits, Rows
  <2>6. Draft(p)'
    BY <1>1, <2>2, <2>5, DraftGrows
  <2>7. Local(p)'
    <3>1. OnPath(p)' /\ ~ NothingYet(p)'
      BY <1>0, <2>3 DEF Local, OnPath, NothingYet
    <3>2. Locking(p)'
      BY <1>t, <2>3 DEF Locking
    <3>3. Booking(p)' /\ Reinstating(p)' /\ Releasing(p)' /\ Deleting(p)'
      BY <1>1, <2>3 DEF Booking, Reinstating, Releasing, Deleting
    <3> QED
      BY <1>0, <2>3, <3>1, <3>2, <3>3 DEF Local
  <2>8. Wanted(p) = {t}
    BY <1>0, <1>t, <1>3 DEF Wanted
  <2>9. Holders(p, t) = {} /\ "substatus" \in Statements \ {"idle"} /\ Undisputed(p)
    BY <1>0, <2>8, Alone, NoDispute DEF Statements
  <2> QED
    BY <1>0, <2>2, <2>6, <2>7, <2>9, AddsInv
<1> QED
  BY <1>t, <1>2, <1>3 DEF SetStatus

\* The subscription follows its locked tenant.
LEMMA SetSubStatusInv == ASSUME IInv, NEW p \in Workers, SetSubStatus(p) PROVE IInv'
<1>0. TxTypeOK /\ pc[p] = "substatus" /\ Local(p) /\ Runs(p, "substatus")
  BY DEF IInv, SetSubStatus, Runs
<1>t. PICK t \in Tenants : t = req[p].t
  BY <1>0, ReqFacts DEF Local, OnPath
<1>1. Drafted(p) = {t} /\ Registered(t) /\ ~ Deletes(p)
  BY <1>0, <1>t DEF Local, OnPath, Locking, Deletes
<1>2. PICK value \in SubRow : Write(p, SubOf(t), value, "commit")
  <2>1. sub[t] \in SubRow
    BY RowTypes
  <2> DEFINE a == [sub[t] EXCEPT !.status = "SUSPENDED", !.paid = FALSE]
             b == [sub[t] EXCEPT !.status = "ACTIVE"]
  <2>2. a \in SubRow /\ b \in SubRow
    BY <2>1 DEF SubRow
  <2>3. Write(p, SubOf(t), a, "commit") \/ Write(p, SubOf(t), b, "commit")
    BY <1>t DEF SetSubStatus
  <2> QED
    BY <2>2, <2>3
<1>3. Adds(p, SubOf(t), value, "commit")
  BY <1>0, <1>2, WriteAdds
<1>4. Fits(p, SubOf(t))' /\ SubOf(t) \in Rows
  BY <1>1, <1>3, SubFits
<1>5. Wanted(p) = {SubOf(t)}
  BY <1>0, <1>t, <1>1 DEF Wanted
<1>6. Holders(p, SubOf(t)) = {} /\ Undisputed(p) /\ SubOf(t) \notin Drafted(p)
  BY <1>0, <1>1, <1>5, Alone, NoDispute, RowNames
<1> QED
  BY <1>0, <1>1, <1>3, <1>4, <1>6, RowWritten

\* New terms are drafted.
LEMMA PatchInv == ASSUME IInv, NEW p \in Workers, Patch(p) PROVE IInv'
<1>0. TxTypeOK /\ pc[p] = "patch" /\ Local(p) /\ Runs(p, "patch")
  BY DEF IInv, Patch, Runs
<1>t. PICK t \in Tenants : t = req[p].t
  BY <1>0, ReqFacts DEF Local, OnPath
<1>1. Drafted(p) = {} /\ req[p].op = "patch"
  BY <1>0 DEF Local, OnPath, NothingYet
<1>2. CASE Leave(p)
  BY <1>0, <1>2, GoneInv
<1>3. ASSUME NEW n \in SeatLimits, Registered(t),
             Write(p, SubOf(t), [sub[t] EXCEPT !.limit = n], "audit")
      PROVE  IInv'
  <2> DEFINE value == [sub[t] EXCEPT !.limit = n]
  <2>1. value \in SubRow
    BY InputAssumption, RowTypes DEF SubRow
  <2> HIDE DEF value
  <2>2. Adds(p, SubOf(t), value, "audit")
    BY <1>0, <1>3, WriteAdds DEF value
  <2>3. Fits(p, SubOf(t))' /\ SubOf(t) \in Rows
    BY <1>3, <2>1, <2>2, SubFits
  <2>4. Draft(p)'
    BY <1>1, <2>2, <2>3, DraftGrows
  <2>5. pc'[p] = "audit" /\ req' = req
    BY <1>0, <2>2, AddsFacts
  <2>6. Local(p)'
    <3>1. OnPath(p)' /\ ~ NothingYet(p)'
      BY <1>0, <1>1, <2>5 DEF Local, OnPath, NothingYet
    <3>2. Booking(p)' /\ Reinstating(p)' /\ Releasing(p)' /\ Locking(p)' /\ Deleting(p)'
      BY <1>1, <2>5 DEF Booking, Reinstating, Releasing, Locking, Deleting, Deletes
    <3> QED
      BY <1>1, <2>5, <3>1, <3>2 DEF Local
  <2>7. Wanted(p) = {SubOf(t)}
    BY <1>0, <1>t, <1>3 DEF Wanted
  <2>8. Holders(p, SubOf(t)) = {} /\ Undisputed(p) /\ "audit" \in Statements \ {"idle"}
    BY <1>0, <2>7, Alone, NoDispute DEF Statements
  <2> QED
    BY <1>0, <2>2, <2>4, <2>6, <2>8, AddsInv
<1> QED
  BY <1>t, <1>2, <1>3 DEF Patch

\* A patch never commits.
LEMMA AuditPatchInv == ASSUME IInv, NEW p \in Workers, AuditPatch(p) PROVE IInv'
BY GoneInv DEF AuditPatch, Runs

-----------------------------------------------------------------------------
(* Deleting a tenant.                                                        *)

\* What a worker knows that deletes, once it has its tenant.
LEMMA DeletingOn ==
    ASSUME IInv, NEW p \in Workers, Deletes(p), pc[p] # "idle", req' = req,
           pc'[p] \in {"cascade_sub", "cascade_dev", "cascade_tok", "commit"},
           Locking(p)', Deleting(p)'
    PROVE  Local(p)'
<1>1. req[p].op = "delete" /\ req[p].op \in Ops
  BY DEF IInv, Local, OnPath, Deletes
<1>2. OnPath(p)' /\ ~ NothingYet(p)'
  BY <1>1 DEF OnPath, NothingYet
<1>3. Booking(p)' /\ Reinstating(p)' /\ Releasing(p)'
  BY <1>1 DEF Booking, Books, Reinstating, Releasing
<1> QED
  BY <1>1, <1>2, <1>3 DEF Local

\* A delete starts with the row of its tenant.
LEMMA DeleteInv == ASSUME IInv, NEW p \in Workers, Delete(p) PROVE IInv'
<1>0. TxTypeOK /\ pc[p] = "delete" /\ Local(p) /\ Runs(p, "delete")
  BY DEF IInv, Delete, Runs
<1>t. PICK t \in Tenants : t = req[p].t
  BY <1>0, ReqFacts DEF Local, OnPath
<1>1. Drafted(p) = {} /\ Deletes(p)
  BY <1>0 DEF Local, OnPath, NothingYet, Deletes
<1>2. CASE Leave(p)
  BY <1>0, <1>2, GoneInv
<1>3. CASE Registered(t) /\ Write(p, t, "NONE", "cascade_sub")
  <2>1. Adds(p, t, "NONE", "cascade_sub")
    BY <1>0, <1>3, WriteAdds
  <2>2. /\ Drafted(p)' = {t} /\ draft'[p][t] = "NONE" /\ pc'[p] = "cascade_sub" /\ req' = req
        /\ Deletes(p)' /\ Registered(t)'
    BY <1>0, <1>1, <1>3, <2>1, AddsFacts
  <2>3. TenantDraft(p, t)'
    BY <1>t, <2>2 DEF TenantDraft, TenantStatus
  <2>4. Fits(p, t)' /\ t \in Rows
    BY <2>3, RowNames DEF Fits, Rows
  <2>5. Draft(p)'
    BY <1>1, <2>1, <2>4, DraftGrows
  <2>6. Locking(p)' /\ Deleting(p)'
    BY <1>t, <2>2 DEF Locking, Deleting
  <2>7. Local(p)'
    BY <1>0, <1>1, <2>2, <2>6, DeletingOn
  <2>8. Wanted(p) = {t}
    BY <1>0, <1>t, <1>3 DEF Wanted
  <2>9. Holders(p, t) = {} /\ Undisputed(p) /\ "cascade_sub" \in Statements \ {"idle"}
    BY <1>0, <2>8, Alone, NoDispute DEF Statements
  <2> QED
    BY <1>0, <2>1, <2>5, <2>7, <2>9, AddsInv
<1> QED
  BY <1>t, <1>2, <1>3 DEF Delete

\* Next goes the subscription.
LEMMA CascadeSubInv == ASSUME IInv, NEW p \in Workers, CascadeSub(p) PROVE IInv'
<1>0. TxTypeOK /\ pc[p] = "cascade_sub" /\ Local(p) /\ Runs(p, "cascade_sub")
  BY DEF IInv, CascadeSub, Runs
<1>t. PICK t \in Tenants : t = req[p].t
  BY <1>0, ReqFacts DEF Local, OnPath
<1>1. Drafted(p) = {t} /\ Registered(t) /\ Deletes(p)
  BY <1>0, <1>t DEF Local, OnPath, Locking, Deletes
<1>2. Adds(p, SubOf(t), NoSub, "cascade_dev")
  BY <1>0, <1>t, WriteAdds DEF CascadeSub
<1>3. Fits(p, SubOf(t))' /\ SubOf(t) \in Rows
  BY <1>1, <1>2, SubFits, RowTypes
<1>4. Drafted(p)' = {t, SubOf(t)} /\ pc'[p] = "cascade_dev" /\ req' = req /\ SubOf(t) \notin Drafted(p)
  BY <1>0, <1>1, <1>2, AddsFacts, RowNames
<1>5. Draft(p)'
  BY <1>2, <1>3, <1>4, DraftGrows
<1>6. Locking(p)' /\ Deleting(p)'
  BY <1>t, <1>4 DEF Locking, Deleting
<1>7. Local(p)'
  BY <1>0, <1>1, <1>4, <1>6, DeletingOn
<1>8. Wanted(p) = {SubOf(t)}
  BY <1>0, <1>t, <1>1 DEF Wanted
<1>9. Holders(p, SubOf(t)) = {} /\ Undisputed(p) /\ "cascade_dev" \in Statements \ {"idle"}
  BY <1>0, <1>8, Alone, NoDispute DEF Statements
<1> QED
  BY <1>0, <1>2, <1>5, <1>7, <1>9, AddsInv

\* Then every device of the tenant.
LEMMA CascadeDevInv == ASSUME IInv, NEW p \in Workers, CascadeDev(p) PROVE IInv'
<1>0. TxTypeOK /\ pc[p] = "cascade_dev" /\ Local(p) /\ Runs(p, "cascade_dev")
  BY DEF IInv, CascadeDev, Runs
<1>t. PICK t \in Tenants : t = req[p].t
  BY <1>0, ReqFacts DEF Local, OnPath
<1>1. Deletes(p) /\ t \in Drafted(p) /\ SubOf(t) \in Drafted(p)
  BY <1>0, <1>t DEF Local, OnPath, Deleting, Deletes
<1>2. Wanted(p) = {h \in HW : dev[h].tenant = t} \ Drafted(p)
  BY <1>0, <1>t DEF Wanted, Drafted
<1>3. CASE Wanted(p) = {} /\ Skip(p, "cascade_tok")
  <2>1. /\ Reads(p) /\ pc'[p] = "cascade_tok" /\ req' = req
        /\ UNCHANGED vars /\ Drafted(p)' = Drafted(p)
    BY <1>3, SkipReads DEF Statements
  <2>2. Locking(p)' /\ Deleting(p)'
    BY <1>t, <1>1, <1>2, <1>3, <2>1 DEF Locking, Deleting, vars
  <2>3. Local(p)'
    BY <1>0, <1>1, <2>1, <2>2, DeletingOn
  <2> QED
    BY <1>0, <2>1, <2>3, NoDispute, ReadsInv
<1>4. ASSUME NEW h \in Free(p), Write(p, h, NoDev, "cascade_dev") PROVE IInv'
  <2>1. h \in HW /\ dev[h].tenant = t /\ h \notin Drafted(p) /\ Holders(p, h) = {}
    BY <1>2 DEF Free
  <2>2. Adds(p, h, NoDev, "cascade_dev")
    BY <1>0, <1>4, WriteAdds
  <2>3. /\ Drafted(p)' = Drafted(p) \cup {h} /\ draft'[p][h] = NoDev
        /\ pc'[p] = "cascade_dev" /\ req' = req /\ dev' = dev /\ (Deletes(p)' <=> Deletes(p))
    BY <1>0, <2>2, AddsFacts
  <2>4. DeviceDraft(p, h)'
    BY <1>t, <1>1, <2>1, <2>3, RowTypes DEF DeviceDraft
  <2>5. Fits(p, h)' /\ h \in Rows
    BY <2>1, <2>4, RowNames DEF Fits, Rows
  <2>6. Draft(p)'
    BY <2>1, <2>2, <2>5, DraftGrows
  <2>7. Locking(p)' /\ Deleting(p)'
    BY <1>t, <1>1, <2>3 DEF Locking, Deleting
  <2>8. Local(p)'
    BY <1>0, <1>1, <2>3, <2>7, DeletingOn
  <2>9. Undisputed(p) /\ "cascade_dev" \in Statements \ {"idle"}
    BY <1>0, NoDispute DEF Statements
  <2> QED
    BY <1>0, <2>1, <2>2, <2>6, <2>8, <2>9, AddsInv
<1> QED
  BY <1>3, <1>4 DEF CascadeDev

\* Last every token, when no device is left that was booked on one.
LEMMA CascadeTokInv == ASSUME IInv, NEW p \in Workers, CascadeTok(p) PROVE IInv'
<1>0. TxTypeOK /\ pc[p] = "cascade_tok" /\ Local(p) /\ Runs(p, "cascade_tok")
  BY DEF IInv, CascadeTok, Runs
<1>t. PICK t \in Tenants : t = req[p].t
  BY <1>0, ReqFacts DEF Local, OnPath
<1>1. /\ Deletes(p) /\ t \in Drafted(p) /\ SubOf(t) \in Drafted(p)
      /\ \A h \in HW : dev[h].tenant = t => h \in Drafted(p)
  BY <1>0, <1>t DEF Local, OnPath, Deleting, Deletes
<1>2. Wanted(p) = {k \in Tokens : tok[k].owner = t} \ Drafted(p)
  BY <1>0, <1>t DEF Wanted, Drafted
<1>3. CASE Crash(p)
  BY <1>0, <1>3, GoneInv
<1>4. CASE /\ Wanted(p) = {} /\ Skip(p, "commit")
           /\ {h \in HW \ Drafted(p) : dev[h].via \in Tokens \cap Drafted(p)} = {}
  <2>1. /\ Reads(p) /\ pc'[p] = "commit" /\ req' = req
        /\ UNCHANGED vars /\ Drafted(p)' = Drafted(p)
    BY <1>4, SkipReads DEF Statements
  <2>2. Locking(p)' /\ Deleting(p)'
    BY <1>t, <1>1, <1>2, <1>4, <2>1 DEF Locking, Deleting, vars
  <2>3. Local(p)'
    BY <1>0, <1>1, <2>1, <2>2, DeletingOn
  <2> QED
    BY <1>0, <2>1, <2>3, NoDispute, ReadsInv
<1>5. ASSUME NEW k \in Free(p), Write(p, k, NoTok, "cascade_tok") PROVE IInv'
  <2>1. k \in Tokens /\ tok[k].owner = t /\ k \notin Drafted(p) /\ Holders(p, k) = {}
    BY <1>2 DEF Free
  <2>2. Adds(p, k, NoTok, "cascade_tok")
    BY <1>0, <1>5, WriteAdds
  <2>3. /\ Drafted(p)' = Drafted(p) \cup {k} /\ draft'[p][k] = NoTok
        /\ pc'[p] = "cascade_tok" /\ req' = req /\ tok' = tok /\ dev' = dev
        /\ (Deletes(p)' <=> Deletes(p))
    BY <1>0, <2>2, AddsFacts
  <2>4. TokenDraft(p, k)'
    BY <1>t, <1>1, <2>1, <2>3, RowTypes DEF TokenDraft
  <2>5. Fits(p, k)' /\ k \in Rows
    BY <2>1, <2>4, RowNames DEF Fits, Rows
  <2>6. Draft(p)'
    BY <2>1, <2>2, <2>5, DraftGrows
  <2>7. Locking(p)' /\ Deleting(p)'
    BY <1>t, <1>1, <2>3 DEF Locking, Deleting
  <2>8. Local(p)'
    BY <1>0, <1>1, <2>3, <2>7, DeletingOn
  <2>9. Undisputed(p) /\ "cascade_tok" \in Statements \ {"idle"}
    BY <1>0, NoDispute DEF Statements
  <2> QED
    BY <1>0, <2>1, <2>2, <2>6, <2>8, <2>9, AddsInv
<1> QED
  BY <1>3, <1>4, <1>5 DEF CascadeTok, Drafted

-----------------------------------------------------------------------------
(* Requests begin, and deadlocks are broken.                                 *)

\* The first statement belongs to the operation, and nothing precedes it.
LEMMA FirstFacts ==
    ASSUME NEW r \in Requests, NEW s, s = FirstStatement(r.op)
    PROVE  /\ r.op \in Ops /\ s \in Statements \ {"idle"}
           /\ s \in {"check", "revoke", "lock", "heartbeat", "create", "generate_token",
                     "revoke_token", "payment", "status", "patch", "delete"}
           /\ s = "check" <=> r.op \in {"cp_activate", "public_activate", "cp_consume_seat"}
           /\ s = "revoke" <=> r.op = "release_seat"
           /\ s = "lock" <=> r.op = "reinstate"
           /\ s = "status" <=> r.op \in {"suspend", "reactivate"}
           /\ s \in {"heartbeat", "create", "generate_token", "revoke_token", "payment",
                     "patch", "delete"} => r.op = s
           /\ r.k \in Tokens => s \in {"check", "generate_token", "revoke_token"}
           /\ r.op = "generate_token" => r.k \in Tokens /\ s = "generate_token"
<1>1. /\ r.op \in Ops
      /\ r.op \in {"cp_activate", "cp_consume_seat", "public_activate", "heartbeat",
                   "release_seat", "reinstate", "payment", "patch", "suspend", "reactivate",
                   "delete", "create", "generate_token", "revoke_token"}
      /\ \/ r.k = None /\ r.op # "generate_token"
         \/ /\ r.k \in Tokens
            /\ r.op \in {"cp_activate", "cp_consume_seat", "public_activate",
                         "generate_token", "revoke_token"}
  BY DEF Requests
<1>2. s = IF r.op \in {"cp_activate", "public_activate", "cp_consume_seat"} THEN "check"
          ELSE IF r.op = "release_seat" THEN "revoke"
          ELSE IF r.op = "reinstate" THEN "lock"
          ELSE IF r.op \in {"suspend", "reactivate"} THEN "status"
          ELSE r.op
  BY <1>1 DEF FirstStatement
<1> QED
  BY <1>1, <1>2, NoneAssumption DEF Statements

\* A request is accepted: the row it will insert is nobody else's.
LEMMA BeginInv == ASSUME IInv, NEW p \in Workers, Begin(p) PROVE IInv'
<1>0. TxTypeOK /\ pc[p] = "idle"
  BY DEF IInv, Begin
<1>1. PICK r \in Requests : /\ SlotFree(r) /\ req' = [req EXCEPT ![p] = r]
                            /\ pc' = [pc EXCEPT ![p] = FirstStatement(r.op)]
  BY DEF Begin
<1>2. PICK s \in Statements \ {"idle"} : s = FirstStatement(r.op)
  BY FirstFacts
<1>3. UNCHANGED <<vars, seen, draft, share, ledger, crashed>>
  BY DEF Begin
<1>4. draft[p] = Empty /\ share[p] = {}
  BY <1>0 DEF TxTypeOK
<1>5. /\ pc'[p] = s /\ req'[p] = r
      /\ pc' \in [Workers -> Statements] /\ req' \in [Workers -> Served]
      /\ \A q \in Workers \ {p} : Same(q)
  BY <1>0, <1>1, <1>2, <1>3, ControlTypes DEF Same, Served
<1>6. Moves(p)
  BY <1>0, <1>2, <1>3, <1>5, ControlTypes DEF Moves, TxTypeOK
<1>7. Drafted(p) = {} /\ Drafted(p)' = {}
  BY <1>3, <1>4 DEF Drafted, Empty
<1>8. Draft(p)'
  BY <1>7 DEF Draft
<1>9. Local(p)'
  <2>1. OnPath(p)'
    BY <1>2, <1>5, FirstFacts DEF OnPath, Books
  <2>2. s \notin {"lookup", "count", "take", "store", "rotate", "touch", "give", "substatus",
                  "cascade_sub", "cascade_dev", "cascade_tok", "commit"}
    BY <1>2, FirstFacts
  <2>3. Booking(p)' /\ Reinstating(p)' /\ Releasing(p)' /\ Locking(p)' /\ Deleting(p)'
    BY <1>5, <2>2 DEF Booking, Reinstating, Releasing, Locking, Deleting
  <2>4. r.op = "generate_token" => tok'[r.k].owner = None
    BY <1>1, <1>3 DEF SlotFree, vars
  <2> QED
    BY <1>5, <1>7, <2>1, <2>3, <2>4 DEF Local
<1>10. ASSUME NEW q \in Workers \ {p} PROVE Apart(p, q)' /\ Apart(q, p)'
  <2>1. Same(q) /\ share'[p] = {}
    BY <1>3, <1>4, <1>5
  <2>2. r.op = "generate_token" => req[q].k # r.k
    BY <1>1 DEF SlotFree
  <2>3. Apart(p, q)'
    BY <1>5, <1>7, <2>1, <2>2 DEF Apart, Same
  <2>4. req[q].op = "generate_token" /\ r.k = req[q].k => s \in {"check", "revoke_token"}
    <3>1. req[q].op = "generate_token" => req[q].k \in Tokens
      BY <1>0, ReqFacts
    <3> QED
      BY <1>2, <2>2, <3>1, FirstFacts
  <2>5. Apart(q, p)'
    BY <1>5, <1>7, <2>1, <2>4 DEF Apart, Same
  <2> QED
    BY <2>3, <2>5
<1> QED
  BY <1>6, <1>8, <1>9, <1>10, MovesInv

\* Only who is at a statement waits.
LEMMA AbortInv == ASSUME IInv, NEW p \in Workers, AbortDeadlock(p) PROVE IInv'
<1>1. WaitsFor(p) # {} /\ Crash(p)
  BY DEF AbortDeadlock, Deadlocked
<1>2. ASSUME pc[p] = "idle" PROVE FALSE
  <2>1. Wanted(p) = {} /\ Referred(p) = {}
    BY <1>2 DEF Wanted, Referred
  <2>2. WaitsFor(p) = {}
    BY <2>1 DEF WaitsFor
  <2> QED
    BY <1>1, <2>2
<1> QED
  BY <1>1, <1>2, GoneInv

-----------------------------------------------------------------------------
(* Commits.                                                                  *)

\* What a commit makes of each row.
LEMMA CommitRows ==
    ASSUME IInv, NEW p \in Workers, Commit(p)
    PROVE  /\ \A t \in Tenants : tenant'[t] = IF t \in Drafted(p) THEN draft[p][t] ELSE tenant[t]
           /\ \A t \in Tenants : sub'[t] = IF SubOf(t) \in Drafted(p) THEN draft[p][SubOf(t)]
                                           ELSE sub[t]
           /\ \A k \in Tokens : tok'[k] = IF k \in Drafted(p) THEN draft[p][k] ELSE tok[k]
           /\ \A h \in HW : dev'[h] = IF h \in Drafted(p) THEN draft[p][h] ELSE dev[h]
           /\ now' = now /\ crashed' = crashed
           /\ DOMAIN tenant' = Tenants /\ DOMAIN sub' = Tenants
           /\ DOMAIN tok' = Tokens /\ DOMAIN dev' = HW
           /\ tenant' = [t \in Tenants |-> tenant'[t]] /\ sub' = [t \in Tenants |-> sub'[t]]
           /\ tok' = [k \in Tokens |-> tok'[k]] /\ dev' = [h \in HW |-> dev'[h]]
<1>1. DOMAIN tenant = Tenants /\ DOMAIN tok = Tokens /\ DOMAIN dev = HW
  BY DEF IInv, TxTypeOK, TypeOK
<1> QED
  BY <1>1 DEF Commit, Committed, Drafted

\* What a commit leaves of its worker.
LEMMA CommitEnds ==
    ASSUME IInv, NEW p \in Workers, Commit(p)
    PROVE  /\ pc[p] = "commit" /\ pc'[p] = "idle" /\ req'[p] = NoReq
           /\ draft'[p] = Empty /\ share'[p] = {}
           /\ \A q \in Workers \ {p} : Same(q)
           /\ pc' \in [Workers -> Statements] /\ req' \in [Workers -> Served]
           /\ seen' \in [Workers -> Remembered] /\ share' \in [Workers -> SUBSET Referable]
           /\ DOMAIN draft' = Workers
<1>1. NoReq \in Served /\ NoSeen \in Remembered /\ "idle" \in Statements
  BY DEF Served, NoSeen, NoSub, NoDev, SubRow, DevRow, Statements, Remembered
<1>2. TxTypeOK /\ EndRequest(p) /\ pc[p] = "commit"
  BY DEF IInv, Commit
<1>3. /\ pc' \in [Workers -> Statements] /\ req' \in [Workers -> Served]
      /\ seen' \in [Workers -> Remembered] /\ share' \in [Workers -> SUBSET Referable]
      /\ DOMAIN draft' = Workers
  BY <1>1, <1>2, ControlTypes, Update DEF EndRequest
<1>4. /\ pc'[p] = "idle" /\ req'[p] = NoReq
      /\ draft'[p] = Empty /\ share'[p] = {}
      /\ \A q \in Workers \ {p} : Same(q)
  BY <1>2, ControlTypes DEF EndRequest, Same
<1> QED
  BY <1>2, <1>3, <1>4

\* The rows keep their types.
LEMMA CommitTypes == ASSUME IInv, NEW p \in Workers, Commit(p) PROVE TypeOK'
<1>0. TypeOK /\ Draft(p)
  BY DEF IInv, TxTypeOK
<1>1. \A t \in Tenants : tenant'[t] \in TenantStatus
  BY <1>0, CommitRows DEF Draft, TenantDraft, TypeOK
<1>2. \A t \in Tenants : sub'[t] \in SubRow
  BY <1>0, CommitRows DEF Draft, SubDraft, TypeOK
<1>3. \A k \in Tokens : tok'[k] \in TokRow
  BY <1>0, CommitRows DEF Draft, TokenDraft, TypeOK
<1>4. \A h \in HW : dev'[h] \in DevRow
  BY <1>0, CommitRows DEF Draft, DeviceDraft, TypeOK
<1>5. now' \in Nat
  BY <1>0, CommitRows DEF TypeOK
<1>6. tenant' \in [Tenants -> TenantStatus] /\ sub' \in [Tenants -> SubRow]
  BY <1>1, <1>2, CommitRows
<1>7. tok' \in [Tokens -> TokRow] /\ dev' \in [HW -> DevRow]
  BY <1>3, <1>4, CommitRows
<1> QED
  BY <1>5, <1>6, <1>7 DEF TypeOK

\* A tenant goes only with the request that deletes it.
LEMMA TenantFate ==
    ASSUME IInv, NEW p \in Workers, Commit(p), NEW t \in Tenants, Registered(t)
    PROVE  Registered(t)' \/ (Deletes(p) /\ req[p].t = t /\ t \in Drafted(p))
BY CommitRows DEF IInv, Draft, TenantDraft, Registered

\* A token that is issued keeps its owner, and a new one is new to everybody,
\* unless they go with their tenant.
LEMMA TokenFate ==
    ASSUME IInv, NEW p \in Workers, Commit(p), NEW k \in Tokens
    PROVE  \/ tok'[k] = tok[k] /\ k \notin Drafted(p)
           \/ /\ Deletes(p) /\ k \in Drafted(p) /\ tok'[k] = NoTok
              /\ tok[k].owner = req[p].t
           \/ /\ ~Deletes(p) /\ k \in Drafted(p)
              /\ tok[k].owner # None /\ tok'[k].owner = tok[k].owner
              /\ tok'[k].quota = tok[k].quota
           \/ /\ ~Deletes(p) /\ k \in Drafted(p)
              /\ tok[k].owner = None /\ req[p].op = "generate_token" /\ k = req[p].k
              /\ tok'[k].owner = req[p].t /\ tok'[k].consumed = 0
              /\ Registered(req[p].t) /\ SubOf(req[p].t) \in share[p]
<1>1. CASE k \notin Drafted(p)
  BY <1>1, CommitRows
<1>2. CASE k \in Drafted(p)
  <2>1. tok'[k] = draft[p][k] /\ TokenDraft(p, k)
    BY <1>2, CommitRows DEF IInv, Draft
  <2>2. CASE Deletes(p)
    BY <1>2, <2>1, <2>2 DEF TokenDraft
  <2>3. CASE ~ Deletes(p)
    BY <1>2, <2>1, <2>3 DEF TokenDraft
  <2> QED
    BY <2>2, <2>3
<1> QED
  BY <1>1, <1>2

\* A device stays on its token, or takes one whose seat the same commit takes,
\* or goes with its tenant.
LEMMA DeviceFate ==
    ASSUME IInv, NEW p \in Workers, Commit(p), NEW h \in HW
    PROVE  \/ dev'[h] = dev[h] /\ h \notin Drafted(p)
           \/ /\ Deletes(p) /\ h \in Drafted(p) /\ dev'[h] = NoDev
              /\ dev[h].tenant = req[p].t
           \/ /\ ~Deletes(p) /\ h \in Drafted(p) /\ h = req[p].h
              /\ Bound(h) /\ dev'[h].tenant = dev[h].tenant /\ dev'[h].via = dev[h].via
              /\ dev[h].revoked => dev'[h].revoked
           \/ /\ ~Deletes(p) /\ h \in Drafted(p) /\ h = req[p].h
              /\ dev'[h].tenant # None /\ dev'[h].via \in Tokens
              /\ TakesOne(p, dev'[h].via) /\ tok[dev'[h].via].owner = dev'[h].tenant
              /\ dev[h].tenant = dev'[h].tenant \/ dev'[h].tenant \in share[p]
<1>1. CASE h \notin Drafted(p)
  BY <1>1, CommitRows
<1>2. CASE h \in Drafted(p)
  <2>1. dev'[h] = draft[p][h] /\ DeviceDraft(p, h)
    BY <1>2, CommitRows DEF IInv, Draft
  <2>2. CASE Deletes(p)
    BY <1>2, <2>1, <2>2 DEF DeviceDraft
  <2>3. CASE ~ Deletes(p)
    BY <1>2, <2>1, <2>3 DEF DeviceDraft
  <2> QED
    BY <2>2, <2>3
<1> QED
  BY <1>1, <1>2

\* A tenant that is deleted takes with it its tokens, and every device of its
\* own or of theirs.
LEMMA CommitDeletes ==
    ASSUME IInv, NEW p \in Workers, Commit(p), Deletes(p)
    PROVE  /\ req[p].t \in Drafted(p) /\ SubOf(req[p].t) \in Drafted(p)
           /\ \A h \in HW : dev[h].tenant = req[p].t => h \in Drafted(p)
           /\ \A k \in Tokens : tok[k].owner = req[p].t => k \in Drafted(p)
           /\ \A h \in HW : dev[h].via \in Tokens \cap Drafted(p) => h \in Drafted(p)
BY CommitEnds DEF IInv, Local, Deleting

\* After a commit that deletes nothing, tokens keep their owners.
LEMMA OwnersStay ==
    ASSUME IInv, NEW p \in Workers, Commit(p), NEW k \in Tokens, tok[k].owner # None
    PROVE  tok'[k].owner = tok[k].owner \/ (Deletes(p) /\ k \in Drafted(p))
BY TokenFate

\* A commit leaves no row that refers to nothing.
LEMMA CommitReferences == ASSUME IInv, NEW p \in Workers, Commit(p) PROVE ReferencesIntact'
<1>0. ReferencesIntact
  BY DEF IInv
<1>1. ASSUME NEW k \in Tokens, tok'[k].owner # None PROVE Registered(tok[k].owner)'
  <2>1. PICK t \in Tenants : t = tok'[k].owner
    BY <1>1, CommitTypes DEF TypeOK, TokRow
  <2>2. Registered(t)
    <3>1. tok[k].owner # None /\ tok'[k].owner = tok[k].owner => Registered(t)
      BY <1>0, <2>1 DEF ReferencesIntact
    <3> QED
      BY <1>1, <2>1, <3>1, TokenFate DEF NoTok
  <2>3. ~ (Deletes(p) /\ req[p].t = t)
    BY <1>1, <2>1, TokenFate, CommitDeletes DEF NoTok
  <2>4. Registered(t)'
    BY <2>2, <2>3, TenantFate
  <2> QED
    BY <2>1, <2>4 DEF Registered
<1>2. ASSUME NEW h \in HW, Bound(h)'
      PROVE  dev'[h].via # None /\ tok'[dev'[h].via].owner = dev'[h].tenant
  <2>1. CASE dev'[h] = dev[h] /\ h \notin Drafted(p)
    <3>1. Bound(h)
      BY <1>2, <2>1 DEF Bound
    <3>2. dev[h].via \in Tokens /\ tok[dev[h].via].owner = dev[h].tenant
      BY <3>1, BoundFacts
    <3>3. ~ (Deletes(p) /\ dev[h].via \in Drafted(p))
      BY <2>1, <3>2, CommitDeletes
    <3>4. tok'[dev[h].via].owner = tok[dev[h].via].owner
      BY <3>1, <3>2, <3>3, OwnersStay DEF Bound
    <3> QED
      BY <2>1, <3>2, <3>4, NoneAssumption
  <2>2. CASE dev'[h] = NoDev
    BY <1>2, <2>2 DEF Bound, NoDev
  <2>3. CASE /\ ~Deletes(p) /\ Bound(h)
             /\ dev'[h].tenant = dev[h].tenant /\ dev'[h].via = dev[h].via
    <3>1. dev[h].via \in Tokens /\ tok[dev[h].via].owner = dev[h].tenant
      BY <2>3, BoundFacts
    <3>2. tok'[dev[h].via].owner = tok[dev[h].via].owner
      BY <2>3, <3>1, OwnersStay DEF Bound
    <3> QED
      BY <2>3, <3>1, <3>2, NoneAssumption
  <2>4. CASE /\ ~Deletes(p) /\ dev'[h].tenant # None /\ dev'[h].via \in Tokens
             /\ tok[dev'[h].via].owner = dev'[h].tenant
    <3>1. tok'[dev'[h].via].owner = dev'[h].tenant
      BY <2>4, OwnersStay
    <3> QED
      BY <2>4, <3>1, NoneAssumption
  <2> QED
    BY <2>1, <2>2, <2>3, <2>4, DeviceFate
<1>3. ASSUME NEW h \in HW, ~Bound(h)' PROVE dev'[h] = NoDev
  <2>1. Bound(h) => dev[h].tenant # None
    BY DEF Bound
  <2>2. dev'[h].tenant = None
    BY <1>3 DEF Bound
  <2>3. dev'[h] = dev[h] => dev'[h] = NoDev
    BY <1>0, <2>2 DEF ReferencesIntact, Bound
  <2> QED
    BY <2>1, <2>2, <2>3, DeviceFate
<1> QED
  BY <1>1, <1>2, <1>3 DEF ReferencesIntact

\* A commit leaves no quota on a token it deletes.
LEMMA CommitFreeTokens == ASSUME IInv, NEW p \in Workers, Commit(p) PROVE FreeTokens'
<1>1. ASSUME NEW k \in Tokens, tok'[k].owner = None PROVE tok'[k].quota = 0
  <2>1. CASE tok'[k] = tok[k]
    BY <1>1, <2>1 DEF IInv, FreeTokens
  <2>2. CASE tok'[k] = NoTok
    BY <2>2 DEF NoTok
  <2>3. CASE req[p].op = "generate_token" /\ tok'[k].owner = req[p].t
    BY <1>1, <2>3, ReqFacts, NoneAssumption DEF IInv
  <2> QED
    BY <1>1, <2>1, <2>2, <2>3, TokenFate
<1> QED
  BY <1>1 DEF FreeTokens

\* The live devices of a token are counted by numbers.
LEMMA ViaFinite ==
    \A k : IsFiniteSet(LiveVia(k)) /\ Cardinality(LiveVia(k)) \in Nat
<1>1. \A k : LiveVia(k) \subseteq HW
  BY DEF LiveVia
<1> QED
  BY <1>1, FiniteAssumption, FS_Subset, FS_CardinalityType

\* A set that lost an element, or gained nothing but one, and its size.
LEMMA Sizes ==
    ASSUME NEW S, IsFiniteSet(S), NEW T, NEW x
    PROVE  /\ T \subseteq S => Cardinality(T) =< Cardinality(S)
           /\ T \subseteq S \cup {x} => Cardinality(T) =< Cardinality(S) + 1
           /\ x \in S /\ T \subseteq S \ {x} => Cardinality(T) =< Cardinality(S) - 1
<1>0. Cardinality(S) \in Nat
  BY FS_CardinalityType
<1>1. T \subseteq S => Cardinality(T) =< Cardinality(S)
  BY FS_Subset
<1>2. ASSUME T \subseteq S \cup {x} PROVE Cardinality(T) =< Cardinality(S) + 1
  <2> DEFINE U == S \cup {x}
  <2>1. IsFiniteSet(U) /\ Cardinality(U) =< Cardinality(S) + 1
    BY <1>0, FS_AddElement
  <2>2. Cardinality(T) =< Cardinality(U) /\ Cardinality(T) \in Nat /\ Cardinality(U) \in Nat
    BY <1>2, <2>1, FS_Subset, FS_CardinalityType
  <2> HIDE DEF U
  <2> QED
    BY <1>0, <2>1, <2>2
<1>3. ASSUME x \in S, T \subseteq S \ {x} PROVE Cardinality(T) =< Cardinality(S) - 1
  <2> DEFINE U == S \ {x}
  <2>1. IsFiniteSet(U) /\ Cardinality(U) = Cardinality(S) - 1
    BY <1>3, FS_RemoveElement
  <2>2. Cardinality(T) =< Cardinality(U)
    BY <1>3, <2>1, FS_Subset
  <2> HIDE DEF U
  <2> QED
    BY <2>1, <2>2
<1> QED
  BY <1>1, <1>2, <1>3

\* The counter of a token and its live devices, before and after a commit.
LEMMA CommitCounters ==
    ASSUME IInv, NEW p \in Workers, Commit(p)
    PROVE  NeverUndercounted'
<1> SUFFICES ASSUME NEW k \in Tokens
             PROVE  Cardinality(LiveVia(k)') =< tok'[k].consumed /\ tok'[k].consumed =< tok'[k].quota
  BY DEF NeverUndercounted
<1> DEFINE was == LiveVia(k)
           is == LiveVia(k)'
<1>0. /\ Cardinality(was) =< tok[k].consumed /\ tok[k].consumed =< tok[k].quota
      /\ tok[k].consumed \in Nat /\ tok[k].quota \in Nat
      /\ IsFiniteSet(was) /\ Cardinality(was) \in Nat
  BY ViaFinite, RowTypes DEF IInv, NeverUndercounted, TokRow
<1>1. tok'[k].consumed \in Nat /\ tok'[k].quota \in Nat
  BY CommitTypes DEF TypeOK, TokRow
\* Who is live now was live before, or is the device whose seat was taken.
<1>2. ASSUME NEW h \in is
      PROVE  /\ h \in HW
             /\ \/ h \in was /\ (h \in Drafted(p) => h = req[p].h /\ ~ dev'[h].revoked)
                \/ ~Deletes(p) /\ h = req[p].h /\ TakesOne(p, k)
  <2>1. h \in HW /\ dev'[h].via = k /\ ~ dev'[h].revoked /\ dev'[h].tenant # None
    BY DEF LiveVia, Live, Bound
  <2>2. CASE dev'[h] = dev[h] /\ h \notin Drafted(p)
    BY <2>1, <2>2 DEF LiveVia, Live, Bound
  <2>3. CASE dev'[h] = NoDev
    BY <2>1, <2>3 DEF NoDev
  <2>4. CASE /\ h = req[p].h /\ Bound(h) /\ dev'[h].via = dev[h].via
             /\ dev[h].revoked => dev'[h].revoked
    BY <2>1, <2>4 DEF LiveVia, Live
  <2>5. CASE ~Deletes(p) /\ h = req[p].h /\ TakesOne(p, dev'[h].via)
    BY <2>1, <2>5
  <2> QED
    BY <2>1, <2>2, <2>3, <2>4, <2>5, DeviceFate
<1> HIDE DEF was, is
<1> SUFFICES Cardinality(is) =< tok'[k].consumed /\ tok'[k].consumed =< tok'[k].quota
  BY DEF is
<1>3. ASSUME tok'[k] = tok[k] \/ tok'[k].consumed = tok[k].consumed,
             tok'[k].quota = tok[k].quota, ~ TakesOne(p, k)
      PROVE  Cardinality(is) =< tok'[k].consumed /\ tok'[k].consumed =< tok'[k].quota
  <2>1. is \subseteq was
    BY <1>2, <1>3
  <2>2. Cardinality(is) =< Cardinality(was) /\ Cardinality(is) \in Nat
    BY <1>0, <2>1, FS_Subset, FS_CardinalityType
  <2> QED
    BY <1>0, <1>3, <2>2
<1>4. ASSUME is = {} PROVE Cardinality(is) = 0
  BY <1>4, FS_EmptySet
<1>5. CASE tok'[k] = tok[k] /\ k \notin Drafted(p)
  BY <1>3, <1>5 DEF TakesOne
<1>6. CASE Deletes(p) /\ k \in Drafted(p) /\ tok'[k] = NoTok
  <2>1. ASSUME NEW h \in is PROVE FALSE
    <3>1. h \in HW /\ dev'[h].via = k /\ dev'[h].tenant # None
      BY DEF is, LiveVia, Live, Bound
    <3>2. dev'[h] # NoDev
      BY <3>1 DEF NoDev
    <3>3. dev'[h] = dev[h] /\ h \notin Drafted(p)
      BY <1>6, <3>1, <3>2, DeviceFate
    <3> QED
      BY <1>6, <3>1, <3>3, CommitDeletes
  <2> QED
    BY <1>4, <1>6, <2>1 DEF NoTok
<1>7. CASE ~Deletes(p) /\ k \in Drafted(p) /\ tok[k].owner # None
  <2>1. tok'[k] = draft[p][k] /\ TokenDraft(p, k)
    BY <1>7, CommitRows DEF IInv, Draft
  <2>2. tok'[k].quota = tok[k].quota
    BY <1>7, <2>1 DEF TokenDraft
  <2>3. CASE tok'[k].consumed = tok[k].consumed
    <3>1. ~ TakesOne(p, k)
      BY <1>0, <2>1, <2>3 DEF TakesOne
    <3> QED
      BY <1>3, <2>2, <2>3, <3>1
  <2>4. CASE tok'[k].consumed = tok[k].consumed + 1 /\ tok[k].consumed < tok[k].quota
    <3>1. is \subseteq was \cup {req[p].h}
      BY <1>2
    <3>2. Cardinality(is) =< Cardinality(was) + 1
      BY <1>0, <3>1, Sizes
    <3>3. IsFiniteSet(was \cup {req[p].h})
      BY <1>0, FS_AddElement
    <3>4. Cardinality(is) \in Nat
      BY <3>1, <3>3, FS_Subset, FS_CardinalityType
    <3> QED
      BY <1>0, <2>2, <2>4, <3>2, <3>4
  <2>5. CASE tok'[k].consumed = tok[k].consumed - 1 /\ Releases(p, k)
    <3>1. PICK h \in HW : h = req[p].h
      BY <2>5 DEF Releases
    <3>2. h \in Drafted(p) /\ h \in was /\ dev'[h].revoked
      BY <2>5, <3>1, CommitRows DEF Releases, was, LiveVia
    <3>3. ~ TakesOne(p, k)
      BY <1>0, <2>1, <2>5 DEF TakesOne
    <3>4. is \subseteq was \ {h}
      BY <1>2, <3>2, <3>3
    <3>5. Cardinality(is) =< Cardinality(was) - 1
      BY <1>0, <3>2, <3>4, Sizes
    <3>6. is \subseteq was
      BY <3>4
    <3>7. Cardinality(is) \in Nat
      BY <1>0, <3>6, FS_Subset, FS_CardinalityType
    <3> QED
      BY <1>0, <2>2, <2>5, <3>5, <3>7
  <2> QED
    BY <1>7, <2>1, <2>3, <2>4, <2>5 DEF TokenDraft
<1>8. CASE /\ tok[k].owner = None /\ tok'[k].consumed = 0
  <2>1. ASSUME NEW h \in is PROVE FALSE
    <3>1. h \in HW /\ dev'[h].via = k /\ dev'[h].tenant # None
      BY DEF is, LiveVia, Live, Bound
    <3>2. \A g \in HW : Bound(g) /\ dev[g].via = k => FALSE
      BY <1>8, BoundFacts, NoneAssumption
    <3>3. dev'[h] # NoDev
      BY <3>1 DEF NoDev
    <3>4. dev'[h] = dev[h] => Bound(h) /\ dev[h].via = k
      BY <3>1 DEF Bound
    <3> QED
      BY <1>8, <3>1, <3>2, <3>3, <3>4, DeviceFate
  <2> QED
    BY <1>1, <1>4, <1>8, <2>1
<1> QED
  BY <1>5, <1>6, <1>7, <1>8, TokenFate

\* What a worker has locked is not changed under it.
LEMMA LockedStays ==
    ASSUME IInv, NEW p \in Workers, Commit(p), NEW q \in Workers \ {p}
    PROVE  /\ \A t \in Tenants : t \in Drafted(q) => tenant'[t] = tenant[t]
           /\ \A k \in Tokens : k \in Drafted(q) => tok'[k] = tok[k]
           /\ \A h \in HW : h \in Drafted(q) => dev'[h] = dev[h]
           /\ Drafted(q)' = Drafted(q) /\ (Deletes(q)' <=> Deletes(q))
           /\ (Books(q)' <=> Books(q))
           /\ \A k \in Tokens : TakesOne(q, k) => TakesOne(q, k)'
<1>1. Drafted(p) \cap Drafted(q) = {}
  BY DEF IInv, Apart
<1>2. Same(q)
  BY CommitEnds
<1>3. /\ \A t \in Tenants : t \in Drafted(q) => tenant'[t] = tenant[t]
      /\ \A k \in Tokens : k \in Drafted(q) => tok'[k] = tok[k]
      /\ \A h \in HW : h \in Drafted(q) => dev'[h] = dev[h]
  BY <1>1, CommitRows
<1>4. Drafted(q)' = Drafted(q) /\ (Deletes(q)' <=> Deletes(q)) /\ (Books(q)' <=> Books(q))
  BY <1>2 DEF Same, Drafted, Deletes, Books
<1>5. \A k \in Tokens : TakesOne(q, k) => TakesOne(q, k)'
  BY <1>2, <1>3, <1>4 DEF TakesOne, Same
<1> QED
  BY <1>3, <1>4, <1>5

\* The drafts of the others are still what they were drafts of.
LEMMA CommitDrafts ==
    ASSUME IInv, NEW p \in Workers, Commit(p), NEW q \in Workers \ {p}
    PROVE  Draft(q)'
<1>0. Draft(q) /\ Apart(p, q) /\ Same(q)
  BY CommitEnds DEF IInv
<1>1. ASSUME NEW t \in Tenants, t \in Drafted(q)' PROVE TenantDraft(q, t)'
  BY <1>0, <1>1, LockedStays DEF Draft, TenantDraft, Same
<1>2. ASSUME NEW t \in Tenants, SubOf(t) \in Drafted(q)' PROVE SubDraft(q, t)'
  <2>1. SubDraft(q, t) /\ SubOf(t) \notin Drafted(p)
    BY <1>0, <1>2, LockedStays DEF Draft, Apart
  <2>2. Registered(t) => Registered(t)'
    BY <2>1, TenantFate, CommitDeletes
  <2> QED
    BY <1>0, <2>1, <2>2, LockedStays DEF SubDraft, Same
<1>3. ASSUME NEW k \in Tokens, k \in Drafted(q)' PROVE TokenDraft(q, k)'
  <2>1. k \in Drafted(q) /\ tok'[k] = tok[k] /\ TokenDraft(q, k)
    BY <1>0, <1>3, LockedStays DEF Draft
  <2>2. Releases(q, k) => Releases(q, k)'
    BY <1>0, LockedStays DEF Releases, Live, Bound, Same
  <2>3. ASSUME NEW t \in Tenants, Registered(t), SubOf(t) \in share[q] PROVE Registered(t)'
    <3>1. ~ (Deletes(p) /\ req[p].t = t)
      BY <1>0, <2>3, CommitDeletes DEF Apart
    <3> QED
      BY <2>3, <3>1, TenantFate
  <2>4. req[q].op = "generate_token" => req[q].t \in Tenants
    BY ReqFacts DEF IInv
  <2>5. ASSUME req[q].op = "generate_token", Registered(req[q].t), SubOf(req[q].t) \in share[q]
        PROVE  Registered(req[q].t)'
    BY <1>0, <2>3, <2>4, <2>5 DEF Registered, Same
  <2>6. /\ draft'[q] = draft[q] /\ req'[q] = req[q] /\ share'[q] = share[q]
        /\ (Deletes(q)' <=> Deletes(q))
    BY <1>0, LockedStays DEF Same
  <2> QED
    BY <2>1, <2>2, <2>5, <2>6 DEF TokenDraft
<1>4. ASSUME NEW h \in HW, h \in Drafted(q)' PROVE DeviceDraft(q, h)'
  <2>1. h \in Drafted(q) /\ dev'[h] = dev[h] /\ DeviceDraft(q, h)
    BY <1>0, <1>4, LockedStays DEF Draft
  <2>2. \A k \in Tokens : TakesOne(q, k) => TakesOne(q, k)' /\ tok'[k] = tok[k]
    BY LockedStays DEF TakesOne
  <2>3. /\ draft'[q] = draft[q] /\ req'[q] = req[q] /\ share'[q] = share[q]
        /\ (Deletes(q)' <=> Deletes(q)) /\ (Bound(h)' <=> Bound(h))
    BY <1>0, <2>1, LockedStays DEF Same, Bound
  <2> QED
    BY <2>1, <2>2, <2>3 DEF DeviceDraft
<1>5. Drafted(q)' \subseteq Rows
  BY <1>0, LockedStays DEF Draft
<1> QED
  BY <1>1, <1>2, <1>3, <1>4, <1>5 DEF Draft

\* A delete under way has overlooked nothing: nobody brings a device to its
\* tenant or a token to its subscription, and the devices of its tokens are its.
LEMMA CommitDeleting ==
    ASSUME IInv, NEW p \in Workers, Commit(p), NEW q \in Workers \ {p}
    PROVE  Deleting(q)'
<1> DEFINE t == req[q].t
<1>0. Local(q) /\ Apart(p, q) /\ Apart(q, p) /\ Same(q)
  BY CommitEnds DEF IInv
<1>1. CASE ~ Deletes(q)
  BY <1>1, LockedStays DEF Deleting
<1>2. CASE Deletes(q)
  <2>0. t \in Tenants /\ Deleting(q)
    BY <1>0, <1>2, ReqFacts DEF IInv, Deletes, Local
  <2>1. ASSUME \A h \in HW : dev[h].tenant = t => h \in Drafted(q), t \in Drafted(q),
               NEW h \in HW, dev'[h].tenant = t
        PROVE  h \in Drafted(q)
    <3>1. t \notin share[p]
      BY <1>0, <1>2, <2>1 DEF Apart
    <3>2. dev'[h] # NoDev
      BY <2>0, <2>1, NoneAssumption DEF NoDev
    <3>3. dev[h].tenant = t
      BY <2>1, <3>1, <3>2, DeviceFate
    <3> QED
      BY <2>1, <3>3
  <2>2. ASSUME \A k \in Tokens : tok[k].owner = t => k \in Drafted(q), SubOf(t) \in Drafted(q),
               NEW k \in Tokens, tok'[k].owner = t
        PROVE  k \in Drafted(q)
    <3>1. SubOf(t) \notin share[p]
      BY <1>0, <1>2, <2>2 DEF Apart
    <3>2. tok'[k] # NoTok
      BY <2>0, <2>2, NoneAssumption DEF NoTok
    <3>3. tok[k].owner = t
      BY <2>2, <3>1, <3>2, TokenFate
    <3> QED
      BY <2>2, <3>3
  <2>3. ASSUME \A h \in HW : dev[h].via \in Tokens \cap Drafted(q) => h \in Drafted(q),
               NEW h \in HW, dev'[h].via \in Tokens \cap Drafted(q)
        PROVE  h \in Drafted(q)
    <3>1. dev'[h] # NoDev
      BY <2>3, NoneAssumption DEF NoDev
    <3>2. ~ TakesOne(p, dev'[h].via)
      BY <1>0, <2>3 DEF Apart, TakesOne
    <3>3. dev[h].via = dev'[h].via
      BY <3>1, <3>2, DeviceFate
    <3> QED
      BY <2>3, <3>3
  <2>4. req'[q].t = t /\ pc'[q] = pc[q] /\ Drafted(q)' = Drafted(q)
    BY <1>0, LockedStays DEF Same
  <2> HIDE DEF t
  <2>5. /\ pc[q] \in {"cascade_sub", "cascade_dev", "cascade_tok", "commit"} => t \in Drafted(q)
        /\ pc[q] \in {"cascade_dev", "cascade_tok", "commit"} => SubOf(t) \in Drafted(q)
        /\ pc[q] \in {"cascade_tok", "commit"} =>
              \A h \in HW : dev[h].tenant = t => h \in Drafted(q)
        /\ pc[q] = "commit" =>
              /\ \A k \in Tokens : tok[k].owner = t => k \in Drafted(q)
              /\ \A h \in HW : dev[h].via \in Tokens \cap Drafted(q) => h \in Drafted(q)
    BY <1>2, <2>0 DEF Deleting, t
  <2>6. /\ pc[q] \in {"cascade_tok", "commit"} =>
              \A h \in HW : dev'[h].tenant = t => h \in Drafted(q)
        /\ pc[q] = "commit" =>
              /\ \A k \in Tokens : tok'[k].owner = t => k \in Drafted(q)
              /\ \A h \in HW : dev'[h].via \in Tokens \cap Drafted(q) => h \in Drafted(q)
    BY <2>1, <2>2, <2>3, <2>5
  <2> QED
    BY <2>4, <2>5, <2>6 DEF Deleting
<1> QED
  BY <1>1, <1>2

\* What the others know stays true.
LEMMA CommitLocals ==
    ASSUME IInv, NEW p \in Workers, Commit(p), NEW q \in Workers \ {p}
    PROVE  Local(q)'
<1>0. Local(q) /\ Apart(p, q) /\ Same(q) /\ TxTypeOK
  BY CommitEnds DEF IInv
<1>1. OnPath(q)' /\ (NothingYet(q)' => Drafted(q)' = {})
  BY <1>0, LockedStays DEF Local, OnPath, NothingYet, Same
\* An owner changes only to nobody, or from nobody for the request that inserts
\* the token.
<1>2. ASSUME NEW k \in Tokens, tok'[k].owner # tok[k].owner
      PROVE  \/ tok'[k].owner = None /\ tok[k].owner \in Tenants
             \/ req[p].op = "generate_token" /\ k = req[p].k
  <2>1. Deletes(p) => req[p].t \in Tenants
    BY <1>0, ReqFacts DEF Deletes
  <2> QED
    BY <1>2, <2>1, TokenFate DEF NoTok
<1>3. Booking(q)'
  <2>1. ASSUME Books(q), pc[q] \in {"lookup", "count", "take", "store", "rotate", "touch"}
        PROVE  /\ req[q].t \in Tenants /\ tok'[req[q].k].owner \in {None, req[q].t}
               /\ pc[q] = "store" =>
                    /\ Drafted(q) = {req[q].k} /\ TakesOne(q, req[q].k)
                    /\ tok[req[q].k].owner = req[q].t
    <3>1. req[q].k \in Tokens
      BY <1>0, <2>1, ReqFacts
    <3>2. ~ (req[p].op = "generate_token" /\ req[q].k = req[p].k)
      BY <1>0, <2>1 DEF Apart
    <3> QED
      BY <1>0, <1>2, <2>1, <3>1, <3>2 DEF Local, Booking
  <2>2. \A k \in Tokens : TakesOne(q, k) => TakesOne(q, k)' /\ tok'[k] = tok[k]
    BY LockedStays DEF TakesOne
  <2>3. ASSUME Books(q) PROVE req[q].k \in Tokens
    BY <1>0, <2>3, ReqFacts
  <2>4. PICK r : r = req[q] /\ req'[q] = r /\ pc'[q] = pc[q]
    BY <1>0 DEF Same
  <2>5. ASSUME Books(q), pc[q] = "store"
        PROVE  Drafted(q)' = {r.k} /\ TakesOne(q, r.k)' /\ tok'[r.k].owner = r.t
    BY <2>1, <2>2, <2>3, <2>4, <2>5, LockedStays
  <2>6. TakesOne(q, req[q].k)' <=> TakesOne(q, r.k)'
    BY <2>4
  <2> QED
    BY <2>1, <2>4, <2>5, <2>6, LockedStays DEF Booking
<1>4. Reinstating(q)'
  <2>1. CASE req[q].op = "reinstate" /\ pc[q] \in {"count", "take", "store"}
    <3>1. PICK h \in HW : h = req[q].h /\ h = req'[q].h
      BY <1>0, <2>1, ReqFacts DEF Same
    <3>2. /\ Bound(h) /\ dev[h].revoked /\ draft[q][h] = dev[h] /\ seen[q].dev = dev[h]
          /\ pc[q] \in {"count", "take"} => Drafted(q) = {h}
          /\ pc[q] = "store" => Drafted(q) = {h, dev[h].via} /\ TakesOne(q, dev[h].via)
      BY <1>0, <2>1, <3>1 DEF Local, Reinstating
    <3>3. PICK k \in Tokens : k = dev[h].via
      BY <3>2, BoundFacts
    <3>4. dev'[h] = dev[h]
      BY <2>1, <3>2, LockedStays
    <3>5. TakesOne(q, k) => TakesOne(q, k)'
      BY LockedStays
    <3>6. /\ pc'[q] = pc[q] /\ draft'[q] = draft[q] /\ seen'[q] = seen[q]
          /\ Drafted(q)' = Drafted(q)
      BY <1>0, LockedStays DEF Same
    <3>7. /\ Bound(h)' /\ dev'[h].revoked /\ draft'[q][h] = dev'[h] /\ seen'[q].dev = dev'[h]
          /\ pc'[q] \in {"count", "take"} => Drafted(q)' = {h}
          /\ pc'[q] = "store" => Drafted(q)' = {h, dev'[h].via} /\ TakesOne(q, k)'
      BY <3>2, <3>3, <3>4, <3>5, <3>6 DEF Bound
    <3>8. TakesOne(q, dev[req[q].h].via)' <=> TakesOne(q, k)'
      BY <3>1, <3>3, <3>4
    <3> QED
      BY <3>1, <3>7, <3>8 DEF Reinstating, Bound
  <2>2. CASE ~ (req[q].op = "reinstate" /\ pc[q] \in {"count", "take", "store"})
    BY <1>0, <2>2 DEF Reinstating, Same
  <2> QED
    BY <2>1, <2>2
<1>5. Releasing(q)'
  <2>1. CASE pc[q] = "give"
    <3>1. PICK h \in HW : h = req[q].h /\ h = req'[q].h
      BY <1>0, <2>1, ReqFacts DEF Same, Local, OnPath
    <3>2. Drafted(q) = {h} /\ Live(h) /\ draft[q][h].revoked /\ seen[q].dev = dev[h]
      BY <1>0, <2>1, <3>1 DEF Local, Releasing
    <3>3. dev'[h] = dev[h] /\ Drafted(q)' = {h} /\ draft'[q] = draft[q] /\ seen'[q] = seen[q]
      BY <1>0, <3>2, LockedStays DEF Same
    <3> QED
      BY <3>1, <3>2, <3>3 DEF Releasing, Live, Bound
  <2>2. CASE pc[q] # "give"
    BY <1>0, <2>2 DEF Releasing, Same
  <2> QED
    BY <2>1, <2>2
<1>6. Locking(q)'
  <2>1. CASE pc[q] \in {"substatus", "cascade_sub"}
    <3>1. PICK t \in Tenants : t = req[q].t /\ t = req'[q].t
      BY <1>0, <2>1, ReqFacts DEF Same, Local, OnPath
    <3>2. Drafted(q) = {t} /\ Registered(t)
      BY <1>0, <2>1, <3>1 DEF Local, Locking
    <3>3. tenant'[t] = tenant[t] /\ Drafted(q)' = {t}
      BY <3>2, LockedStays
    <3> QED
      BY <3>1, <3>2, <3>3 DEF Locking, Registered
  <2>2. CASE pc[q] \notin {"substatus", "cascade_sub"}
    BY <1>0, <2>2 DEF Locking, Same
  <2> QED
    BY <2>1, <2>2
<1>7. ASSUME req[q].op = "generate_token" PROVE tok'[req[q].k].owner = None
  <2>1. req[q].k \in Tokens /\ tok[req[q].k].owner = None
    BY <1>0, <1>7, ReqFacts DEF Local
  <2>2. ~ (req[p].op = "generate_token" /\ req[q].k = req[p].k)
    BY <1>0, <1>7 DEF Apart, Local, OnPath, Books
  <2> QED
    BY <1>2, <2>1, <2>2, NoneAssumption
<1> QED
  BY <1>0, <1>1, <1>3, <1>4, <1>5, <1>6, <1>7, CommitDeleting DEF Local, Same

\* A commit ends its request and makes the tables what it had drafted.
LEMMA CommitInv == ASSUME IInv, NEW p \in Workers, Commit(p) PROVE IInv'
<1>0. /\ pc'[p] = "idle" /\ req'[p] = NoReq /\ draft'[p] = Empty /\ share'[p] = {}
      /\ \A q \in Workers \ {p} : Same(q)
  BY CommitEnds
<1>1. Drafted(p)' = {}
  BY <1>0 DEF Drafted, Empty
<1>2. NeverUndercounted' /\ ReferencesIntact' /\ FreeTokens'
  BY CommitCounters, CommitReferences, CommitFreeTokens
<1>3. ASSUME NEW q \in Workers PROVE Draft(q)' /\ Local(q)'
  <2>1. CASE q # p
    BY <2>1, CommitDrafts, CommitLocals
  <2>2. Draft(p)'
    BY <1>1 DEF Draft
  <2>3. Local(p)'
    BY <1>0, <1>1 DEF Local, OnPath, NothingYet, Booking, Reinstating, Releasing, Locking,
       Deleting, Deletes, Books, NoReq
  <2> QED
    BY <2>1, <2>2, <2>3
<1>4. ASSUME NEW q \in Workers, NEW w \in Workers, q # w PROVE Apart(q, w)'
  <2>1. CASE q = p
    BY <1>0, <1>1, <2>1 DEF Apart, Deletes, NoReq
  <2>2. CASE w = p
    <3>1. req[q].op = "generate_token" => req[q].k # None
      BY ReqFacts, NoneAssumption DEF IInv
    <3>2. Same(q) /\ req'[p].k = None
      BY <1>0, <1>4, <2>2 DEF NoReq
    <3>3. req'[q].op = "generate_token" => req'[q].k # req'[p].k
      BY <3>1, <3>2 DEF Same
    <3> QED
      BY <1>0, <1>1, <2>2, <3>3 DEF Apart
  <2>3. CASE q # p /\ w # p
    BY <1>0, <1>4, <2>3 DEF IInv, Same, Apart, Drafted, Deletes
  <2> QED
    BY <2>1, <2>2, <2>3
<1>5. TxTypeOK'
  <2>1. TypeOK' /\ crashed' \subseteq Ops
    BY CommitTypes, CommitRows DEF IInv, TxTypeOK
  <2>2. ledger' \in [Tenants -> Nat]
    <3>1. ledger \in [Tenants -> Nat] /\ pc[p] = "commit"
      BY CommitEnds DEF IInv, TxTypeOK
    <3>2. req[p].op = "payment" => req[p].t \in Tenants
      BY ReqFacts DEF IInv
    <3>3. \/ req[p].op = "payment" /\ ledger' = [ledger EXCEPT ![req[p].t] = @ + 1]
          \/ ledger' = [ledger EXCEPT ![req[p].t] = 0]
          \/ ledger' = ledger
      BY DEF Commit
    <3>4. CASE req[p].op = "payment" /\ ledger' = [ledger EXCEPT ![req[p].t] = @ + 1]
      BY <3>1, <3>2, <3>4
    <3>5. CASE ledger' = [ledger EXCEPT ![req[p].t] = 0]
      BY <3>1, <3>5
    <3> QED
      BY <3>1, <3>3, <3>4, <3>5
  <2>3. ASSUME NEW q \in Workers
        PROVE  pc'[q] = "idle" => draft'[q] = Empty /\ share'[q] = {} /\ req'[q] = NoReq
    <3>1. CASE q = p
      BY <1>0, <3>1
    <3>2. CASE q # p
      BY <1>0, <3>2 DEF Same, IInv, TxTypeOK
    <3> QED
      BY <3>1, <3>2
  <2>4. \A q, w \in Workers : q # w => DOMAIN draft'[q] \cap DOMAIN draft'[w] = {}
    BY <1>4 DEF Apart, Drafted
  <2> QED
    BY <2>1, <2>2, <2>3, <2>4, CommitEnds DEF TxTypeOK, Remembered, Referable
<1> QED
  BY <1>2, <1>3, <1>4, <1>5 DEF IInv

-----------------------------------------------------------------------------
(* The invariant holds from either initial state on.                        *)

\* While no worker serves a request, only the tables matter.
LEMMA IdleInv ==
    ASSUME WorkersIdle, TypeOK, NeverUndercounted, ReferencesIntact, FreeTokens
    PROVE  IInv
<1>1. \A p \in Workers : /\ pc[p] = "idle" /\ req[p] = NoReq /\ seen[p] = NoSeen
                         /\ draft[p] = Empty /\ share[p] = {} /\ Drafted(p) = {}
  BY DEF WorkersIdle, Drafted, Empty
<1>2. NoReq \in Served /\ NoSeen \in Remembered /\ "idle" \in Statements
  BY DEF Served, NoSeen, NoSub, NoDev, SubRow, DevRow, Statements, Remembered
<1>3. TxTypeOK
  <2>1. /\ pc \in [Workers -> Statements] /\ req \in [Workers -> Served]
        /\ seen \in [Workers -> Remembered] /\ DOMAIN draft = Workers
        /\ share \in [Workers -> SUBSET Referable]
        /\ ledger \in [Tenants -> Nat] /\ crashed \subseteq Ops
    BY <1>2 DEF WorkersIdle
  <2>2. \A p, q \in Workers : DOMAIN draft[p] \cap DOMAIN draft[q] = {}
    BY <1>1 DEF Drafted
  <2> QED
    BY <1>1, <2>1, <2>2 DEF TxTypeOK, Remembered, Referable
<1>4. ASSUME NEW p \in Workers PROVE Draft(p) /\ Local(p)
  <2>1. Draft(p)
    BY <1>1 DEF Draft
  <2>2. Local(p)
    BY <1>1 DEF Local, OnPath, NothingYet, Booking, Reinstating, Releasing, Locking,
       Deleting, Deletes, Books, NoReq
  <2> QED
    BY <2>1, <2>2
<1>5. \A p, q \in Workers : Apart(p, q)
  BY <1>1 DEF Apart, Deletes, NoReq
<1> QED
  BY <1>3, <1>4, <1>5 DEF IInv

\* Without devices no seat is taken.
LEMMA NoSeats ==
    ASSUME dev = [h \in HW |-> NoDev], \A k \in Tokens : tok[k].consumed = 0 /\ tok[k].quota \in Nat
    PROVE  NeverUndercounted /\ \A h \in HW : ~ Bound(h)
<1>1. \A h \in HW : ~ Bound(h)
  BY DEF Bound, NoDev
<1>2. \A k \in Tokens : LiveVia(k) = {}
  BY <1>1 DEF LiveVia, Live
<1>3. Cardinality({}) = 0
  BY FS_EmptySet
<1>4. \A k \in Tokens : Cardinality(LiveVia(k)) = 0 /\ 0 =< tok[k].quota
  BY <1>2, <1>3
<1> QED
  BY <1>1, <1>4 DEF NeverUndercounted

\* The invariant holds of empty tables.
LEMMA EmptyTables == TxInit => IInv
<1> SUFFICES ASSUME Init, WorkersIdle PROVE IInv
  BY DEF TxInit
<1>1. NoSub \in SubRow /\ NoTok \in TokRow /\ NoDev \in DevRow
  BY DEF NoSub, NoTok, NoDev, SubRow, TokRow, DevRow
<1>2. TypeOK
  BY <1>1 DEF Init, TypeOK, TenantStatus
<1>3. NeverUndercounted /\ \A h \in HW : ~ Bound(h)
  BY NoSeats DEF Init, NoTok
<1>4. FreeTokens /\ ReferencesIntact
  BY <1>3 DEF Init, NoTok, FreeTokens, ReferencesIntact
<1> QED
  BY <1>2, <1>3, <1>4, IdleInv

\* The invariant holds of a service in operation.
LEMMA StockedTables == Stocked => IInv
<1> SUFFICES ASSUME Stocked PROVE IInv
  OBVIOUS
<1>0. sub \in [Tenants -> Created] /\ tok \in [Tokens -> Issued]
  BY DEF Stocked
<1>2. ASSUME NEW row \in Issued
      PROVE  row \in TokRow /\ row.owner \in Tenants /\ row.consumed = 0 /\ row.quota \in Nat
  <2>1. PICK t \in Tenants, q \in Quotas \ {0}, e \in Expiries :
          row = [owner |-> t, quota |-> q, consumed |-> 0, expires |-> e, revoked |-> FALSE]
    BY DEF Issued
  <2> QED
    BY <2>1, InputAssumption DEF TokRow
<1>1. TypeOK
  <2>1. \A t \in Tenants : sub[t] \in SubRow
    <3>1. \A row \in Created : row \in SubRow
      BY NewSubType DEF Created, Stocked
    <3> QED
      BY <1>0, <3>1
  <2>2. \A k \in Tokens : tok[k] \in TokRow
    BY <1>0, <1>2
  <2>3. NoDev \in DevRow
    BY DEF NoDev, DevRow
  <2> QED
    BY <2>1, <2>2, <2>3 DEF Stocked, TypeOK, TenantStatus
<1>3. \A k \in Tokens : tok[k].owner \in Tenants /\ tok[k].consumed = 0 /\ tok[k].quota \in Nat
  BY <1>0, <1>2
<1>4. NeverUndercounted /\ \A h \in HW : ~ Bound(h)
  BY <1>3, NoSeats DEF Stocked
<1>5. FreeTokens /\ ReferencesIntact
  BY <1>3, <1>4, NoneAssumption DEF Stocked, FreeTokens, ReferencesIntact, Registered
<1> QED
  BY <1>1, <1>4, <1>5, IdleInv DEF Stocked

\* A step that changes nothing.
LEMMA StutterInv == ASSUME IInv, UNCHANGED txVars PROVE IInv'
<1>1. UNCHANGED vars /\ \A q \in Workers : Same(q)
  BY DEF txVars, Same
<1>2. \A q \in Workers : Draft(q)' /\ Local(q)'
  BY <1>1, Elsewhere DEF IInv
<1>3. \A q, w \in Workers : q # w => Apart(q, w)'
  BY <1>1 DEF IInv, Same, Apart, Drafted, Deletes
<1>4. TxTypeOK' /\ FreeTokens'
  BY DEF IInv, TxTypeOK, TypeOK, FreeTokens, txVars, vars
<1>5. NeverUndercounted' /\ ReferencesIntact'
  <2>1. \A h : (Bound(h)' <=> Bound(h)) /\ (Live(h)' <=> Live(h))
    BY <1>1 DEF Bound, Live, vars
  <2>2. \A k : LiveVia(k)' = LiveVia(k)
    BY <1>1, <2>1 DEF LiveVia, vars
  <2> QED
    BY <1>1, <2>1, <2>2 DEF IInv, NeverUndercounted, ReferencesIntact, Registered, vars
<1> QED
  BY <1>2, <1>3, <1>4, <1>5 DEF IInv

\* Every statement of every operation, a commit and an abort keep the invariant.
LEMMA NextInv == IInv /\ [TxNext]_txVars => IInv'
<1> SUFFICES ASSUME IInv, [TxNext]_txVars PROVE IInv'
  OBVIOUS
<1>1. CASE UNCHANGED txVars
  BY <1>1, StutterInv
<1>2. ASSUME NEW p \in Workers, Begin(p) PROVE IInv'
  BY <1>2, BeginInv
<1>3. ASSUME NEW p \in Workers, BookingStep(p) PROVE IInv'
  BY <1>3, CheckInv, LookupInv, CountInv, TakeInv, StoreInv, RotateKeyInv, TouchInv
     DEF BookingStep
<1>4. ASSUME NEW p \in Workers, DeviceStep(p) PROVE IInv'
  BY <1>4, RevokeInv, GiveInv, LockDeviceInv, StoreReinstatedInv, ListenInv, BeatInv
     DEF DeviceStep
<1>5. ASSUME NEW p \in Workers, OperatorStep(p) PROVE IInv'
  BY <1>5, CreateInv, InsertTenantInv, GenerateTokenInv, InsertTokenInv, RevokeTokenInv,
     ReadPaidInv, InsertPaymentInv, PayInv, SetStatusInv, SetSubStatusInv, PatchInv,
     AuditPatchInv, DeleteInv, CascadeSubInv, CascadeDevInv, CascadeTokInv DEF OperatorStep
<1>6. ASSUME NEW p \in Workers, Commit(p) \/ AbortDeadlock(p) PROVE IInv'
  BY <1>6, CommitInv, AbortInv
<1> QED
  BY <1>1, <1>2, <1>3, <1>4, <1>5, <1>6 DEF TxNext, Serve

-----------------------------------------------------------------------------
(* The theorems, from empty tables and from a service in operation.         *)

\* Whatever requests the workers serve, and however their statements interleave
\* under the row locks, the invariant holds.
THEOREM Inductive == (TxSpec => []IInv) /\ (StockedSpec => []IInv)
<1>1. TxSpec => []IInv
  BY EmptyTables, NextInv, PTL DEF TxSpec
<1>2. StockedSpec => []IInv
  BY StockedTables, NextInv, PTL DEF StockedSpec
<1> QED
  BY <1>1, <1>2

\* Every worker is at a statement of its request, holds locks only inside one,
\* and no row ever has two holders.
THEOREM TxTypeCorrect == (TxSpec => []TxTypeOK) /\ (StockedSpec => []TxTypeOK)
<1>1. IInv => TxTypeOK
  BY DEF IInv
<1> QED
  BY <1>1, Inductive, PTL

\* No race between booking, releasing, reinstating and deleting gives a seat
\* twice: the counter that guards the quota never falls below the live devices
\* booked on the token.
THEOREM SeatsNeverOversold ==
    (TxSpec => []NeverUndercounted) /\ (StockedSpec => []NeverUndercounted)
<1>1. IInv => NeverUndercounted
  BY DEF IInv
<1> QED
  BY <1>1, Inductive, PTL

\* No race leaves a token without its tenant, or a device without its token or
\* on the token of another tenant than its own: what the foreign keys do not
\* say, the order of the statements and their locks do.
THEOREM ReferencesSurviveRaces ==
    (TxSpec => []ReferencesIntact) /\ (StockedSpec => []ReferencesIntact)
<1>1. IInv => ReferencesIntact
  BY DEF IInv
<1> QED
  BY <1>1, Inductive, PTL
=============================================================================
