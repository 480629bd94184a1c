--------------------------- MODULE RequestsProofs ---------------------------
(***************************************************************************)
(* Machine-checked proofs about Requests, for any number of callers,        *)
(* threads and connections.  The inductive invariant ties the steps a       *)
(* request has ahead of it to the connections it holds: whoever waits for a *)
(* connection holds at most one, and nobody has done everything without     *)
(* having held one.                                                         *)
(***************************************************************************)
EXTENDS Requests, FiniteSetTheorems, TLAPS

\* The connections a request holds when its handler runs.
Needs(kind) == IF kind = "write" THEN 2 ELSE 1

\* A request of this kind with these steps ahead has taken n connections.
Stage(kind, todo, n) ==
    \/ todo = <<"handle">> /\ n = Needs(kind)
    \/ kind # "open" /\ todo = <<"identify", "handle">> /\ n = Needs(kind)
    \/ kind = "open" /\ todo = <<"connect", "handle">> /\ n = 0
    \/ kind # "open" /\ todo = <<"connect", "identify", "handle">> /\ n = Needs(kind) - 1
    \/ kind = "write" /\ todo = <<"connect", "connect", "identify", "handle">> /\ n = 0

\* No request, one on its way in, or one that has succeeded and tears down.
Absent(r) == r.kind = "none" /\ r.todo = <<>> /\ ~r.busy /\ r.conns = 0 /\ ~r.told
Entering(r) == r.kind \in Kinds /\ Stage(r.kind, r.todo, r.conns) /\ ~r.told
Ending(r) ==
    /\ r.kind \in Kinds /\ r.todo = <<>> /\ ~r.busy
    /\ r.conns \in 0 .. 2
    /\ r.conns = 0 /\ r.kind # "read" => r.saved
    /\ r.told /\ ~early => r.conns = 0

Staged == \A c \in Clients : Absent(req[c]) \/ Entering(req[c]) \/ Ending(req[c])

IInv == RequestsTypeOK /\ Staged

\* A request with steps ahead has them in order: each connection is taken before
\* the identity is looked at, and that before the handler runs.
LEMMA StageStep ==
    ASSUME NEW kind \in Kinds, NEW todo, NEW n, Stage(kind, todo, n)
    PROVE  /\ todo # <<>> /\ todo \in Seq({"connect", "identify", "handle"}) /\ n \in 0 .. 2
           /\ Tail(todo) \in Seq({"connect", "identify", "handle"})
           /\ Head(todo) = "connect" => n =< 1 /\ Stage(kind, Tail(todo), n + 1)
           /\ Head(todo) = "identify" => Stage(kind, Tail(todo), n)
           /\ Head(todo) = "handle" => Tail(todo) = <<>> /\ n \in 1 .. 2
<1> USE DEF Kinds, Needs
<1>1. CASE todo = <<"handle">>
  BY <1>1 DEF Stage
<1>2. CASE todo = <<"identify", "handle">>
  BY <1>2 DEF Stage
<1>3. CASE todo = <<"connect", "handle">>
  BY <1>3 DEF Stage
<1>4. CASE todo = <<"connect", "identify", "handle">>
  BY <1>4 DEF Stage
<1>5. CASE todo = <<"connect", "connect", "identify", "handle">>
  BY <1>5 DEF Stage
<1> QED
  BY <1>1, <1>2, <1>3, <1>4, <1>5 DEF Stage

\* A request starts with no connection and everything ahead.
LEMMA StageStart == \A kind \in Kinds : Stage(kind, Steps(kind), 0)
BY DEF Stage, Steps, Needs, Kinds

-----------------------------------------------------------------------------
(* Counting connections and threads.                                        *)

\* What the invariant says of one request.
LEMMA RowFacts ==
    ASSUME IInv, NEW c \in Clients
    PROVE  /\ req[c] \in Request /\ req[c].conns \in Nat /\ req[c].conns =< 2
           /\ req[c].busy \in BOOLEAN /\ req[c].told \in BOOLEAN
           /\ req[c].todo # <<>> => Entering(req[c])
           /\ req[c].kind = "none" => Absent(req[c])
           /\ req[c].kind # "none" /\ req[c].todo = <<>> => Ending(req[c])
           /\ req[c].busy => req[c].todo # <<>>
<1>1. req[c] \in Request /\ (Absent(req[c]) \/ Entering(req[c]) \/ Ending(req[c]))
  BY DEF IInv, RequestsTypeOK, Staged
<1>2. CASE Absent(req[c])
  BY <1>1, <1>2 DEF Absent, Request
<1>3. CASE Entering(req[c])
  <2>1. req[c].kind \in Kinds /\ Stage(req[c].kind, req[c].todo, req[c].conns)
    BY <1>3 DEF Entering
  <2>2. req[c].todo # <<>> /\ req[c].conns \in 0 .. 2
    BY <2>1, StageStep
  <2> QED
    BY <1>1, <1>3, <2>1, <2>2 DEF Kinds, Request
<1>4. CASE Ending(req[c])
  BY <1>1, <1>4 DEF Ending, Request, Kinds
<1> QED
  BY <1>1, <1>2, <1>3, <1>4

\* The connections held, one by one.
LEMMA HeldElements ==
    /\ \A c \in Clients : \A i : <<c, i>> \in Held <=> i \in 1 .. req[c].conns
    /\ \A x \in Held : \E c \in Clients : \E i \in 1 .. req[c].conns : x = <<c, i>>
BY DEF Held

\* Nobody holds more than two connections, so the sets counted are finite.
LEMMA PoolsFinite ==
    ASSUME IInv
    PROVE  /\ IsFiniteSet(Held) /\ InUse \in Nat
           /\ IsFiniteSet(OnThread) /\ Cardinality(OnThread) \in Nat
           /\ IsFiniteSet(InFlight) /\ Cardinality(InFlight) \in Nat
<1>2. Held \subseteq Clients \X (1 .. 2)
  <2> SUFFICES ASSUME NEW x \in Held PROVE x \in Clients \X (1 .. 2)
    OBVIOUS
  <2>1. PICK c \in Clients : \E i \in 1 .. req[c].conns : x = <<c, i>>
    BY HeldElements
  <2>2. req[c].conns \in Nat /\ req[c].conns =< 2
    BY RowFacts
  <2>3. \A i \in 1 .. req[c].conns : i \in 1 .. 2
    BY <2>2
  <2> QED
    BY <2>1, <2>3
<1>3. IsFiniteSet(Clients \X (1 .. 2))
  <2>1. 1 .. 2 = {1} \cup {2}
    OBVIOUS
  <2>2. IsFiniteSet({1})
    BY FS_Singleton
  <2>3. IsFiniteSet({1} \cup {2})
    BY <2>2, FS_AddElement
  <2>4. IsFiniteSet(1 .. 2)
    BY <2>1, <2>3
  <2> QED
    BY <2>4, FS_Product, RequestsAssumption
<1>4. OnThread \subseteq Clients /\ InFlight \subseteq Clients
  BY DEF OnThread, InFlight
<1>5. IsFiniteSet(OnThread) /\ IsFiniteSet(InFlight)
  BY <1>4, FS_Subset, RequestsAssumption
<1>6. IsFiniteSet(Held)
  <2> DEFINE all == Clients \X (1 .. 2)
  <2>1. IsFiniteSet(all) /\ Held \subseteq all
    BY <1>2, <1>3
  <2> HIDE DEF all
  <2> QED
    BY <2>1, FS_Subset
<1> QED
  BY <1>5, <1>6, FS_CardinalityType DEF InUse

\* A set that gains at most one element gains at most one in size.
LEMMA OneMore ==
    ASSUME NEW S, IsFiniteSet(S), NEW x, NEW T, T \subseteq S \cup {x}
    PROVE  /\ IsFiniteSet(T) /\ Cardinality(T) \in Nat /\ Cardinality(S) \in Nat
           /\ Cardinality(T) =< Cardinality(S) + 1
<1>1. Cardinality(S) \in Nat
  BY FS_CardinalityType
<1>2. /\ IsFiniteSet(S \cup {x})
      /\ Cardinality(S \cup {x}) = IF x \in S THEN Cardinality(S) ELSE Cardinality(S) + 1
  BY FS_AddElement
<1>3. IsFiniteSet(T) /\ Cardinality(T) =< Cardinality(S \cup {x})
  BY <1>2, FS_Subset
<1>4. Cardinality(T) \in Nat
  BY <1>3, FS_CardinalityType
<1> QED
  BY <1>1, <1>2, <1>3, <1>4

\* One request moves on to row r: it takes a connection only while one is free,
\* a thread only while one is free, and gives back the rest in any order.
Moves(c, r) ==
    /\ r \in Request /\ (Absent(r) \/ Entering(r) \/ Ending(r))
    /\ r.conns =< req[c].conns \/ (ConnectionFree /\ r.conns = req[c].conns + 1)
    /\ r.busy => req[c].busy \/ ThreadFree
    /\ req' = [req EXCEPT ![c] = r]
    /\ UNCHANGED <<early, cred>>

\* Such a move keeps the invariant.
LEMMA RowInv ==
    ASSUME IInv, NEW c \in Clients, NEW r, Moves(c, r)
    PROVE  IInv'
<1> USE DEF IInv
<1>1. /\ req'[c] = r /\ \A d \in Clients \ {c} : req'[d] = req[d]
      /\ req' \in [Clients -> Request]
      /\ req[c].conns \in Nat /\ r.conns \in Nat
      /\ UNCHANGED <<early, cred>>
  BY DEF RequestsTypeOK, Request, Moves
<1>2. Staged'
  BY <1>1 DEF Staged, Absent, Entering, Ending, Moves
<1>3. InUse' =< Connections
  <2>1. CASE r.conns =< req[c].conns
    <3>1. Held' \subseteq Held
      <4> SUFFICES ASSUME NEW d \in Clients, NEW i \in 1 .. req'[d].conns
                   PROVE  <<d, i>> \in Held
        BY DEF Held
      <4>1. i \in 1 .. req[d].conns
        BY <1>1, <2>1
      <4> QED
        BY <4>1, HeldElements
    <3> QED
      BY <3>1, PoolsFinite, FS_Subset, FS_CardinalityType, RequestsAssumption
      DEF InUse, RequestsTypeOK
  <2>2. CASE ConnectionFree /\ r.conns = req[c].conns + 1
    <3> DEFINE x == <<c, r.conns>>
    <3>1. Held' \subseteq Held \cup {x}
      <4> SUFFICES ASSUME NEW d \in Clients, NEW i \in 1 .. req'[d].conns
                   PROVE  <<d, i>> \in Held \cup {x}
        BY DEF Held
      <4>1. <<d, i>> = <<c, r.conns>> \/ i \in 1 .. req[d].conns
        BY <1>1, <2>2
      <4> QED
        BY <4>1, HeldElements
    <3>2. IsFiniteSet(Held) /\ Connections \in Nat /\ Cardinality(Held) < Connections
      BY <2>2, PoolsFinite, RequestsAssumption DEF ConnectionFree, InUse
    <3> HIDE DEF x
    <3>3. /\ Cardinality(Held') =< Cardinality(Held) + 1
          /\ Cardinality(Held') \in Nat /\ Cardinality(Held) \in Nat
      BY <3>1, <3>2, OneMore
    <3> QED
      BY <3>2, <3>3 DEF InUse
  <2> QED
    BY <2>1, <2>2 DEF Moves
<1>4. Cardinality(OnThread') =< Threads
  <2>1. CASE r.busy => req[c].busy
    <3>1. OnThread' \subseteq OnThread
      BY <1>1, <2>1 DEF OnThread
    <3> QED
      BY <3>1, PoolsFinite, FS_Subset, FS_CardinalityType, RequestsAssumption DEF RequestsTypeOK
  <2>2. CASE r.busy /\ ThreadFree
    <3>1. OnThread' = OnThread \cup {c}
      BY <1>1, <2>2 DEF OnThread
    <3> QED
      <4>1. IsFiniteSet(OnThread) /\ Cardinality(OnThread) \in Nat /\ Threads \in Nat
            /\ Cardinality(OnThread) < Threads
        BY <2>2, PoolsFinite, RequestsAssumption DEF ThreadFree
      <4> QED
        BY <3>1, <4>1, FS_AddElement
  <2> QED
    BY <2>1, <2>2 DEF Moves
<1> QED
  BY <1>1, <1>2, <1>3, <1>4 DEF RequestsTypeOK

-----------------------------------------------------------------------------
(* The steps of a request.                                                  *)

\* A request that fails or leaves gives everything back.
LEMMA GoneInv ==
    ASSUME IInv, NEW c \in Clients, Fail(c), UNCHANGED <<early, cred>>
    PROVE  IInv'
<1>1. NoReq \in Request /\ Absent(NoReq) /\ NoReq.conns = 0 /\ ~NoReq.busy
  BY DEF NoReq, Request, Absent
<1>2. req[c].conns \in Nat
  BY RowFacts
<1>3. Moves(c, NoReq)
  BY <1>1, <1>2 DEF Moves, Fail
<1> QED
  BY <1>3, RowInv

\* What a request waiting for its next step looks like, and what it is after it.
LEMMA StepDone ==
    ASSUME IInv, NEW c \in Clients, req[c].todo # <<>>
    PROVE  /\ req[c].kind \in Kinds /\ Stage(req[c].kind, req[c].todo, req[c].conns) /\ ~req[c].told
           /\ Done(req[c]) \in Request
           /\ Done(req[c]).kind = req[c].kind /\ Done(req[c]).todo = Tail(req[c].todo)
           /\ Done(req[c]).conns = req[c].conns /\ ~Done(req[c]).busy /\ ~Done(req[c]).told
<1>1. Entering(req[c]) /\ req[c] \in Request
  BY RowFacts
<1>2. Tail(req[c].todo) \in Seq({"connect", "identify", "handle"})
  BY <1>1, StageStep DEF Entering
<1> DEFINE tailed == [req[c] EXCEPT !.todo = Tail(@)]
<1>3. /\ tailed \in Request /\ tailed.kind = req[c].kind /\ tailed.todo = Tail(req[c].todo)
      /\ tailed.conns = req[c].conns /\ tailed.told = req[c].told
  BY <1>1, <1>2 DEF Request
<1>4. Done(req[c]) = [tailed EXCEPT !.busy = FALSE]
  BY DEF Done
<1> HIDE DEF tailed
<1> QED
  BY <1>1, <1>3, <1>4 DEF Entering, Request

\* A new request has everything ahead of it.
LEMMA ArriveInv ==
    ASSUME IInv, NEW c \in Clients, NEW kind \in Kinds, NEW s \in Credentials \cup {None},
           Arrive(c, kind, s)
    PROVE  IInv'
<1> DEFINE named == [NoReq EXCEPT !.kind = kind]
           issued == [named EXCEPT !.cred = s]
           r == [issued EXCEPT !.todo = Steps(kind)]
<1>1. req' = [req EXCEPT ![c] = r] /\ UNCHANGED <<early, cred>>
  BY DEF Arrive
<1>2. Stage(kind, Steps(kind), 0)
  BY StageStart
<1>3. Steps(kind) \in Seq({"connect", "identify", "handle"})
  BY <1>2, StageStep
<1>4. named \in Request /\ named.kind = kind /\ named.conns = 0 /\ ~named.busy /\ ~named.told
  <2>1. /\ NoReq \in Request /\ NoReq.conns = 0 /\ ~NoReq.busy /\ ~NoReq.told
    BY DEF NoReq, Request
  <2> QED
    BY <2>1 DEF Request
<1> HIDE DEF named
<1>5. /\ issued \in Request /\ issued.kind = kind /\ issued.conns = 0
      /\ ~issued.busy /\ ~issued.told
  BY <1>4 DEF Request
<1> HIDE DEF issued
<1>6. /\ r \in Request /\ r.kind = kind /\ r.todo = Steps(kind) /\ r.conns = 0
      /\ ~r.busy /\ ~r.told
  BY <1>3, <1>5 DEF Request
<1> HIDE DEF r
<1>7. req[c].conns \in Nat
  BY RowFacts
<1>8. Moves(c, r)
  BY <1>1, <1>2, <1>6, <1>7 DEF Moves, Entering
<1> QED
  BY <1>8, RowInv

\* A thread is given to a request only while one is free.
LEMMA StartInv == ASSUME IInv, NEW c \in Clients, StartStep(c) PROVE IInv'
<1> DEFINE r == [req[c] EXCEPT !.busy = TRUE]
<1>1. req[c] \in Request /\ Entering(req[c]) /\ req[c].conns \in Nat
  BY RowFacts DEF StartStep, WaitsForThread
<1>2. req' = [req EXCEPT ![c] = r] /\ UNCHANGED <<early, cred>> /\ ThreadFree
  BY DEF IInv, RequestsTypeOK, StartStep
<1>3. r \in Request /\ r.conns = req[c].conns /\ r.kind = req[c].kind /\ r.todo = req[c].todo
      /\ r.told = req[c].told
  BY <1>1 DEF Request
<1> HIDE DEF r
<1>4. Moves(c, r)
  BY <1>1, <1>2, <1>3 DEF Moves, Entering
<1> QED
  BY <1>4, RowInv

\* A connection is given to a request only while one is free.
LEMMA ConnectInv == ASSUME IInv, NEW c \in Clients, Connect(c) PROVE IInv'
<1> DEFINE d == Done(req[c])
           r == [d EXCEPT !.conns = req[c].conns + 1]
<1>1. req' = [req EXCEPT ![c] = r] /\ UNCHANGED <<early, cred>> /\ ConnectionFree
  BY DEF Connect
<1>2. req[c].todo # <<>> /\ Head(req[c].todo) = "connect"
  BY RowFacts DEF Connect, WaitsForConnection, At
<1>3. /\ d \in Request /\ d.kind = req[c].kind /\ d.todo = Tail(req[c].todo)
      /\ d.conns = req[c].conns /\ ~d.busy /\ ~d.told
      /\ req[c].kind \in Kinds /\ Stage(req[c].kind, req[c].todo, req[c].conns)
  BY <1>2, StepDone
<1> HIDE DEF d
<1>4. /\ r \in Request /\ r.conns = req[c].conns + 1 /\ ~r.busy /\ ~r.told
      /\ r.kind = req[c].kind /\ r.todo = Tail(req[c].todo)
  BY <1>3 DEF Request
<1> HIDE DEF r
<1>5. Entering(r)
  BY <1>2, <1>3, <1>4, StageStep DEF Entering
<1>6. Moves(c, r)
  BY <1>1, <1>4, <1>5 DEF Moves
<1> QED
  BY <1>6, RowInv

\* The identity is let in, or the handler has run.
LEMMA PassInv ==
    ASSUME IInv, NEW c \in Clients, At(c, "identify") \/ At(c, "handle"),
           req' = [req EXCEPT ![c] = Done(req[c])], UNCHANGED <<early, cred>>
    PROVE  IInv'
<1> DEFINE d == Done(req[c])
<1>1. req[c].todo # <<>> /\ req[c].conns \in Nat
  BY RowFacts DEF At
<1>2. /\ d \in Request /\ d.kind = req[c].kind /\ d.todo = Tail(req[c].todo)
      /\ d.conns = req[c].conns /\ ~d.busy /\ ~d.told
      /\ req[c].kind \in Kinds /\ Stage(req[c].kind, req[c].todo, req[c].conns)
  BY <1>1, StepDone
<1> HIDE DEF d
<1>3. CASE At(c, "identify")
  <2>1. Entering(d)
    BY <1>2, <1>3, StageStep DEF At, Entering
  <2>2. Moves(c, d)
    BY <1>1, <1>2, <2>1 DEF Moves, d
  <2> QED
    BY <2>2, RowInv
<1>4. CASE At(c, "handle")
  <2>1. d.todo = <<>> /\ d.conns \in 1 .. 2
    BY <1>2, <1>4, StageStep DEF At
  <2>2. d.conns \in 0 .. 2 /\ d.conns # 0
    BY <2>1
  <2>3. Ending(d)
    BY <1>2, <2>1, <2>2, Zenon DEF Ending
  <2>4. Moves(c, d)
    BY <1>1, <1>2, <2>3 DEF Moves, d
  <2> QED
    BY <2>4, RowInv
<1> QED
  BY <1>3, <1>4

\* A success is committed and its connections closed, and it is answered.
LEMMA EndInv ==
    ASSUME IInv, NEW c \in Clients, Close(c) \/ Answer(c)
    PROVE  IInv'
<1>1. req[c] \in Request /\ Ending(req[c]) /\ req[c].conns \in Nat
  BY RowFacts DEF Close, Answer, Succeeded, InFlight
<1>2. CASE Close(c)
  <2> DEFINE kept == [req[c] EXCEPT !.conns = 0]
             r == [kept EXCEPT !.saved = Writes(c)]
  <2>1. /\ kept \in Request /\ kept.conns = 0 /\ kept.kind = req[c].kind /\ kept.todo = req[c].todo
        /\ kept.busy = req[c].busy /\ kept.told = req[c].told
    BY <1>1 DEF Request
  <2>2. req' = [req EXCEPT ![c] = r] /\ UNCHANGED <<early, cred>>
    BY <1>2 DEF Close, IInv, RequestsTypeOK
  <2>3. Writes(c) \in BOOLEAN
    BY DEF Writes
  <2> HIDE DEF kept
  <2>4. /\ r \in Request /\ r.conns = 0 /\ r.kind = req[c].kind /\ r.todo = req[c].todo
        /\ r.busy = req[c].busy /\ r.told = req[c].told /\ r.saved = Writes(c)
    BY <2>1, <2>3 DEF Request
  <2> HIDE DEF r
  <2>5. Ending(r)
    <3>1. r.kind \in Kinds /\ r.todo = <<>> /\ ~r.busy
      BY <1>1, <2>4 DEF Ending
    <3>2. r.kind # "read" => r.saved
      BY <2>4, <3>1 DEF Writes, Kinds
    <3>3. r.conns \in 0 .. 2
      BY <2>4
    <3> QED
      BY <2>4, <3>1, <3>2, <3>3, Zenon DEF Ending
  <2>6. Moves(c, r)
    BY <1>1, <2>2, <2>4, <2>5 DEF Moves, Ending
  <2> QED
    BY <2>6, RowInv
<1>3. CASE Answer(c)
  <2> DEFINE r == [req[c] EXCEPT !.told = TRUE]
  <2>1. req' = [req EXCEPT ![c] = r] /\ UNCHANGED <<early, cred>>
    BY <1>3 DEF Answer
  <2>2. /\ r \in Request /\ r.conns = req[c].conns /\ r.kind = req[c].kind
        /\ r.todo = req[c].todo /\ r.busy = req[c].busy /\ r.saved = req[c].saved
    BY <1>1 DEF Request
  <2> HIDE DEF r
  <2>3. Ending(r)
    BY <1>1, <1>3, <2>2 DEF Ending, Answer
  <2>4. Moves(c, r)
    BY <1>1, <2>1, <2>2, <2>3 DEF Moves, Ending
  <2> QED
    BY <2>4, RowInv
<1> QED
  BY <1>2, <1>3

\* The invariant is inductive.
LEMMA NextInv == IInv /\ [Next]_vars => IInv'
<1> SUFFICES ASSUME IInv, [Next]_vars PROVE IInv'
  OBVIOUS
<1>1. CASE UNCHANGED <<early, req>> /\ cred' \in [Credentials -> {"unissued", "live", "revoked"}]
  BY <1>1 DEF IInv, RequestsTypeOK, Staged, Absent, Entering, Ending, InUse, Held, OnThread
<1>2. CASE UNCHANGED vars
  BY <1>1, <1>2 DEF vars, IInv, RequestsTypeOK
<1>3. ASSUME NEW s \in Credentials, Issue(s) \/ Revoke(s) PROVE IInv'
  BY <1>1, <1>3 DEF Issue, Revoke, IInv, RequestsTypeOK
<1>4. ASSUME NEW c \in Clients, Proceed(c) PROVE IInv'
  <2>1. CASE Identify(c) \/ Handle(c)
    BY <2>1, PassInv, GoneInv DEF Identify, Handle
  <2>2. CASE PoolTimeout(c) \/ CommitFails(c) \/ Leave(c)
    BY <2>2, GoneInv DEF PoolTimeout, CommitFails, Leave, Fail
  <2> QED
    BY <1>4, <2>1, <2>2, ConnectInv, EndInv DEF Proceed
<1> QED
  BY <1>2, <1>3, <1>4, ArriveInv, StartInv DEF Next

\* The invariant holds of every reachable state.
THEOREM Inductive == Spec => []IInv
<1>1. Init => IInv
  <2> SUFFICES ASSUME Init PROVE IInv
    OBVIOUS
  <2>1. req \in [Clients -> Request] /\ \A c \in Clients : Absent(req[c])
    BY DEF Init, NoReq, Request, Absent
  <2>2. Held = {} /\ OnThread = {}
    BY <2>1 DEF Held, OnThread, Absent
  <2> QED
    BY <2>1, <2>2, FS_EmptySet, RequestsAssumption
    DEF Init, IInv, RequestsTypeOK, Staged, InUse
<1> QED
  BY <1>1, NextInv, PTL DEF Spec

\* Neither the threads nor the connections are ever given out twice.
THEOREM TypeCorrect == Spec => []RequestsTypeOK
BY Inductive, PTL DEF IInv

\* Where the teardown comes before the answer, nobody is told of a success that
\* is not committed.
THEOREM ToldAfterCommit == Spec => []ToldIsCommitted
<1>1. IInv => ToldIsCommitted
  BY DEF IInv, Staged, Absent, Entering, Ending, ToldIsCommitted, Writes
<1> QED
  BY <1>1, Inductive, PTL

\* A jam takes as many requests as there are connections, or one more than
\* there are threads: a holder that waits for a thread finds each thread taken
\* by another request, and holders that all wait for a connection hold one each.
LEMMA JamCounted == IInv => JamNeedsCrowd
<1> SUFFICES ASSUME IInv, Jam
             PROVE  Cardinality(InFlight) >= IF Threads < Connections THEN Threads + 1 ELSE Connections
  BY DEF JamNeedsCrowd
<1>1. \A c \in Clients : req[c].todo # <<>> \/ req[c].conns > 0 \/ req[c].busy => c \in InFlight
  BY DEF IInv, Staged, Absent, Entering, Ending, InFlight, Kinds
<1>2. CASE \E c \in Holders : WaitsForThread(c)
  <2>1. PICK c \in Holders : WaitsForThread(c)
    BY <1>2
  <2>2. Cardinality(OnThread) >= Threads
    <3>1. ~WaitsForConnection(c)
      BY <2>1 DEF WaitsForThread, WaitsForConnection, At
    <3> QED
      BY <2>1, <3>1, PoolsFinite, RequestsAssumption DEF Jam, ThreadFree
  <2>3. c \notin OnThread /\ OnThread \cup {c} \subseteq InFlight
    BY <1>1, <2>1 DEF OnThread, Holders, WaitsForThread
  <2>4. /\ IsFiniteSet(OnThread) /\ Cardinality(OnThread) \in Nat /\ IsFiniteSet(InFlight)
        /\ Cardinality(InFlight) \in Nat /\ Threads \in Nat /\ Connections \in Nat
    BY PoolsFinite, RequestsAssumption
  <2>5. Cardinality(OnThread \cup {c}) = Cardinality(OnThread) + 1
    BY <2>3, <2>4, FS_AddElement
  <2>6. Cardinality(OnThread \cup {c}) =< Cardinality(InFlight)
    BY <2>3, <2>4, FS_Subset
  <2> QED
    BY <2>2, <2>4, <2>5, <2>6
<1>3. CASE \A c \in Holders : WaitsForConnection(c)
  <2>1. \A c \in Holders : req[c].conns = 1
    <3> SUFFICES ASSUME NEW c \in Clients, req[c].conns > 0, WaitsForConnection(c)
                 PROVE  req[c].conns = 1
      BY <1>3 DEF Holders
    <3>1. Entering(req[c]) /\ Head(req[c].todo) = "connect" /\ req[c].conns \in Nat
      BY RowFacts DEF WaitsForConnection, At
    <3>2. req[c].conns =< 1
      BY <3>1, StageStep DEF Entering
    <3> QED
      BY <3>1, <3>2
  <2>2. Held = Holders \X {1}
    BY <2>1 DEF Held, Holders, IInv, RequestsTypeOK, Request
  <2>3. Holders \subseteq InFlight
    BY <1>1 DEF Holders
  <2>4. IsFiniteSet(Holders) /\ Cardinality(Holders) =< Cardinality(InFlight)
        /\ Cardinality(Holders) \in Nat
    BY <2>3, PoolsFinite, FS_Subset, FS_CardinalityType
  <2>5. InUse = Cardinality(Holders)
    <3>1. IsFiniteSet({1}) /\ Cardinality({1}) = 1
      BY FS_Singleton
    <3>2. Cardinality(Holders \X {1}) = Cardinality(Holders) * 1
      BY <2>4, <3>1, FS_Product
    <3> QED
      BY <2>2, <2>4, <3>2 DEF InUse
  <2> QED
    BY <2>4, <2>5, PoolsFinite, RequestsAssumption DEF Jam, ConnectionFree
<1> QED
  BY <1>2, <1>3 DEF Jam

\* With fewer requests in progress than that, nobody ever waits for a timeout,
\* whatever the sizes of the two pools.
THEOREM JamsNeedACrowd == Spec => []JamNeedsCrowd
BY JamCounted, Inductive, PTL

=============================================================================
