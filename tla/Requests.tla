------------------------------ MODULE Requests ------------------------------
(***************************************************************************)
(* The life of a request between the socket and the service functions       *)
(* (routers.py, auth.py, db.py): its dependencies are entered one after     *)
(* another, each on a thread of the framework's pool, and one or two of     *)
(* them take a connection of the engine's pool.  A write of /admin or /cp   *)
(* holds the connection of its transaction while it waits for a second one, *)
(* on which its caller is identified.  The operation itself is one step     *)
(* here (LicensingTx takes it apart); what counts is when the caller's      *)
(* authority is looked at, when the change is committed and when the answer *)
(* leaves.                                                                  *)
(***************************************************************************)
EXTENDS Integers, Sequences, FiniteSets

CONSTANTS
    Clients,       \* callers, one request each at a time
    Credentials,   \* admin sessions and service tokens
    None,
    Threads,       \* threads that run dependencies and handlers
    Connections    \* pool_size + max_overflow

ASSUME RequestsAssumption ==
    /\ IsFiniteSet(Clients) /\ None \notin Credentials
    /\ Threads \in Nat \ {0} /\ Connections \in Nat \ {0}

VARIABLES
    early,   \* does the framework answer before it tears dependencies down?
    cred,    \* admin_sessions and service_tokens: may this credential act?
    req      \* req[c]: the request of client c

vars == <<early, cred, req>>

\* Mutant: the transaction takes a second connection of its own.
Steps_ThreeConnections(kind) ==
    CASE kind = "open"  -> <<"connect", "handle">>
      [] kind = "read"  -> <<"connect", "identify", "handle">>
      [] kind = "write" -> <<"connect", "connect", "connect", "identify", "handle">>

\* What an endpoint asks for, in the order of its parameters, and its body.
\* Login, logout and activation ask for a transaction and no identity.  A read
\* shares its connection with the identity (one cached dependency), a write
\* does not.  csrf_guard and the gate of /activate come before all this, on a
\* thread too; they hold no connection and wait for none, so a request arrives
\* here when it has passed them.
Steps(kind) ==
    CASE kind = "open"  -> <<"connect", "handle">>
      [] kind = "read"  -> <<"connect", "identify", "handle">>
      [] kind = "write" -> <<"connect", "connect", "identify", "handle">>

Kinds == {"open", "read", "write"}
NoReq == [kind |-> "none", cred |-> None, todo |-> <<>>, busy |-> FALSE, conns |-> 0,
          saved |-> FALSE, told |-> FALSE]

InFlight == {c \in Clients : req[c].kind # "none"}
Holders == {c \in Clients : req[c].conns > 0}
OnThread == {c \in Clients : req[c].busy}
At(c, step) == req[c].busy /\ Head(req[c].todo) = step
WaitsForConnection(c) == At(c, "connect")
WaitsForThread(c) == req[c].todo # <<>> /\ ~req[c].busy

\* The connections that are checked out of the engine's pool.
Held == UNION {{c} \X (1 .. req[c].conns) : c \in Clients}
InUse == Cardinality(Held)

\* Mutant: one connection more than the pool has.
ConnectionFree_OffByOne == InUse =< Connections

ConnectionFree == InUse < Connections
ThreadFree == Cardinality(OnThread) < Threads

Init ==
    /\ early \in BOOLEAN
    /\ cred = [s \in Credentials |-> "unissued"]
    /\ req = [c \in Clients |-> NoReq]

-----------------------------------------------------------------------------
(* Credentials come and go by transactions of other requests and of the CLI. *)

\* A login opens a session, an operator mints a service token.
Issue(s) ==
    /\ cred[s] = "unissued"
    /\ cred' = [cred EXCEPT ![s] = "live"]
    /\ UNCHANGED <<early, req>>

\* Logout, a command of the CLI, a timeout; the deletion of the token's tenant.
Revoke(s) ==
    /\ cred[s] = "live"
    /\ cred' = [cred EXCEPT ![s] = "revoked"]
    /\ UNCHANGED <<early, req>>

-----------------------------------------------------------------------------
(* Entering the dependencies and running the handler.                       *)

Arrive(c, kind, s) ==
    /\ req[c].kind = "none"
    /\ (kind = "open") = (s = None)
    /\ req' = [req EXCEPT ![c] = [NoReq EXCEPT !.kind = kind, !.cred = s, !.todo = Steps(kind)]]
    /\ UNCHANGED <<early, cred>>

StartStep(c) ==
    /\ WaitsForThread(c)
    /\ ThreadFree
    /\ req' = [req EXCEPT ![c].busy = TRUE]
    /\ UNCHANGED <<early, cred>>

Done(r) == [r EXCEPT !.todo = Tail(@), !.busy = FALSE]

\* An exception unwinds the dependencies before it becomes an error answer: the
\* transaction is rolled back and every connection closed, nothing waits.
Fail(c) == req' = [req EXCEPT ![c] = NoReq]

Connect(c) ==
    /\ WaitsForConnection(c)
    /\ ConnectionFree
    /\ req' = [req EXCEPT ![c] = [Done(req[c]) EXCEPT !.conns = req[c].conns + 1]]
    /\ UNCHANGED <<early, cred>>

\* Mutant: the pool is asked again and again, without a limit.
PoolTimeout_Forever(c) ==
    /\ WaitsForConnection(c)
    /\ ~ConnectionFree
    /\ UNCHANGED vars

\* No connection within the pool's timeout.
PoolTimeout(c) ==
    /\ WaitsForConnection(c)
    /\ ~ConnectionFree
    /\ Fail(c)
    /\ UNCHANGED <<early, cred>>

\* Mutant: the row is found by its hash alone.
Identify_AnyRow(c) ==
    /\ At(c, "identify")
    /\ IF cred[req[c].cred] # "unissued" THEN req' = [req EXCEPT ![c] = Done(@)] ELSE Fail(c)
    /\ UNCHANGED <<early, cred>>

\* admin_identity and service_identity: let in on what is committed now, or
\* 401 and 403.
Identify(c) ==
    /\ At(c, "identify")
    /\ IF cred[req[c].cred] = "live" THEN req' = [req EXCEPT ![c] = Done(@)] ELSE Fail(c)
    /\ UNCHANGED <<early, cred>>

\* The operation succeeds or raises.
Handle(c) ==
    /\ At(c, "handle")
    /\ \/ req' = [req EXCEPT ![c] = Done(@)]
       \/ Fail(c)
    /\ UNCHANGED <<early, cred>>

-----------------------------------------------------------------------------
(* Answering a success and tearing down.                                    *)

Writes(c) == req[c].kind \in {"open", "write"}
Succeeded(c) == c \in InFlight /\ req[c].todo = <<>>

\* Commit a transaction, close the connections.
Close(c) ==
    /\ Succeeded(c) /\ req[c].conns > 0
    /\ early => req[c].told
    /\ req' = [req EXCEPT ![c].conns = 0, ![c].saved = Writes(c)]
    /\ UNCHANGED <<early, cred>>

\* Mutant: the exception of the commit is not raised again.
CommitFails_Swallowed(c) ==
    /\ Succeeded(c) /\ Writes(c) /\ req[c].conns > 0
    /\ early => req[c].told
    /\ req' = [req EXCEPT ![c].conns = 0]
    /\ UNCHANGED <<early, cred>>

\* The database is gone at commit: an error, unless the answer has left.
CommitFails(c) ==
    /\ Succeeded(c) /\ Writes(c) /\ req[c].conns > 0
    /\ early => req[c].told
    /\ Fail(c)
    /\ UNCHANGED <<early, cred>>

Answer(c) ==
    /\ Succeeded(c) /\ ~req[c].told
    /\ early \/ req[c].conns = 0
    /\ req' = [req EXCEPT ![c].told = TRUE]
    /\ UNCHANGED <<early, cred>>

Leave(c) ==
    /\ req[c].told /\ req[c].conns = 0
    /\ req' = [req EXCEPT ![c] = NoReq]
    /\ UNCHANGED <<early, cred>>

\* What follows once the request has its thread, or needs none.
Proceed(c) ==
    \/ Connect(c) \/ PoolTimeout(c) \/ Identify(c) \/ Handle(c)
    \/ Close(c) \/ CommitFails(c) \/ Answer(c) \/ Leave(c)

Next ==
    \/ \E s \in Credentials : Issue(s) \/ Revoke(s)
    \/ \E c \in Clients :
          \/ \E kind \in Kinds, s \in Credentials \cup {None} : Arrive(c, kind, s)
          \/ StartStep(c)
          \/ Proceed(c)

Spec == Init /\ [][Next]_vars

\* A request is not left waiting on a thread, connections are waited for with a
\* timeout, and free threads are given out in turn, so a request that finds one
\* free again and again gets one.
FairSpec == Spec /\ \A c \in Clients : WF_vars(Proceed(c)) /\ SF_vars(StartStep(c))

-----------------------------------------------------------------------------
(* Properties.                                                              *)

Request == [kind : Kinds \cup {"none"}, cred : Credentials \cup {None},
            todo : Seq({"connect", "identify", "handle"}), busy : BOOLEAN, conns : Nat,
            saved : BOOLEAN, told : BOOLEAN]

\* Neither pool gives out more than it has.
RequestsTypeOK ==
    /\ early \in BOOLEAN
    /\ cred \in [Credentials -> {"unissued", "live", "revoked"}]
    /\ req \in [Clients -> Request]
    /\ InUse =< Connections
    /\ Cardinality(OnThread) =< Threads

\* Every request is answered and gives back its connections, also when each
\* holds one connection and waits for another, or holds connections and waits
\* for a thread while the threads wait for connections.
EveryRequestEnds == \A c \in Clients : c \in InFlight ~> c \notin InFlight

\* Nobody who holds a connection can go on without a timeout.
Jam ==
    /\ ~ConnectionFree
    /\ \A c \in Holders : WaitsForConnection(c) \/ (WaitsForThread(c) /\ ~ThreadFree)
    /\ \A c \in OnThread : WaitsForConnection(c)

\* The hold-and-wait of writes needs a crowd: with fewer requests in progress
\* than connections (and threads) the service never has to wait for a timeout.
JamNeedsCrowd ==
    Jam => Cardinality(InFlight) >= IF Threads < Connections THEN Threads + 1 ELSE Connections

\* Let in by its identity, and not yet through.
Authorised(c) ==
    /\ req[c].todo # <<>>
    /\ \A i \in DOMAIN req[c].todo : req[c].todo[i] = "handle"

\* The identity is not looked at again after it was resolved, so a credential
\* may outlive its revocation, but only with the requests under way: these run
\* out, and from then on nothing is done on its authority.
RevocationDrains ==
    \A s \in Credentials :
        cred[s] = "revoked" ~> [](\A c \in Clients : req[c].cred = s => ~Authorised(c))

\* With the teardown before the answer, who is told of a success finds it
\* committed.
ToldIsCommitted ==
    ~early => \A c \in Clients : Writes(c) /\ req[c].told => req[c].saved
=============================================================================
