--------------------------- MODULE FailureLimiter ---------------------------
(***************************************************************************)
(* A FailureLimiter of ratelimit.py under the requests that ask it: failed  *)
(* attempts are counted per key (a client IP, a typed e-mail) in a sliding  *)
(* window, and enough of them lock the key out.  Each method runs under the *)
(* limiter's own lock, so it is one step; but a request asks retry_after    *)
(* first and reports its failure only once the password or the token has   *)
(* been checked, so attempts of several threads overlap.                    *)
(***************************************************************************)
EXTENDS Integers, Sequences, FiniteSets

CONSTANTS
    Keys,          \* client IPs, or typed e-mails
    Workers,       \* request threads
    None,          \* no key
    MaxFailures, Window, Lockout, MaxKeys,  \* arguments of the constructor
    MaxNow,        \* bound: the clock stops here
    MaxAttempts    \* bound: no more attempts than these

\* What the constructor refuses, and max_keys of 1 at least.
ASSUME LimiterAssumption ==
    /\ MaxFailures \in Nat \ {0} /\ Window \in Nat \ {0} /\ Lockout \in Nat \ {0}
    /\ MaxKeys \in Nat \ {0}
    /\ MaxNow \in Nat /\ MaxAttempts \in Nat
ASSUME SetsAssumption == IsFiniteSet(Workers) /\ IsFiniteSet(Keys) /\ None \notin Keys

VARIABLES
    now,        \* the monotonic clock
    older,      \* <<j, k>>: key j was added to _failures before key k
    hits,       \* _failures: the times of the failures counted for a key
    locked,     \* _locked_until
    trying,     \* trying[w]: the key worker w was let through with, or None
    log         \* history: <<key, time, number>> of every reported failure

vars == <<now, older, hits, locked, trying, log>>

Trying(k) == {w \in Workers : trying[w] = k}
Tracked == DOMAIN hits

\* retry_after(k) > 0
LockedOut(k) == k \in DOMAIN locked /\ locked[k] > now

Init ==
    /\ now = 0
    /\ older = {}
    /\ hits = <<>>
    /\ locked = <<>>
    /\ trying = [w \in Workers |-> None]
    /\ log = {}

Tick ==
    /\ now < MaxNow
    /\ now' = now + 1
    /\ UNCHANGED <<older, hits, locked, trying, log>>

-----------------------------------------------------------------------------
Keep(f, S) == [k \in DOMAIN f \cap S |-> f[k]]

\* Every trace of the keys outside S goes.
Retain(S) ==
    /\ older' = older \cap (S \X S)
    /\ hits' = Keep(hits, S)
    /\ locked' = Keep(locked, S)

\* The gate: a lockout that has run out is forgotten together with the failures
\* that led to it, and the attempt is let through.
Enter(w, k) ==
    /\ trying[w] = None
    /\ Cardinality(log) + Cardinality({v \in Workers : trying[v] # None}) < MaxAttempts
    /\ ~LockedOut(k)
    /\ IF k \in DOMAIN locked THEN Retain(Keys \ {k}) ELSE UNCHANGED <<older, hits, locked>>
    /\ trying' = [trying EXCEPT ![w] = k]
    /\ UNCHANGED <<now, log>>

Expired(k) == hits[k][Len(hits[k])] =< now - Window

\* The keys of S that follow key k in the dictionary, and k itself.
From(k, S) == {j \in S : j = k \/ <<k, j>> \in older}

\* Mutant: expired keys are dropped without a look at their lockout.
Survivors_Unlocked ==
    LET kept == {k \in Tracked : ~Expired(k)}
    IN  {k \in kept : Cardinality(From(k, kept)) < MaxKeys}

\* Mutant: the oldest keys are not evicted.
Survivors_NoEviction == {k \in Tracked : Expired(k) => LockedOut(k)}

\* _prune: expired keys go unless locked out; then the keys added first, until
\* there is room for one more.
Survivors ==
    LET kept == {k \in Tracked : Expired(k) => LockedOut(k)}
    IN  {k \in kept : Cardinality(From(k, kept)) < MaxKeys}

\* Mutant: failures older than the window still count.
Recent_All(k) == IF k \in Tracked THEN Append(hits[k], now) ELSE <<now>>

\* Mutant: the window is a second short, so a failure may not even count itself.
Recent_Short(k) ==
    LET all == IF k \in Tracked THEN Append(hits[k], now) ELSE <<now>>
        old == {i \in 1 .. Len(all) : all[i] =< now - (Window - 1)}
    IN  SubSeq(all, Cardinality(old) + 1, Len(all))

\* The failures of k, this one included, without those at the front that the
\* window has left behind: times only grow, so these are all the old ones.
Recent(k) ==
    LET all == IF k \in Tracked THEN Append(hits[k], now) ELSE <<now>>
        old == {i \in 1 .. Len(all) : all[i] =< now - Window}
    IN  SubSeq(all, Cardinality(old) + 1, Len(all))

\* Mutant: one failure more is needed to lock.
TooMany_OffByOne(k) == Len(Recent(k)) > MaxFailures

TooMany(k) == Len(Recent(k)) >= MaxFailures

\* record_failure
Fail(w) ==
    LET k == trying[w]
        new == k \notin Tracked
        kept == IF new /\ Cardinality(Tracked) >= MaxKeys THEN Survivors ELSE Tracked
    IN
    /\ trying[w] # None
    /\ older' = (older \cap (kept \X kept)) \cup (IF new THEN kept \X {k} ELSE {})
    /\ hits' = [j \in kept \cup {k} |-> IF j = k THEN Recent(k) ELSE hits[j]]
    /\ locked' = [j \in (DOMAIN locked \cap kept) \cup (IF TooMany(k) THEN {k} ELSE {}) |->
                    IF j = k /\ TooMany(k) THEN now + Lockout ELSE locked[j]]
    /\ log' = log \cup {<<k, now, Cardinality(log)>>}
    /\ trying' = [trying EXCEPT ![w] = None]
    /\ UNCHANGED now

\* Mutant: a success forgets the failures but not the lockout.
Succeed_LockStays(w) ==
    LET k == trying[w] IN
    /\ trying[w] # None
    /\ older' = {p \in older : p[1] # k /\ p[2] # k}
    /\ hits' = Keep(hits, Keys \ {k})
    /\ trying' = [trying EXCEPT ![w] = None]
    /\ UNCHANGED <<now, log, locked>>

\* A login that succeeds clears its e-mail.
Succeed(w) ==
    /\ trying[w] # None
    /\ Retain(Keys \ {trying[w]})
    /\ trying' = [trying EXCEPT ![w] = None]
    /\ UNCHANGED <<now, log>>

\* An attempt that ends otherwise: a success seen by the IP limiters, which
\* are never cleared, or an error that is not a failed attempt.
Pass(w) ==
    /\ trying[w] # None
    /\ trying' = [trying EXCEPT ![w] = None]
    /\ UNCHANGED <<now, older, hits, locked, log>>

Next ==
    \/ Tick
    \/ \E w \in Workers, k \in Keys : Enter(w, k)
    \/ \E w \in Workers : Fail(w) \/ Succeed(w) \/ Pass(w)

Spec == Init /\ [][Next]_vars

-----------------------------------------------------------------------------
(* Properties.                                                              *)

TypeOK ==
    /\ now \in Nat
    /\ Tracked \subseteq Keys
    /\ \A k \in Tracked : hits[k] \in Seq(Nat) /\ hits[k] # <<>>
    /\ older \subseteq Tracked \X Tracked
    /\ \A j, k \in Tracked : j = k \/ (<<j, k>> \in older <=> <<k, j>> \notin older)
    /\ DOMAIN locked \subseteq Keys /\ \A k \in DOMAIN locked : locked[k] \in Nat
    /\ trying \in [Workers -> Keys \cup {None}]

\* The two dictionaries stay within max_keys, and no lockout outlives the
\* failures it rests on: every path that drops one drops the other.
MemoryBounded ==
    /\ Cardinality(Tracked) =< MaxKeys
    /\ DOMAIN locked \subseteq Tracked

\* The check and the report are apart, so attempts overlap; still no more than
\* one attempt per thread gets past the maximum.
GuessesBounded ==
    \A k \in Keys :
        (IF k \in Tracked THEN Len(hits[k]) ELSE 0) + Cardinality(Trying(k))
            =< MaxFailures - 1 + Cardinality(Workers)

\* Nobody is locked out but for max_failures failures inside one window.
LockedForCause ==
    \A k \in DOMAIN locked :
        LET at == locked[k] - Lockout IN
        Cardinality({e \in log : e[1] = k /\ e[2] \in at - Window + 1 .. at}) >= MaxFailures

\* A running lockout is served to its end: it is cut short only by a login of
\* that key that succeeds, or by eviction with the dictionary full.
LockoutServed ==
    [][\A k \in Keys : LockedOut(k) /\ now' = now =>
          \/ k \in DOMAIN locked' /\ locked'[k] >= locked[k]
          \/ log' = log /\ \E w \in Trying(k) : trying'[w] = None
          \/ Cardinality(DOMAIN hits') = MaxKeys]_vars
=============================================================================
