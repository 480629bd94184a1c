------------------------ MODULE FailureLimiterProofs ------------------------
(***************************************************************************)
(* Machine-checked proofs about FailureLimiter, for any number of keys and  *)
(* threads and any thresholds.  The bound on guesses is not inductive by    *)
(* itself: it also takes that a key which is not in _locked_until has fewer *)
(* failures than the maximum (NotLockedYet), so that whoever is let through *)
(* finds room for one attempt of every thread.                              *)
(* What the dictionaries hold is a second invariant, DInv: the keys are     *)
(* ordered by their last use (Transitive), so evicting the last makes room  *)
(* for one (MemoryBounded), and the failures that are counted are matched   *)
(* one to one with attempts in the log (Logged), so a lockout has its cause. *)
(***************************************************************************)
EXTENDS FailureLimiter, FiniteSetTheorems, TLAPS

Counted(k) == IF k \in Tracked THEN Len(hits[k]) ELSE 0

Shape ==
    /\ now \in Nat
    /\ Tracked \subseteq Keys
    /\ \A k \in Tracked : hits[k] \in Seq(Int)
    /\ DOMAIN locked \subseteq Tracked
    /\ trying \in [Workers -> Keys \cup {None}]

NotLockedYet == \A k \in Tracked \ DOMAIN locked : Len(hits[k]) < MaxFailures

IInv == Shape /\ NotLockedYet /\ GuessesBounded

\* Which workers are at work on a key is a finite set.
LEMMA TryingFinite ==
    \A k : /\ IsFiniteSet(Trying(k)) /\ Cardinality(Trying(k)) \in Nat
           /\ Cardinality(Trying(k)) =< Cardinality(Workers)
           /\ Cardinality(Workers) \in Nat
<1>1. \A k : Trying(k) \subseteq Workers
  BY DEF Trying
<1> QED
  BY <1>1, SetsAssumption, FS_Subset, FS_CardinalityType

\* The failures that still count are among those counted before and the new one.
LEMMA RecentShort ==
    ASSUME Shape, NEW k \in Keys
    PROVE  Recent(k) \in Seq(Int) /\ Len(Recent(k)) =< Counted(k) + 1
<1> DEFINE all == IF k \in Tracked THEN Append(hits[k], now) ELSE <<now>>
           old == {i \in 1 .. Len(all) : all[i] =< now - Window}
<1>1. all \in Seq(Int) /\ Len(all) = Counted(k) + 1
  BY DEF Shape, Counted
<1>2. Cardinality(old) \in Nat
  <2>1. IsFiniteSet(1 .. Len(all))
    BY <1>1, FS_Interval
  <2> QED
    BY <2>1, FS_Subset, FS_CardinalityType
<1>3. Recent(k) = SubSeq(all, Cardinality(old) + 1, Len(all))
  BY DEF Recent
<1> HIDE DEF all, old
<1> QED
  BY <1>1, <1>2, <1>3

\* No attempt is under way at first.
LEMMA InitInv == Init => IInv
<1> SUFFICES ASSUME Init PROVE IInv
  OBVIOUS
<1>1. Tracked = {} /\ DOMAIN locked = {}
  BY DEF Init, Tracked
<1>2. \A k \in Keys : Trying(k) = {}
  BY SetsAssumption DEF Init, Trying
<1>3. GuessesBounded
  BY <1>1, <1>2, TryingFinite, FS_EmptySet, LimiterAssumption DEF GuessesBounded
<1> QED
  BY <1>1, <1>3 DEF IInv, Shape, NotLockedYet, Init

\* A worker that is done leaves room for one more attempt on its key.
LEMMA WorkerLeaves ==
    ASSUME Shape, NEW w \in Workers, NEW k \in Keys, trying[w] = k,
           trying' = [trying EXCEPT ![w] = None]
    PROVE  /\ trying' \in [Workers -> Keys \cup {None}]
           /\ Cardinality(Trying(k)') = Cardinality(Trying(k)) - 1
           /\ \A j \in Keys \ {k} : Trying(j)' = Trying(j)
<1>1. k # None
  BY SetsAssumption
<1>2. Trying(k)' = Trying(k) \ {w} /\ w \in Trying(k)
  BY <1>1 DEF Trying, Shape
<1>3. \A j \in Keys \ {k} : Trying(j)' = Trying(j)
  BY <1>1, SetsAssumption DEF Trying, Shape
<1>4. Cardinality(Trying(k) \ {w}) = Cardinality(Trying(k)) - 1
  BY <1>2, TryingFinite, FS_RemoveElement
<1> QED
  BY <1>2, <1>3, <1>4 DEF Shape

\* Letting an attempt through keeps the invariant: the key is below the maximum.
LEMMA EnterInv ==
    ASSUME IInv, NEW w \in Workers, NEW k \in Keys, Enter(w, k)
    PROVE  IInv'
<1> USE DEF IInv
<1>1. \/ k \in DOMAIN locked /\ Retain(Keys \ {k})
      \/ k \notin DOMAIN locked /\ UNCHANGED <<older, hits, locked>>
  BY DEF Enter
<1>2. /\ Tracked' \subseteq Tracked /\ \A j \in Tracked' : hits'[j] = hits[j]
      /\ DOMAIN locked' \subseteq Tracked'
      /\ \A j \in Tracked' : j \in DOMAIN locked' <=> j \in DOMAIN locked
      /\ k \notin DOMAIN locked'
  BY <1>1 DEF Shape, Retain, Keep, Tracked
<1>3. trying' = [trying EXCEPT ![w] = k] /\ now' = now /\ trying[w] = None
  BY DEF Enter
<1>4. Shape'
  BY <1>2, <1>3 DEF Shape
<1>5. NotLockedYet'
  BY <1>2 DEF NotLockedYet
<1>6. \A j \in Keys \ {k} : Trying(j)' = Trying(j)
  BY <1>3, SetsAssumption DEF Trying, Shape
<1>7. \A j : Cardinality(Trying(j)') =< Cardinality(Workers) /\ Cardinality(Trying(j)') \in Nat
  <2>1. \A j : Trying(j)' \subseteq Workers
    BY DEF Trying
  <2> QED
    BY <2>1, SetsAssumption, FS_Subset, FS_CardinalityType
<1>8. GuessesBounded'
  <2> SUFFICES ASSUME NEW j \in Keys
               PROVE  (IF j \in Tracked' THEN Len(hits'[j]) ELSE 0) + Cardinality(Trying(j)')
                         =< MaxFailures - 1 + Cardinality(Workers)
    BY DEF GuessesBounded
  <2>1. CASE j = k
    <3>1. k \in Tracked' => Len(hits'[k]) \in Nat /\ Len(hits'[k]) < MaxFailures
      BY <1>2, <1>4, <1>5 DEF NotLockedYet, Shape
    <3>2. Cardinality(Trying(k)') =< Cardinality(Workers) /\ Cardinality(Trying(k)') \in Nat
      BY <1>7
    <3>3. Cardinality(Workers) \in Nat /\ MaxFailures \in Nat \ {0}
      BY TryingFinite, LimiterAssumption
    <3> QED
      BY <2>1, <3>1, <3>2, <3>3
  <2>2. CASE j # k
    <3>1. Cardinality(Trying(j)') = Cardinality(Trying(j))
      BY <2>2, <1>6
    <3>2. Counted(j) \in Nat /\ Cardinality(Trying(j)) \in Nat
      BY TryingFinite DEF Counted, Shape
    <3>3. Counted(j) + Cardinality(Trying(j)) =< MaxFailures - 1 + Cardinality(Workers)
      BY DEF GuessesBounded, Counted
    <3>4. (IF j \in Tracked' THEN Len(hits'[j]) ELSE 0) =< Counted(j)
      BY <1>2, <3>2 DEF Counted
    <3>5. (IF j \in Tracked' THEN Len(hits'[j]) ELSE 0) \in Nat
      BY <1>4 DEF Shape
    <3> QED
      BY <3>1, <3>2, <3>3, <3>4, <3>5, TryingFinite, LimiterAssumption
  <2> QED
    BY <2>1, <2>2
<1> QED
  BY <1>4, <1>5, <1>8

\* A reported failure keeps the invariant: it takes the place of its attempt,
\* and it locks the key when it is one too many.
LEMMA FailInv ==
    ASSUME IInv, NEW w \in Workers, Fail(w)
    PROVE  IInv'
<1> USE DEF IInv
<1>1. PICK k \in Keys : trying[w] = k
  BY DEF Fail, Shape
<1> DEFINE new == k \notin Tracked
           kept == IF new /\ Cardinality(Tracked) >= MaxKeys THEN Survivors ELSE Tracked
<1>2. kept \subseteq Tracked
  BY DEF Survivors
<1>3. /\ hits' = [j \in kept \cup {k} |-> IF j = k THEN Recent(k) ELSE hits[j]]
      /\ DOMAIN locked' = (DOMAIN locked \cap kept) \cup (IF TooMany(k) THEN {k} ELSE {})
      /\ trying' = [trying EXCEPT ![w] = None]
      /\ now' = now
  BY <1>1 DEF Fail
<1>4. Recent(k) \in Seq(Int) /\ Len(Recent(k)) =< Counted(k) + 1
  BY <1>1, RecentShort
<1>5. /\ Cardinality(Trying(k)') = Cardinality(Trying(k)) - 1
      /\ \A j \in Keys \ {k} : Trying(j)' = Trying(j)
      /\ trying' \in [Workers -> Keys \cup {None}]
  BY <1>1, <1>3, WorkerLeaves
<1> HIDE DEF kept
<1>6. Tracked' = kept \cup {k} /\ hits'[k] = Recent(k) /\ \A j \in kept \ {k} : hits'[j] = hits[j]
  BY <1>3 DEF Tracked
<1>7. Shape'
  BY <1>1, <1>2, <1>3, <1>4, <1>5, <1>6 DEF Shape
<1>8. NotLockedYet'
  <2>1. k \notin DOMAIN locked' => Len(hits'[k]) < MaxFailures
    BY <1>3, <1>4, <1>6, LimiterAssumption DEF TooMany
  <2>2. \A j \in kept \ {k} : j \notin DOMAIN locked' => j \in Tracked \ DOMAIN locked
    BY <1>2, <1>3
  <2> QED
    BY <1>6, <2>1, <2>2 DEF NotLockedYet
<1>9. GuessesBounded'
  <2> SUFFICES ASSUME NEW j \in Keys
               PROVE  (IF j \in Tracked' THEN Len(hits'[j]) ELSE 0) + Cardinality(Trying(j)')
                         =< MaxFailures - 1 + Cardinality(Workers)
    BY DEF GuessesBounded
  <2>1. Counted(j) \in Nat /\ Cardinality(Trying(j)) \in Nat /\ Cardinality(Workers) \in Nat
    BY TryingFinite DEF Counted, Shape
  <2>2. Counted(j) + Cardinality(Trying(j)) =< MaxFailures - 1 + Cardinality(Workers)
    BY DEF GuessesBounded, Counted
  <2>3. CASE j = k
    <3>1. Len(Recent(k)) \in Nat
      BY <1>4
    <3> QED
      BY <2>1, <2>2, <2>3, <3>1, <1>4, <1>5, <1>6, LimiterAssumption
  <2>4. CASE j # k
    <3>1. Cardinality(Trying(j)') = Cardinality(Trying(j))
      BY <2>4, <1>5
    <3>2. (IF j \in Tracked' THEN Len(hits'[j]) ELSE 0) =< Counted(j)
      BY <2>1, <2>4, <1>2, <1>6 DEF Counted
    <3>3. (IF j \in Tracked' THEN Len(hits'[j]) ELSE 0) \in Nat
      BY <1>7 DEF Shape
    <3> QED
      BY <2>1, <2>2, <3>1, <3>2, <3>3, LimiterAssumption
  <2> QED
    BY <2>3, <2>4
<1> QED
  BY <1>7, <1>8, <1>9

\* An attempt that ends without a failure keeps the invariant, whether it
\* clears its key or not.
LEMMA EndInv ==
    ASSUME IInv, NEW w \in Workers, Succeed(w) \/ Pass(w)
    PROVE  IInv'
<1> USE DEF IInv
<1>1. /\ Tracked' \subseteq Tracked /\ \A j \in Tracked' : hits'[j] = hits[j]
      /\ DOMAIN locked' \subseteq Tracked'
      /\ \A j \in Tracked' : j \in DOMAIN locked' <=> j \in DOMAIN locked
  BY DEF Shape, Succeed, Pass, Retain, Keep, Tracked
<1>2. PICK k \in Keys : trying[w] = k
  BY DEF Succeed, Pass, Shape
<1>3. /\ Cardinality(Trying(k)') = Cardinality(Trying(k)) - 1
      /\ \A j \in Keys \ {k} : Trying(j)' = Trying(j)
      /\ trying' \in [Workers -> Keys \cup {None}]
  BY <1>2, WorkerLeaves DEF Succeed, Pass
<1>4. Shape'
  BY <1>1, <1>3 DEF Shape, Succeed, Pass
<1>5. NotLockedYet'
  BY <1>1 DEF NotLockedYet
<1>6. GuessesBounded'
  <2> SUFFICES ASSUME NEW j \in Keys
               PROVE  (IF j \in Tracked' THEN Len(hits'[j]) ELSE 0) + Cardinality(Trying(j)')
                         =< MaxFailures - 1 + Cardinality(Workers)
    BY DEF GuessesBounded
  <2>1. Cardinality(Trying(j)) \in Nat /\ Cardinality(Workers) \in Nat
    BY TryingFinite
  <2>2. Cardinality(Trying(j)') =< Cardinality(Trying(j)) /\ Cardinality(Trying(j)') \in Int
    BY <1>3, <2>1
  <2>3. \A i \in Tracked : Len(hits[i]) \in Nat
    BY DEF Shape
  <2> QED
    BY <1>1, <2>1, <2>2, <2>3, LimiterAssumption DEF GuessesBounded
<1> QED
  BY <1>4, <1>5, <1>6

\* The invariant is inductive.
LEMMA NextInv == IInv /\ [Next]_vars => IInv'
<1> SUFFICES ASSUME IInv, [Next]_vars PROVE IInv'
  OBVIOUS
<1>1. CASE UNCHANGED <<hits, locked, trying>> /\ now' \in Nat
  BY <1>1 DEF IInv, Shape, NotLockedYet, GuessesBounded, Trying, Tracked
<1>2. CASE Tick \/ UNCHANGED vars
  BY <1>1, <1>2 DEF Tick, vars, IInv, Shape
<1> QED
  BY <1>2, EnterInv, FailInv, EndInv DEF Next

\* Attempts overlap between the check and the report, yet failures counted and
\* attempts under way never exceed the maximum by more than the threads.
THEOREM GuessesStayBounded == Spec => []GuessesBounded
<1>1. IInv => GuessesBounded
  BY DEF IInv
<1> QED
  BY InitInv, NextInv, <1>1, PTL DEF Spec

-----------------------------------------------------------------------------
(* The dictionaries: their order, their size and the times they hold.       *)

\* The order of insertion is an order: TypeOK has it total, this is the rest.
Transitive == \A i, j, k \in Tracked : <<i, j>> \in older /\ <<j, k>> \in older => <<i, k>> \in older

\* Times only grow along a key's failures and none lies ahead, and no lockout
\* ends later than one that started now.
Times ==
    /\ \A k \in Tracked : \A i, j \in 1 .. Len(hits[k]) :
          /\ i =< j => hits[k][i] =< hits[k][j]
          /\ hits[k][i] =< now
    /\ \A k \in DOMAIN locked : locked[k] =< now + Lockout

\* Every failure counted for a key is one of the log, and the log numbers its
\* entries.
Numbered ==
    /\ IsFiniteSet(log)
    /\ \A e \in log : e[3] \in Nat /\ e[3] < Cardinality(log)

Matches(f, k, times, entries) ==
    /\ f \in [1 .. Len(times) -> entries]
    /\ \A i \in 1 .. Len(times) : f[i][1] = k /\ f[i][2] = times[i]
    /\ \A i, j \in 1 .. Len(times) : f[i] = f[j] => i = j

Logged == \A k \in Tracked : \E f : Matches(f, k, hits[k], log)

DInv ==
    /\ TypeOK /\ MemoryBounded /\ Transitive /\ Times
    /\ Numbered /\ Logged /\ LockedForCause

\* An interval from 1 has as many elements as it counts.
LEMMA UpTo == \A m \in Nat : IsFiniteSet(1 .. m) /\ Cardinality(1 .. m) = m
<1> SUFFICES ASSUME NEW m \in Nat PROVE IsFiniteSet(1 .. m) /\ Cardinality(1 .. m) = m
  OBVIOUS
<1>1. IsFiniteSet(1 .. m) /\ Cardinality(1 .. m) = IF 1 > m THEN 0 ELSE m - 1 + 1
  BY FS_Interval
<1> QED
  BY <1>1

\* The failures of a key with the one reported now.
All(k) == IF k \in Tracked THEN Append(hits[k], now) ELSE <<now>>

\* Times that only grow leave a window at its front: the first c are dropped,
\* and what is left lies in the window and holds the failure reported now.
LEMMA RecentIsWindow ==
    ASSUME TypeOK, Times, NEW k \in Keys
    PROVE  \E c \in 0 .. Len(All(k)) - 1 :
              /\ Recent(k) = SubSeq(All(k), c + 1, Len(All(k)))
              /\ \A i \in c + 1 .. Len(All(k)) : All(k)[i] \in now - Window + 1 .. now
<1> DEFINE all == All(k)
           n == Len(all)
           old == {i \in 1 .. n : all[i] =< now - Window}
           c == Cardinality(old)
<1>1. /\ all \in Seq(Nat) /\ n \in Nat \ {0} /\ all[n] = now
      /\ \A i, j \in 1 .. n : i =< j => all[i] =< all[j]
      /\ \A i \in 1 .. n : all[i] \in Nat /\ all[i] =< now
  <2>1. CASE k \in Tracked
    <3> DEFINE s == hits[k]
    <3>1. /\ s \in Seq(Nat) /\ now \in Nat
          /\ \A i, j \in 1 .. Len(s) : (i =< j => s[i] =< s[j]) /\ s[i] =< now
      BY <2>1 DEF TypeOK, Times
    <3>2. all = Append(s, now)
      BY <2>1 DEF All
    <3> HIDE DEF s, all
    <3> QED
      BY <3>1, <3>2
  <2>2. CASE k \notin Tracked
    BY <2>2 DEF TypeOK, All
  <2> QED
    BY <2>1, <2>2
<1>2. Recent(k) = SubSeq(all, c + 1, n)
  BY DEF Recent, All
<1>3. now \in Nat /\ Window \in Nat \ {0}
  BY LimiterAssumption DEF TypeOK
<1> HIDE DEF all
<1>4. IsFiniteSet(old) /\ c \in Nat
  <2>1. IsFiniteSet(1 .. n)
    BY <1>1, FS_Interval
  <2> QED
    BY <2>1, FS_Subset, FS_CardinalityType
<1>5. c =< n - 1
  <2>1. old \subseteq 1 .. n - 1
    BY <1>1, <1>3
  <2>2. IsFiniteSet(1 .. n - 1) /\ Cardinality(1 .. n - 1) = n - 1
    <3>1. n - 1 \in Nat
      BY <1>1
    <3> QED
      BY <3>1, UpTo
  <2> QED
    BY <2>1, <2>2, FS_Subset
<1>6. ASSUME NEW i \in c + 1 .. n PROVE all[i] \in now - Window + 1 .. now
  <2>1. i \notin old
    <3> SUFFICES ASSUME i \in old PROVE FALSE
      OBVIOUS
    <3>1. i \in 1 .. n /\ i > c /\ all[i] =< now - Window
      BY <1>4
    <3>2. 1 .. i \subseteq old
      BY <1>1, <1>3, <3>1
    <3>3. Cardinality(1 .. i) = i
      BY <3>1, FS_Interval
    <3> HIDE DEF old
    <3>4. i =< c
      BY <1>4, <3>2, <3>3, FS_Subset
    <3> QED
      BY <1>1, <1>4, <3>1, <3>4
  <2> QED
    BY <1>1, <1>3, <1>4, <2>1
<1> HIDE DEF old
<1>7. c \in 0 .. n - 1
  BY <1>1, <1>4, <1>5
<1> QED
  BY <1>2, <1>6, <1>7 DEF all

\* The keys that survive a report: with the dictionary full and a key to add,
\* the expired and the oldest go.
Kept(k) == IF k \notin Tracked /\ Cardinality(Tracked) >= MaxKeys THEN Survivors ELSE Tracked

\* There are finitely many keys to count.
LEMMA KeysFinite ==
    \A S \in SUBSET Keys : IsFiniteSet(S) /\ Cardinality(S) \in Nat
BY SetsAssumption, FS_Subset, FS_CardinalityType

\* Of two keys the older has more keys behind it.
LEMMA OlderHasMore ==
    ASSUME TypeOK, Transitive, NEW S \in SUBSET Tracked, NEW x \in S, NEW y \in S,
           x # y, <<x, y>> \in older
    PROVE  Cardinality(From(y, S)) < Cardinality(From(x, S))
<1>1. From(y, S) \subseteq From(x, S)
  BY DEF From, Transitive
<1>2. x \in From(x, S) /\ x \notin From(y, S)
  BY DEF From, TypeOK
<1>3. From(x, S) \in SUBSET Keys /\ From(y, S) \in SUBSET Keys
  BY DEF From, TypeOK
<1>4. IsFiniteSet(From(x, S)) /\ Cardinality(From(x, S)) \in Nat /\ Cardinality(From(y, S)) \in Nat
  BY <1>3, KeysFinite
<1>5. Cardinality(From(y, S)) =< Cardinality(From(x, S))
  BY <1>1, <1>4, FS_Subset
<1>6. Cardinality(From(x, S)) = Cardinality(From(y, S)) => From(x, S) = From(y, S)
  BY <1>1, <1>4, FS_Subset
<1> QED
  BY <1>2, <1>4, <1>5, <1>6

\* Eviction leaves room for one more key: were nothing dropped, every key of a
\* full dictionary would have fewer than all behind it, so two would have the
\* same number, and one of the two is older.
LEMMA RoomForOne ==
    ASSUME TypeOK, Transitive, Cardinality(Tracked) =< MaxKeys
    PROVE  Cardinality(Survivors) =< MaxKeys - 1
<1> DEFINE S == {k \in Tracked : Expired(k) => LockedOut(k)}
<1>1. Survivors = {k \in S : Cardinality(From(k, S)) < MaxKeys}
  BY DEF Survivors
<1>2. /\ S \subseteq Tracked /\ Survivors \subseteq S
      /\ Survivors \in SUBSET Keys /\ S \in SUBSET Keys /\ Tracked \in SUBSET Keys
  BY <1>1 DEF TypeOK
<1> HIDE DEF S
<1>3. /\ IsFiniteSet(S) /\ Cardinality(S) \in Nat
      /\ IsFiniteSet(Survivors) /\ Cardinality(Survivors) \in Nat
      /\ IsFiniteSet(Tracked) /\ MaxKeys \in Nat \ {0}
  BY <1>2, KeysFinite, LimiterAssumption
<1>4. Cardinality(S) =< MaxKeys /\ Cardinality(Survivors) =< Cardinality(S)
  <2>1. Cardinality(S) =< Cardinality(Tracked) /\ Cardinality(Tracked) \in Nat
    BY <1>2, <1>3, FS_Subset, KeysFinite
  <2>2. Cardinality(Survivors) =< Cardinality(S)
    BY <1>2, <1>3, FS_Subset
  <2> QED
    BY <1>3, <2>1, <2>2
<1> SUFFICES ASSUME Cardinality(Survivors) = MaxKeys PROVE FALSE
  BY <1>3, <1>4
<1>5. Survivors = S /\ Cardinality(S) = MaxKeys
  <2>1. Cardinality(S) = Cardinality(Survivors)
    BY <1>3, <1>4
  <2> QED
    BY <1>2, <1>3, <2>1, FS_Subset
<1> DEFINE behind == [k \in S |-> Cardinality(From(k, S))]
<1>6. behind \in [S -> 1 .. MaxKeys - 1]
  <2> SUFFICES ASSUME NEW k \in S PROVE Cardinality(From(k, S)) \in 1 .. MaxKeys - 1
    OBVIOUS
  <2>1. From(k, S) \in SUBSET Keys /\ From(k, S) # {}
    BY <1>2 DEF From
  <2>2. Cardinality(From(k, S)) \in Nat /\ IsFiniteSet(From(k, S))
    BY <2>1, KeysFinite
  <2>3. Cardinality(From(k, S)) # 0
    BY <2>1, <2>2, FS_EmptySet
  <2>4. Cardinality(From(k, S)) < MaxKeys
    BY <1>1, <1>5
  <2> QED
    BY <1>3, <2>2, <2>3, <2>4
<1> DEFINE T == 1 .. MaxKeys - 1
<1>7. IsFiniteSet(T) /\ Cardinality(T) < Cardinality(S)
  <2>1. MaxKeys - 1 \in Nat
    BY <1>3
  <2>2. IsFiniteSet(T) /\ Cardinality(T) = MaxKeys - 1
    BY <2>1, UpTo
  <2> QED
    BY <1>3, <1>5, <2>2
<1>8. PICK x \in S, y \in S : x # y /\ behind[x] = behind[y]
  <2>1. behind \in [S -> T]
    BY <1>6
  <2> HIDE DEF behind, T
  <2> QED
    BY <1>3, <1>7, <2>1, FS_PigeonHole
<1>9. <<x, y>> \in older \/ <<y, x>> \in older
  BY <1>2, <1>8 DEF TypeOK
<1>10. Cardinality(From(x, S)) = Cardinality(From(y, S)) /\ Cardinality(From(x, S)) \in Nat
  BY <1>6, <1>8
<1> QED
  BY <1>2, <1>8, <1>9, <1>10, OlderHasMore

\* Only what is known of the keys of S is left.
Forgets(S) ==
    /\ Tracked' = Tracked \cap S /\ \A k \in Tracked' : hits'[k] = hits[k]
    /\ DOMAIN locked' = DOMAIN locked \cap S
    /\ \A k \in DOMAIN locked' : locked'[k] = locked[k]
    /\ older' = older \cap (S \X S)

\* Keys are forgotten in all three places, and forgetting none changes nothing.
LEMMA Forgetting ==
    /\ \A S : Retain(S) => Forgets(S)
    /\ TypeOK /\ UNCHANGED <<older, hits, locked>> => Forgets(Keys)
<1>1. \A S : Retain(S) => Forgets(S)
  BY DEF Retain, Keep, Tracked, Forgets
<1>2. ASSUME TypeOK, UNCHANGED <<older, hits, locked>> PROVE Forgets(Keys)
  BY <1>2 DEF TypeOK, Tracked, Forgets
<1> QED
  BY <1>1, <1>2

\* Until a failure is reported, time passing and keys forgotten with their
\* lockout change nothing that was said of the others.
LEMMA ForgetD ==
    ASSUME DInv, NEW S \in SUBSET Keys, Forgets(S), now' \in Nat, now =< now', log' = log,
           trying' \in [Workers -> Keys \cup {None}]
    PROVE  DInv'
<1> USE DEF DInv
<1>1. /\ Tracked' = Tracked \cap S /\ \A k \in Tracked' : hits'[k] = hits[k]
      /\ DOMAIN locked' = DOMAIN locked \cap S
      /\ \A k \in DOMAIN locked' : locked'[k] = locked[k]
      /\ older' = older \cap (S \X S)
  BY DEF Forgets
<1>2. TypeOK'
  BY <1>1 DEF TypeOK
<1>3. MemoryBounded'
  <2>1. Tracked \in SUBSET Keys /\ Tracked' \subseteq Tracked
    BY <1>1 DEF TypeOK
  <2>2. /\ Cardinality(Tracked') =< Cardinality(Tracked) /\ Cardinality(Tracked) \in Nat
        /\ Cardinality(Tracked') \in Nat
    BY <2>1, KeysFinite, FS_Subset
  <2> QED
    BY <1>1, <2>2, LimiterAssumption DEF MemoryBounded
<1>4. Transitive'
  BY <1>1 DEF Transitive
<1>5. Times'
  <2>1. \A k \in Tracked : \A i \in 1 .. Len(hits[k]) : hits[k][i] \in Nat
    BY DEF TypeOK
  <2>2. now \in Nat /\ Lockout \in Nat /\ \A k \in DOMAIN locked : locked[k] \in Nat
    BY LimiterAssumption DEF TypeOK
  <2> QED
    BY <1>1, <2>1, <2>2 DEF Times
<1>6. Numbered' /\ Logged' /\ LockedForCause'
  BY <1>1 DEF Numbered, Logged, LockedForCause
<1> QED
  BY <1>2, <1>3, <1>4, <1>5, <1>6

\* Until a failure is reported the dictionaries only shrink.
LEMMA QuietD ==
    ASSUME DInv, Tick \/ (\E w \in Workers, k \in Keys : Enter(w, k))
                 \/ (\E w \in Workers : Succeed(w) \/ Pass(w)) \/ UNCHANGED vars
    PROVE  DInv'
<1>1. TypeOK /\ now \in Nat /\ trying \in [Workers -> Keys \cup {None}]
  BY DEF DInv, TypeOK
<1>2. CASE Tick \/ UNCHANGED vars
  <2>1. Forgets(Keys) /\ now' \in Nat /\ now =< now' /\ log' = log /\ trying' = trying
    BY <1>1, <1>2, Forgetting DEF Tick, vars
  <2> QED
    BY <1>1, <2>1, ForgetD
<1>3. ASSUME NEW w \in Workers, NEW k \in Keys, Enter(w, k) PROVE DInv'
  <2>1. now' = now /\ log' = log /\ trying' \in [Workers -> Keys \cup {None}]
    BY <1>1, <1>3 DEF Enter
  <2>2. Forgets(Keys \ {k}) \/ Forgets(Keys)
    BY <1>1, <1>3, Forgetting DEF Enter
  <2>3. Keys \ {k} \in SUBSET Keys /\ Keys \in SUBSET Keys
    OBVIOUS
  <2> QED
    BY <1>1, <2>1, <2>2, <2>3, ForgetD
<1>4. ASSUME NEW w \in Workers, Succeed(w) \/ Pass(w) PROVE DInv'
  <2>1. now' = now /\ log' = log /\ trying' \in [Workers -> Keys \cup {None}]
    BY <1>1, <1>4 DEF Succeed, Pass
  <2>2. Forgets(Keys \ {trying[w]}) \/ Forgets(Keys)
    BY <1>1, <1>4, Forgetting DEF Succeed, Pass
  <2>3. Keys \ {trying[w]} \in SUBSET Keys /\ Keys \in SUBSET Keys
    OBVIOUS
  <2> QED
    BY <1>1, <2>1, <2>2, <2>3, ForgetD
<1> QED
  BY <1>2, <1>3, <1>4

\* What a report keeps of the dictionaries leaves room for its own key.
LEMMA KeptFits ==
    ASSUME DInv, NEW k \in Keys
    PROVE  /\ Kept(k) \subseteq Tracked /\ (k \in Tracked => Kept(k) = Tracked)
           /\ Cardinality(Kept(k) \cup {k}) =< MaxKeys
<1>1. /\ TypeOK /\ Transitive /\ Cardinality(Tracked) =< MaxKeys
      /\ Tracked \in SUBSET Keys /\ Survivors \in SUBSET Keys /\ Survivors \subseteq Tracked
  BY DEF DInv, MemoryBounded, TypeOK, Survivors
<1>2. /\ IsFiniteSet(Tracked) /\ Cardinality(Tracked) \in Nat /\ MaxKeys \in Nat \ {0}
      /\ IsFiniteSet(Survivors) /\ Cardinality(Survivors) \in Nat
  BY <1>1, KeysFinite, LimiterAssumption
<1>3. CASE k \in Tracked
  <2>1. Kept(k) = Tracked /\ Kept(k) \cup {k} = Tracked
    BY <1>3 DEF Kept
  <2> QED
    BY <1>1, <2>1
<1>4. CASE k \notin Tracked
  <2>1. Kept(k) \subseteq Tracked /\ k \notin Kept(k) /\ IsFiniteSet(Kept(k))
    BY <1>1, <1>2, <1>4 DEF Kept
  <2>2. Cardinality(Kept(k)) \in Nat /\ Cardinality(Kept(k)) =< MaxKeys - 1
    <3>1. Cardinality(Survivors) =< MaxKeys - 1
      BY <1>1, RoomForOne
    <3> QED
      BY <1>2, <1>4, <3>1 DEF Kept
  <2>3. Cardinality(Kept(k) \cup {k}) = Cardinality(Kept(k)) + 1
    BY <2>1, FS_AddElement
  <2> QED
    BY <1>2, <1>4, <2>1, <2>2, <2>3
<1> QED
  BY <1>3, <1>4

\* What is new after a report of a failure of key k.
Reports(k) ==
    /\ Tracked' = Kept(k) \cup {k}
    /\ hits'[k] = Recent(k) /\ \A j \in Kept(k) \ {k} : hits'[j] = hits[j]
    /\ DOMAIN locked' = (DOMAIN locked \cap Kept(k)) \cup (IF TooMany(k) THEN {k} ELSE {})
    /\ \A j \in DOMAIN locked' :
          locked'[j] = IF j = k /\ TooMany(k) THEN now + Lockout ELSE locked[j]
    /\ older' = (older \cap (Kept(k) \X Kept(k)))
                  \cup (IF k \notin Tracked THEN Kept(k) \X {k} ELSE {})
    /\ log' = log \cup {<<k, now, Cardinality(log)>>}
    /\ now' = now
    /\ trying' \in [Workers -> Keys \cup {None}]

\* A report is for a key.
LEMMA Reporting == ASSUME TypeOK, NEW w \in Workers, Fail(w) PROVE \E k \in Keys : Reports(k)
<1>1. PICK k \in Keys : trying[w] = k
  BY DEF TypeOK, Fail
<1> DEFINE kept == IF k \notin Tracked /\ Cardinality(Tracked) >= MaxKeys THEN Survivors ELSE Tracked
           lockedNow == (DOMAIN locked \cap kept) \cup (IF TooMany(k) THEN {k} ELSE {})
<1>2. /\ older' = (older \cap (kept \X kept)) \cup (IF k \notin Tracked THEN kept \X {k} ELSE {})
      /\ hits' = [j \in kept \cup {k} |-> IF j = k THEN Recent(k) ELSE hits[j]]
      /\ locked' = [j \in lockedNow |-> IF j = k /\ TooMany(k) THEN now + Lockout ELSE locked[j]]
      /\ log' = log \cup {<<k, now, Cardinality(log)>>}
      /\ trying' = [trying EXCEPT ![w] = None] /\ now' = now
  BY <1>1 DEF Fail
<1>3. kept = Kept(k)
  BY DEF Kept
<1>4. trying' \in [Workers -> Keys \cup {None}]
  BY <1>2 DEF TypeOK
<1> HIDE DEF kept
<1> QED
  BY <1>2, <1>3, <1>4 DEF Reports, Tracked

\* A report is numbered after all the others, so it is not among them.
LEMMA ReportIsNew ==
    ASSUME DInv, NEW k \in Keys, Reports(k)
    PROVE  /\ Numbered' /\ <<k, now, Cardinality(log)>> \notin log
           /\ Cardinality(log) \in Nat
<1> DEFINE e == <<k, now, Cardinality(log)>>
<1>1. IsFiniteSet(log) /\ Cardinality(log) \in Nat /\ \A d \in log : d[3] \in Nat /\ d[3] < Cardinality(log)
  BY FS_CardinalityType DEF DInv, Numbered
<1>2. e[3] = Cardinality(log) /\ e \notin log
  BY <1>1
<1>3. log' = log \cup {e}
  BY DEF Reports
<1> HIDE DEF e
<1>4. IsFiniteSet(log') /\ Cardinality(log') = Cardinality(log) + 1
  BY <1>1, <1>2, <1>3, FS_AddElement
<1>5. Numbered'
  BY <1>1, <1>2, <1>3, <1>4 DEF Numbered
<1> QED
  BY <1>1, <1>2, <1>5 DEF e

\* The rest of a sequence of numbers after its first c.
LEMMA Suffix ==
    ASSUME NEW s \in Seq(Nat), NEW c \in 0 .. Len(s) - 1
    PROVE  /\ SubSeq(s, c + 1, Len(s)) \in Seq(Nat)
           /\ Len(SubSeq(s, c + 1, Len(s))) = Len(s) - c /\ Len(s) - c \in Nat \ {0}
           /\ \A i \in 1 .. Len(s) - c :
                 SubSeq(s, c + 1, Len(s))[i] = s[i + c] /\ i + c \in c + 1 .. Len(s)
<1>1. Len(s) \in Nat /\ c \in Nat /\ c < Len(s)
  OBVIOUS
<1> DEFINE rest == SubSeq(s, c + 1, Len(s))
<1>2. rest \in Seq(Nat) /\ Len(rest) = Len(s) - c
  BY <1>1
<1>3. ASSUME NEW i \in 1 .. Len(rest) PROVE rest[i] = s[i + c] /\ i + c \in c + 1 .. Len(s)
  <2>1. i + c \in c + 1 .. Len(s)
    BY <1>1, <1>2
  <2>2. rest[i] = s[c + 1 + i - 1] /\ c + 1 + i - 1 = i + c
    BY <1>1, <1>2
  <2> QED
    BY <2>1, <2>2
<1>4. Len(s) - c \in Nat \ {0}
  BY <1>1
<1> QED
  BY <1>2, <1>3, <1>4

\* The failures left in the window are the last of those matched with the log
\* before, and the one reported now is matched with its own entry.
LEMMA ReportLogged ==
    ASSUME DInv, NEW k \in Keys, Reports(k)
    PROVE  /\ Recent(k) \in Seq(Nat) /\ Recent(k) # <<>>
           /\ \A i, j \in 1 .. Len(Recent(k)) :
                 /\ i =< j => Recent(k)[i] =< Recent(k)[j]
                 /\ Recent(k)[i] \in now - Window + 1 .. now
           /\ \E f : Matches(f, k, Recent(k), log')
<1> DEFINE all == All(k)
           n == Len(all)
           e == <<k, now, Cardinality(log)>>
<1>1. PICK c \in 0 .. n - 1 :
         /\ Recent(k) = SubSeq(all, c + 1, n)
         /\ \A i \in c + 1 .. n : all[i] \in now - Window + 1 .. now
  BY RecentIsWindow DEF DInv
<1>2. /\ all \in Seq(Nat) /\ n = Counted(k) + 1 /\ all[n] = now /\ Counted(k) \in Nat
      /\ k \in Tracked => \A i \in 1 .. Counted(k) : all[i] = hits[k][i]
      /\ \A i, j \in 1 .. n : i =< j => all[i] =< all[j]
  <2>1. CASE k \in Tracked
    <3> DEFINE s == hits[k]
    <3>1. /\ s \in Seq(Nat) /\ now \in Nat
          /\ \A i, j \in 1 .. Len(s) : (i =< j => s[i] =< s[j]) /\ s[i] =< now
      BY <2>1 DEF DInv, TypeOK, Times
    <3>2. all = Append(s, now) /\ Counted(k) = Len(s)
      BY <2>1 DEF All, Counted
    <3> HIDE DEF s, all
    <3>3. /\ all \in Seq(Nat) /\ n = Counted(k) + 1 /\ all[n] = now /\ Counted(k) \in Nat
          /\ \A i \in 1 .. Counted(k) : all[i] = s[i]
          /\ \A i, j \in 1 .. n : i =< j => all[i] =< all[j]
      BY <3>1, <3>2
    <3> QED
      BY <3>3 DEF s
  <2>2. CASE k \notin Tracked
    BY <2>2 DEF DInv, TypeOK, All, Counted
  <2> QED
    BY <2>1, <2>2
<1>3. \E f : Matches(f, k, all, log \cup {e})
  <2>1. e \notin log /\ e[1] = k /\ e[2] = now
    BY ReportIsNew
  <2>2. CASE k \in Tracked
    <3>1. PICK f : Matches(f, k, hits[k], log)
      BY <2>2 DEF DInv, Logged
    <3> DEFINE g == [i \in 1 .. n |-> IF i = n THEN e ELSE f[i]]
    <3> HIDE DEF e, all
    <3>2. Counted(k) = Len(hits[k])
      BY <2>2 DEF Counted
    <3>3. \A i \in 1 .. n : i # n => i \in 1 .. Len(hits[k]) /\ f[i] \in log
      <4>1. \A i \in 1 .. n : i # n => i \in 1 .. Len(hits[k])
        BY <1>2, <3>2
      <4> QED
        BY <3>1, <4>1 DEF Matches
    <3>4. g \in [1 .. n -> log \cup {e}]
      BY <3>3
    <3>5. \A i \in 1 .. n : g[i][1] = k /\ g[i][2] = all[i]
      BY <1>2, <2>1, <2>2, <3>1, <3>2, <3>3 DEF Matches
    <3>6. \A i, j \in 1 .. n : g[i] = g[j] => i = j
      BY <2>1, <3>1, <3>3 DEF Matches
    <3> QED
      BY <3>4, <3>5, <3>6 DEF Matches
  <2>3. CASE k \notin Tracked
    <3> DEFINE g == [i \in 1 .. n |-> e]
    <3> HIDE DEF e, all
    <3>1. n = 1
      BY <1>2, <2>3 DEF Counted
    <3>2. all[1] = now /\ g \in [1 .. n -> log \cup {e}] /\ \A i \in 1 .. n : g[i] = e
      BY <1>2, <3>1
    <3>4. \A i \in 1 .. n : i = 1
      BY <3>1
    <3> HIDE DEF g
    <3>3. Matches(g, k, all, log \cup {e})
      BY <2>1, <3>2, <3>4 DEF Matches
    <3> QED
      BY <3>3
  <2> QED
    BY <2>2, <2>3
<1> HIDE DEF all, e
<1>4. /\ Recent(k) \in Seq(Nat) /\ Len(Recent(k)) = n - c /\ n - c \in Nat \ {0}
      /\ \A i \in 1 .. Len(Recent(k)) : Recent(k)[i] = all[i + c] /\ i + c \in c + 1 .. n
  <2>1. all \in Seq(Nat) /\ c \in 0 .. Len(all) - 1
    BY <1>1, <1>2
  <2>2. /\ SubSeq(all, c + 1, n) \in Seq(Nat)
        /\ Len(SubSeq(all, c + 1, n)) = n - c /\ n - c \in Nat \ {0}
        /\ \A i \in 1 .. n - c : SubSeq(all, c + 1, n)[i] = all[i + c] /\ i + c \in c + 1 .. n
    BY <2>1, Suffix
  <2> QED
    BY <1>1, <2>2
<1>5. \E f : Matches(f, k, Recent(k), log \cup {e})
  <2>1. PICK f : Matches(f, k, all, log \cup {e})
    BY <1>3
  <2> DEFINE g == [i \in 1 .. Len(Recent(k)) |-> f[i + c]]
  <2>2. \A i \in 1 .. Len(Recent(k)) : i + c \in 1 .. n
    BY <1>1, <1>2, <1>4
  <2>3. g \in [1 .. Len(Recent(k)) -> log \cup {e}]
    BY <2>1, <2>2 DEF Matches
  <2>4. \A i \in 1 .. Len(Recent(k)) : g[i][1] = k /\ g[i][2] = Recent(k)[i]
    BY <1>4, <2>1, <2>2 DEF Matches
  <2>5. \A i, j \in 1 .. Len(Recent(k)) : g[i] = g[j] => i = j
    <3> SUFFICES ASSUME NEW i \in 1 .. Len(Recent(k)), NEW j \in 1 .. Len(Recent(k)), f[i + c] = f[j + c]
                 PROVE  i = j
      OBVIOUS
    <3>1. i + c = j + c
      BY <2>1, <2>2 DEF Matches
    <3> QED
      BY <1>4, <3>1
  <2> HIDE DEF g
  <2>6. Matches(g, k, Recent(k), log \cup {e})
    BY <2>3, <2>4, <2>5 DEF Matches
  <2> QED
    BY <2>6
<1>6. ASSUME NEW i \in 1 .. Len(Recent(k)), NEW j \in 1 .. Len(Recent(k))
      PROVE  /\ i =< j => Recent(k)[i] =< Recent(k)[j]
             /\ Recent(k)[i] \in now - Window + 1 .. now
  <2>1. /\ Recent(k)[i] = all[i + c] /\ i + c \in c + 1 .. n
        /\ Recent(k)[j] = all[j + c] /\ j + c \in c + 1 .. n
    BY <1>4
  <2>2. i + c \in 1 .. n /\ j + c \in 1 .. n /\ (i =< j => i + c =< j + c)
    BY <1>1, <2>1
  <2> QED
    BY <1>1, <1>2, <2>1, <2>2
<1>7. log' = log \cup {e}
  BY DEF Reports, e
<1>8. Recent(k) # <<>>
  BY <1>4
<1> QED
  BY <1>4, <1>5, <1>6, <1>7, <1>8

\* The entries for key k in the window that ends at a time.
InWindow(entries, k, at) == {e \in entries : e[1] = k /\ e[2] \in at - Window + 1 .. at}

\* Whom a growing log has locked out for a cause stays locked out for one.
LEMMA WindowGrows ==
    ASSUME NEW L, NEW M, IsFiniteSet(M), L \subseteq M, NEW k, NEW at
    PROVE  /\ Cardinality(InWindow(L, k, at)) =< Cardinality(InWindow(M, k, at))
           /\ Cardinality(InWindow(L, k, at)) \in Nat
           /\ IsFiniteSet(InWindow(M, k, at)) /\ Cardinality(InWindow(M, k, at)) \in Nat
<1>1. InWindow(L, k, at) \subseteq InWindow(M, k, at) /\ InWindow(M, k, at) \subseteq M
  BY DEF InWindow
<1>2. IsFiniteSet(InWindow(M, k, at)) /\ Cardinality(InWindow(M, k, at)) \in Nat
  BY <1>1, FS_Subset, FS_CardinalityType
<1>3. /\ IsFiniteSet(InWindow(L, k, at)) /\ Cardinality(InWindow(L, k, at)) \in Nat
      /\ Cardinality(InWindow(L, k, at)) =< Cardinality(InWindow(M, k, at))
  BY <1>1, <1>2, FS_Subset, FS_CardinalityType
<1> QED
  BY <1>2, <1>3

\* A report keeps the invariant: it evicts what must go, keeps the order, and
\* whom it locks out has the failures for it in the log.
LEMMA ReportD == ASSUME DInv, NEW k \in Keys, Reports(k) PROVE DInv'
<1> DEFINE kept == Kept(k)
<1>1. /\ TypeOK /\ MemoryBounded /\ Transitive /\ Times /\ Logged /\ LockedForCause
      /\ MaxFailures \in Nat \ {0} /\ Lockout \in Nat \ {0} /\ Window \in Nat \ {0}
      /\ now \in Nat
  BY LimiterAssumption DEF DInv, TypeOK
<1>2. /\ kept \subseteq Tracked /\ (k \in Tracked => kept = Tracked)
      /\ Cardinality(kept \cup {k}) =< MaxKeys
  BY KeptFits
<1>3. /\ Recent(k) \in Seq(Nat) /\ Recent(k) # <<>>
      /\ \A i, j \in 1 .. Len(Recent(k)) :
            /\ i =< j => Recent(k)[i] =< Recent(k)[j]
            /\ Recent(k)[i] \in now - Window + 1 .. now
      /\ \E f : Matches(f, k, Recent(k), log')
  BY ReportLogged
<1>4. Numbered' /\ log \subseteq log' /\ IsFiniteSet(log')
  BY ReportIsNew DEF Numbered, Reports
<1> HIDE DEF kept
<1>5. /\ Tracked' = kept \cup {k} /\ hits'[k] = Recent(k)
      /\ \A j \in kept \ {k} : hits'[j] = hits[j]
      /\ DOMAIN locked' = (DOMAIN locked \cap kept) \cup (IF TooMany(k) THEN {k} ELSE {})
      /\ \A j \in DOMAIN locked' :
            locked'[j] = IF j = k /\ TooMany(k) THEN now + Lockout ELSE locked[j]
      /\ older' = (older \cap (kept \X kept)) \cup (IF k \notin Tracked THEN kept \X {k} ELSE {})
      /\ now' = now /\ trying' \in [Workers -> Keys \cup {None}]
  BY DEF Reports, kept
<1>6. \A j \in Tracked' : j = k \/ (j \in kept \ {k} /\ j \in Tracked /\ hits'[j] = hits[j])
  BY <1>2, <1>5
<1>7. TypeOK'
  <2>1. \A j \in Tracked' : hits'[j] \in Seq(Nat) /\ hits'[j] # <<>>
    BY <1>1, <1>3, <1>5, <1>6 DEF TypeOK
  <2>2. older' \subseteq Tracked' \X Tracked'
    BY <1>5
  <2>3. \A i, j \in Tracked' : i = j \/ (<<i, j>> \in older' <=> <<j, i>> \notin older')
    <3>1. CASE k \in Tracked
      <4>1. kept = Tracked /\ Tracked' = Tracked /\ older' = older
        BY <1>1, <1>2, <1>5, <3>1 DEF TypeOK
      <4> QED
        BY <1>1, <4>1 DEF TypeOK
    <3>2. CASE k \notin Tracked
      <4>1. k \notin kept /\ older' = (older \cap (kept \X kept)) \cup (kept \X {k})
        BY <1>2, <1>5, <3>2
      <4>2. \A i \in kept : <<i, k>> \in older' /\ <<k, i>> \notin older'
        BY <4>1
      <4>3. \A i, j \in kept : <<i, j>> \in older' <=> <<i, j>> \in older
        BY <4>1
      <4>4. \A i, j \in kept : i = j \/ (<<i, j>> \in older <=> <<j, i>> \notin older)
        BY <1>1, <1>2 DEF TypeOK
      <4> QED
        BY <1>5, <4>2, <4>3, <4>4
    <3> QED
      BY <3>1, <3>2
  <2>4. Tracked' \subseteq Keys /\ now' \in Nat
    BY <1>1, <1>2, <1>5 DEF TypeOK
  <2>5. DOMAIN locked' \subseteq Keys /\ \A j \in DOMAIN locked' : locked'[j] \in Nat
    BY <1>1, <1>2, <1>5 DEF TypeOK
  <2> QED
    BY <1>5, <2>1, <2>2, <2>3, <2>4, <2>5 DEF TypeOK
<1>8. MemoryBounded'
  BY <1>2, <1>5 DEF MemoryBounded
<1>9. Transitive'
  <2>1. CASE k \in Tracked
    <3>1. kept = Tracked /\ Tracked' = Tracked /\ older' = older
      BY <1>1, <1>2, <1>5, <2>1 DEF TypeOK
    <3> QED
      BY <1>1, <3>1 DEF Transitive
  <2>2. CASE k \notin Tracked
    <3>1. k \notin kept /\ older' = (older \cap (kept \X kept)) \cup (kept \X {k})
      BY <1>2, <1>5, <2>2
    <3> SUFFICES ASSUME NEW h \in Tracked', NEW i \in Tracked', NEW j \in Tracked',
                        <<h, i>> \in older', <<i, j>> \in older'
                 PROVE  <<h, j>> \in older'
      BY DEF Transitive
    <3>2. h \in kept /\ i \in kept /\ <<h, i>> \in older
      BY <3>1
    <3>3. CASE j = k
      BY <3>1, <3>2, <3>3
    <3>4. CASE j # k
      <4>1. j \in kept /\ <<i, j>> \in older
        BY <3>1, <3>4
      <4>2. <<h, j>> \in older
        BY <1>1, <1>2, <3>2, <4>1 DEF Transitive
      <4> QED
        BY <3>1, <3>2, <4>1, <4>2
    <3> QED
      BY <3>3, <3>4
  <2> QED
    BY <2>1, <2>2
<1>10. Times'
  <2>1. \A j \in Tracked' : \A h, i \in 1 .. Len(hits'[j]) :
          (h =< i => hits'[j][h] =< hits'[j][i]) /\ hits'[j][h] =< now
    <3> SUFFICES ASSUME NEW j \in Tracked', NEW h \in 1 .. Len(hits'[j]), NEW i \in 1 .. Len(hits'[j])
                 PROVE  (h =< i => hits'[j][h] =< hits'[j][i]) /\ hits'[j][h] =< now
      OBVIOUS
    <3>1. CASE j = k
      BY <1>1, <1>3, <1>5, <3>1
    <3>2. CASE j # k
      BY <1>1, <1>6, <3>2 DEF Times
    <3> QED
      BY <3>1, <3>2
  <2>2. \A j \in DOMAIN locked' : locked'[j] =< now + Lockout
    BY <1>1, <1>5 DEF Times
  <2> QED
    BY <1>5, <2>1, <2>2 DEF Times
<1>11. Logged'
  <2> SUFFICES ASSUME NEW j \in Tracked' PROVE \E f : Matches(f, j, hits'[j], log')
    BY DEF Logged
  <2>1. CASE j = k
    BY <1>3, <1>5, <2>1
  <2>2. CASE j # k
    <3>1. PICK f : Matches(f, j, hits[j], log)
      BY <1>1, <1>6, <2>2 DEF Logged
    <3>2. Matches(f, j, hits[j], log')
      BY <1>4, <3>1 DEF Matches
    <3> QED
      BY <1>6, <2>2, <3>2
  <2> QED
    BY <2>1, <2>2
<1>12. LockedForCause'
  <2> SUFFICES ASSUME NEW j \in DOMAIN locked'
               PROVE  Cardinality(InWindow(log', j, locked'[j] - Lockout)) >= MaxFailures
    BY DEF LockedForCause, InWindow
  <2>1. CASE j = k /\ TooMany(k)
    <3>1. locked'[j] - Lockout = now
      BY <1>1, <1>5, <2>1
    <3>2. PICK f : Matches(f, k, Recent(k), log')
      BY <1>3
    <3> DEFINE times == 1 .. Len(Recent(k))
               window == InWindow(log', k, now)
    <3>3. f \in [times -> log'] /\ \A i \in times : f[i] \in window
      BY <1>3, <3>2 DEF Matches, InWindow
    <3>4. Len(Recent(k)) \in Nat /\ Len(Recent(k)) >= MaxFailures
      BY <1>3, <2>1 DEF TooMany
    <3>5. Cardinality(times) = Len(Recent(k))
      BY <3>4, UpTo
    <3>6. IsFiniteSet(window) /\ Cardinality(window) \in Nat
      BY <1>4, WindowGrows
    <3>7. \A h, i \in times : f[h] = f[i] => h = i
      BY <3>2 DEF Matches
    <3> HIDE DEF times, window
    <3>8. f \in Injection(times, window)
      BY <3>3, <3>7 DEF Injection, IsInjective
    <3>9. Cardinality(times) =< Cardinality(window)
      BY <3>6, <3>8, FS_Injection
    <3>10. Cardinality(window) >= MaxFailures
      BY <1>1, <3>4, <3>5, <3>6, <3>9
    <3> QED
      BY <2>1, <3>1, <3>10 DEF window
  <2>2. CASE ~(j = k /\ TooMany(k))
    <3>1. j \in DOMAIN locked /\ locked'[j] = locked[j]
      BY <1>5, <2>2
    <3> DEFINE at == locked[j] - Lockout
    <3>2. Cardinality(InWindow(log, j, at)) >= MaxFailures
      BY <1>1, <3>1 DEF LockedForCause, InWindow
    <3>3. /\ Cardinality(InWindow(log, j, at)) =< Cardinality(InWindow(log', j, at))
          /\ Cardinality(InWindow(log, j, at)) \in Nat /\ Cardinality(InWindow(log', j, at)) \in Nat
      BY <1>4, WindowGrows
    <3>4. Cardinality(InWindow(log', j, at)) >= MaxFailures
      <4> HIDE DEF at
      <4> QED
        BY <1>1, <3>2, <3>3
    <3> QED
      BY <3>1, <3>4
  <2> QED
    BY <2>1, <2>2
<1> QED
  BY <1>4, <1>7, <1>8, <1>9, <1>10, <1>11, <1>12 DEF DInv

\* The invariant holds of every reachable state.
THEOREM DictionariesSound == Spec => []DInv
<1>1. Init => DInv
  <2> SUFFICES ASSUME Init PROVE DInv
    OBVIOUS
  <2>1. Tracked = {} /\ DOMAIN locked = {} /\ older = {} /\ log = {} /\ now = 0
        /\ trying \in [Workers -> Keys \cup {None}]
    BY DEF Init, Tracked
  <2> QED
    BY <2>1, FS_EmptySet, LimiterAssumption
    DEF DInv, TypeOK, MemoryBounded, Transitive, Times, Numbered, Logged, LockedForCause
<1>2. DInv /\ [Next]_vars => DInv'
  <2>1. ASSUME DInv, NEW w \in Workers, Fail(w) PROVE DInv'
    BY <2>1, Reporting, ReportD DEF DInv
  <2> QED
    BY <2>1, QuietD DEF Next
<1> QED
  BY <1>1, <1>2, PTL DEF Spec

\* The dictionaries hold keys, times and an order of insertion, always.
THEOREM TypeCorrect == Spec => []TypeOK
BY DictionariesSound, PTL DEF DInv

\* However many keys are tried, at most max_keys are held, and
\* no lockout without the failures it rests on.
THEOREM MemoryStaysBounded == Spec => []MemoryBounded
BY DictionariesSound, PTL DEF DInv

\* Nobody is locked out but for max_failures failures reported inside one window.
THEOREM OnlyLockedForCause == Spec => []LockedForCause
BY DictionariesSound, PTL DEF DInv

\* Who is evicted with a lockout running was the oldest of a full dictionary,
\* and only that one goes: all the others have fewer keys behind them.
LEMMA OneEvicted ==
    ASSUME DInv, NEW j \in Keys, Reports(j), NEW k \in Keys, LockedOut(k), k \notin Kept(j)
    PROVE  Cardinality(Tracked') = MaxKeys
<1>1. /\ TypeOK /\ Transitive /\ Cardinality(Tracked) =< MaxKeys /\ k \in Tracked
      /\ Tracked \in SUBSET Keys
  BY DEF DInv, MemoryBounded, TypeOK, LockedOut
<1>2. /\ IsFiniteSet(Tracked) /\ Cardinality(Tracked) \in Nat /\ MaxKeys \in Nat \ {0}
  BY <1>1, KeysFinite, LimiterAssumption
<1>3. j \notin Tracked /\ Kept(j) = Survivors
  BY <1>1 DEF Kept
<1> DEFINE S == {i \in Tracked : Expired(i) => LockedOut(i)}
<1>4. Survivors = {i \in S : Cardinality(From(i, S)) < MaxKeys}
  BY DEF Survivors
<1>5. k \in S /\ S \subseteq Tracked
  BY <1>1
<1> HIDE DEF S
<1>6. From(k, S) \subseteq S /\ IsFiniteSet(S) /\ Cardinality(S) \in Nat
      /\ Cardinality(From(k, S)) \in Nat /\ Cardinality(S) =< Cardinality(Tracked)
  <2>1. From(k, S) \in SUBSET Keys /\ S \in SUBSET Keys /\ From(k, S) \subseteq S
    BY <1>1, <1>5 DEF From
  <2> QED
    BY <1>2, <1>5, <2>1, KeysFinite, FS_Subset
<1>7. Cardinality(From(k, S)) >= MaxKeys
  BY <1>2, <1>3, <1>4, <1>5, <1>6
<1>8. From(k, S) = S /\ Cardinality(S) = MaxKeys
  <2>1. Cardinality(From(k, S)) =< Cardinality(S)
    BY <1>6, FS_Subset
  <2>2. Cardinality(S) = Cardinality(From(k, S)) /\ Cardinality(S) = MaxKeys
    BY <1>1, <1>2, <1>6, <1>7, <2>1
  <2> QED
    BY <1>6, <2>2, FS_Subset
<1>9. Survivors = S \ {k}
  <2>1. ASSUME NEW i \in S, i # k PROVE Cardinality(From(i, S)) < MaxKeys
    <3>1. <<k, i>> \in older
      BY <1>8, <2>1 DEF From
    <3> QED
      BY <1>1, <1>5, <1>8, <2>1, <3>1, OlderHasMore
  <2>2. ~(Cardinality(From(k, S)) < MaxKeys)
    BY <1>2, <1>6, <1>7
  <2> QED
    BY <1>4, <2>1, <2>2
<1>10. Cardinality(S \ {k}) = MaxKeys - 1 /\ IsFiniteSet(S \ {k})
  BY <1>5, <1>6, <1>8, FS_RemoveElement
<1>11. Tracked' = (S \ {k}) \cup {j} /\ j \notin S \ {k}
  BY <1>3, <1>5, <1>9 DEF Reports
<1>12. Cardinality((S \ {k}) \cup {j}) = Cardinality(S \ {k}) + 1
  BY <1>10, <1>11, FS_AddElement
<1> QED
  BY <1>2, <1>10, <1>11, <1>12

\* A running lockout is served to its end, unless the key logs in or is evicted
\* with the dictionary full: letting others through, their reports and further
\* reports of its own never shorten it.
THEOREM LockoutsServed == Spec => LockoutServed
<1>1. ASSUME DInv, [Next]_vars, NEW k \in Keys, LockedOut(k), now' = now
      PROVE  \/ k \in DOMAIN locked' /\ locked'[k] >= locked[k]
             \/ log' = log /\ \E w \in Trying(k) : trying'[w] = None
             \/ Cardinality(DOMAIN hits') = MaxKeys
  <2>1. k \in DOMAIN locked /\ locked[k] \in Nat /\ locked[k] =< now + Lockout /\ k \in Tracked
        /\ now \in Nat /\ Lockout \in Nat
    BY <1>1, LimiterAssumption DEF DInv, TypeOK, MemoryBounded, Times, LockedOut
  <2>2. CASE Tick \/ UNCHANGED vars
    BY <1>1, <2>1, <2>2 DEF Tick, vars
  <2>3. ASSUME NEW w \in Workers, NEW j \in Keys, Enter(w, j)
        PROVE  k \in DOMAIN locked' /\ locked'[k] >= locked[k]
    BY <1>1, <2>1, <2>3 DEF Enter, Retain, Keep
  <2>4. ASSUME NEW w \in Workers, Pass(w)
        PROVE  k \in DOMAIN locked' /\ locked'[k] >= locked[k]
    BY <2>1, <2>4 DEF Pass
  <2>5. ASSUME NEW w \in Workers, Succeed(w)
        PROVE  \/ k \in DOMAIN locked' /\ locked'[k] >= locked[k]
               \/ log' = log /\ \E v \in Trying(k) : trying'[v] = None
    <3>1. CASE trying[w] = k
      <4>1. w \in Trying(k) /\ trying'[w] = None /\ log' = log
        BY <1>1, <2>5, <3>1 DEF Trying, Succeed, DInv, TypeOK
      <4> QED
        BY <4>1
    <3>2. CASE trying[w] # k
      BY <2>1, <2>5, <3>2 DEF Succeed, Retain, Keep
    <3> QED
      BY <3>1, <3>2
  <2>6. ASSUME NEW w \in Workers, Fail(w)
        PROVE  \/ k \in DOMAIN locked' /\ locked'[k] >= locked[k]
               \/ Cardinality(DOMAIN hits') = MaxKeys
    <3>1. PICK j \in Keys : Reports(j)
      BY <1>1, <2>6, Reporting DEF DInv
    <3>2. CASE k \in Kept(j)
      BY <2>1, <3>1, <3>2 DEF Reports
    <3>3. CASE k \notin Kept(j)
      BY <1>1, <3>1, <3>3, OneEvicted DEF Tracked
    <3> QED
      BY <3>2, <3>3
  <2> QED
    BY <1>1, <2>2, <2>3, <2>4, <2>5, <2>6 DEF Next
<1>2. ASSUME DInv, [Next]_vars
      PROVE  [\A k \in Keys : LockedOut(k) /\ now' = now =>
                 \/ k \in DOMAIN locked' /\ locked'[k] >= locked[k]
                 \/ log' = log /\ \E w \in Trying(k) : trying'[w] = None
                 \/ Cardinality(DOMAIN hits') = MaxKeys]_vars
  BY <1>1, <1>2
<1> QED
  BY <1>2, DictionariesSound, PTL DEF Spec, LockoutServed
=============================================================================
