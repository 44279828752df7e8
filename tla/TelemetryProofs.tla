---------------------------- MODULE TelemetryProofs ----------------------------
(***************************************************************************)
(* Proofs about Telemetry, for any bounds: of the fingerprint, that a mark *)
(* is not lost; of the history, that a sample in it twice was posted       *)
(* again, and that trimming leaves the latest status.                      *)
(*                                                                         *)
(* MarkInv relates the cache to the machine and to the collection under    *)
(* way.  HistoryInv counts the copies of a sample in the history against   *)
(* the attempts of the heartbeat that carries it.  Trimming keeps rows by  *)
(* how many others are newer, so the lemmas count: an increasing listing   *)
(* of a finite set is a bijection, and an order on rows has a newest one.  *)
(***************************************************************************)
EXTENDS Telemetry, FiniteSetTheorems, FunctionTheorems, SequenceTheorems,
        WellFoundedInduction, TLAPS

\* Versions of the machine that the agent has, is collecting, or was asked for.
Versions ==
    /\ {profile, cache, collecting, marked} \subseteq Nat
    /\ profile <= MaxProfile
    /\ cache <= profile /\ marked <= profile

\* A collection under way started after the one that the cache holds.
CollectsNewer == collecting # NoFp => cache <= collecting /\ collecting <= profile

MarkInv == Versions /\ CollectsNewer /\ NoMarkLost

LEMMA InitMarkInv == Init => MarkInv
BY TelemetryAssumption DEF Init, MarkInv, Versions, CollectsNewer, NoMarkLost, NoFp

\* Every step that touches the fingerprint keeps the invariant.
LEMMA StepMarkInv == MarkInv /\ [Next]_vars => MarkInv'
<1> SUFFICES ASSUME MarkInv, [Next]_vars PROVE MarkInv'
    OBVIOUS
<1> USE TelemetryAssumption
    DEF MarkInv, Versions, CollectsNewer, NoMarkLost, NoFp, clockVars, fpVars
<1>1. CASE Change
  BY <1>1 DEF Change
<1>2. CASE StartCollecting
  BY <1>2 DEF StartCollecting
<1>3. CASE FinishCollecting
  BY <1>3 DEF FinishCollecting
<1>4. CASE FailCollecting
  BY <1>4 DEF FailCollecting
<1>5. CASE Receive
  <2>1. /\ dirty' = (dirty \/ hb.refresh)
        /\ UNCHANGED <<profile, cache, collecting>>
    BY <1>5 DEF Receive
  <2>2. CASE hb.refresh
    <3>1. dirty' /\ marked' = profile
      BY <1>5, <2>1, <2>2 DEF Receive
    <3>2. QED
      BY <2>1, <3>1
  <2>3. CASE ~ hb.refresh
    <3>1. (dirty => dirty') /\ marked' = marked
      BY <1>5, <2>1, <2>3 DEF Receive
    <3>2. QED
      BY <2>1, <3>1
  <2>4. QED
    BY <2>2, <2>3
<1>6. CASE AgentRestart
  BY <1>6 DEF AgentRestart
<1>7. CASE UNCHANGED <<profile, fpVars>>
  BY <1>7
<1>8. QED
  BY <1>1, <1>2, <1>3, <1>4, <1>5, <1>6, <1>7
  DEF Next, vars, GoDown, ComeUp, Sample, Tick, CoolDown, Build, Store, Answer, Unreachable,
      LoseReply, Reject, Post, EndCycle, Ask, ServerRestart

\* A call of mark_dirty during a collection is not swallowed by the end of that
\* collection, since the worker clears the event before it collects.
THEOREM NoMarkLostHolds == Spec => []NoMarkLost
<1>1. MarkInv => NoMarkLost
  BY DEF MarkInv
<1>2. QED
  BY <1>1, InitMarkInv, StepMarkInv, PTL DEF Spec
--------------------------------------------------------------------------------
(* Sets of numbers in ascending order, and the trimming of the history. *)

Ascending(f, n, K) ==
    /\ f \in [1..n -> K]
    /\ \A k, l \in 1..n : k < l => f[k] < f[l]

\* The elements of a finite set can be numbered in ascending order: each gets the
\* number of those below it, plus one, and no number is left over.
LEMMA AscendingExists ==
  ASSUME NEW K, K \subseteq Nat, IsFiniteSet(K)
  PROVE  \E f : Ascending(f, Cardinality(K), K)
<1> DEFINE n == Cardinality(K)
           Below(i) == {j \in K : j < i}
           rank == [i \in K |-> Cardinality(Below(i)) + 1]
<1>1. n \in Nat
  BY FS_CardinalityType
<1>2. \A i \in K : IsFiniteSet(Below(i)) /\ Cardinality(Below(i)) \in Nat
  BY FS_Subset, FS_CardinalityType
<1>3. ASSUME NEW i \in K, NEW j \in K, i < j
      PROVE  Cardinality(Below(i)) < Cardinality(Below(j))
  <2>1. Below(i) \subseteq Below(j) /\ i \in Below(j) /\ i \notin Below(i)
    <3>1. \A k \in K : k \in Nat
      OBVIOUS
    <3>2. \A k \in K : k < i => k < j
      BY <1>3, <3>1
    <3>3. ~(i < i)
      BY <3>1
    <3>4. QED
      BY <1>3, <3>2, <3>3, Zenon
  <2>2. /\ Cardinality(Below(i)) <= Cardinality(Below(j))
        /\ Cardinality(Below(j)) = Cardinality(Below(i)) => Below(j) = Below(i)
    BY <1>2, <2>1, FS_Subset
  <2>3. Cardinality(Below(i)) # Cardinality(Below(j))
    BY <2>1, <2>2
  <2> HIDE DEF Below
  <2>4. QED
    BY <1>2, <2>2, <2>3
<1>4. \A i \in K : Cardinality(Below(i)) < n
  <2> SUFFICES ASSUME NEW i \in K PROVE Cardinality(Below(i)) < n
    OBVIOUS
  <2>1. Below(i) \in SUBSET K /\ i \notin Below(i)
    OBVIOUS
  <2>2. Cardinality(Below(i)) <= n /\ (n = Cardinality(Below(i)) => K = Below(i))
    BY <2>1, FS_Subset
  <2> HIDE DEF Below, n
  <2>3. QED
    BY <1>1, <1>2, <2>1, <2>2
<1> HIDE DEF Below, n
<1>5. \A i \in K : rank[i] \in 1..n
  BY <1>1, <1>2, <1>4
<1>6. \A i, j \in K : i < j => rank[i] < rank[j]
  BY <1>2, <1>3
<1> HIDE DEF rank
<1>7. rank \in Injection(K, 1..n)
  <2>1. rank \in [K -> 1..n]
    BY <1>5 DEF rank
  <2>2. ASSUME NEW i \in K, NEW j \in K, rank[i] = rank[j] PROVE i = j
    <3>1. i \in Nat /\ j \in Nat /\ rank[i] \in Nat /\ rank[j] \in Nat
      BY <1>1, <1>5
    <3>2. ~(i < j) /\ ~(j < i)
      BY <1>6, <2>2, <3>1
    <3>3. QED
      BY <3>1, <3>2
  <2>3. QED
    BY <2>1, <2>2 DEF Injection, IsInjective
<1>8. rank \in Surjection(K, 1..n)
  <2>1. IsFiniteSet(1..n) /\ Cardinality(1..n) = n
    BY <1>1, FS_Interval
  <2>2. QED
    BY <1>7, <2>1, FS_Injection DEF n
<1>9. \A k \in 1..n : \E i \in K : rank[i] = k
  BY <1>8 DEF Surjection
<1> DEFINE f == [k \in 1..n |-> CHOOSE i \in K : rank[i] = k]
<1>10. \A k \in 1..n : f[k] \in K /\ rank[f[k]] = k
  BY <1>9
<1>11. f \in [1..n -> K]
  BY <1>10
<1> HIDE DEF f
<1>12. ASSUME NEW k \in 1..n, NEW l \in 1..n, k < l PROVE f[k] < f[l]
  <2>1. f[k] \in Nat /\ f[l] \in Nat /\ k \in Nat /\ l \in Nat
    <3>1. f[k] \in K /\ f[l] \in K
      BY <1>10
    <3>2. f[k] \in Nat /\ f[l] \in Nat
      BY <3>1, Zenon
    <3>3. k \in Nat /\ l \in Nat
      BY <1>1
    <3>4. QED
      BY <3>2, <3>3
  <2>2. ~(f[l] < f[k]) /\ f[l] # f[k]
    BY <1>6, <1>10, <1>12, <2>1
  <2>3. QED
    BY <2>1, <2>2
<1>13. QED
  BY <1>11, <1>12 DEF Ascending, n

\* An ascending numbering of a finite set leaves out none of its elements, and repeats
\* none.
LEMMA AscendingIsExact ==
  ASSUME NEW K, K \subseteq Nat, IsFiniteSet(K), NEW f, Ascending(f, Cardinality(K), K)
  PROVE  f \in Bijection(1..Cardinality(K), K)
<1> DEFINE n == Cardinality(K)
<1>1. n \in Nat
  BY FS_CardinalityType
<1>2. f \in [1..n -> K] /\ \A k, l \in 1..n : k < l => f[k] < f[l]
  BY DEF Ascending
<1> HIDE DEF n
<1>3. ASSUME NEW k \in 1..n, NEW l \in 1..n, f[k] = f[l] PROVE k = l
  <2>1. f[k] \in Nat /\ k \in Nat /\ l \in Nat
    <3>1. f[k] \in K
      BY <1>2
    <3>2. f[k] \in Nat
      BY <3>1, Zenon
    <3>3. k \in Nat /\ l \in Nat
      BY <1>1
    <3>4. QED
      BY <3>2, <3>3
  <2>2. ~(k < l) /\ ~(l < k)
    BY <1>2, <1>3, <2>1
  <2>3. QED
    BY <2>1, <2>2
<1>4. f \in Injection(1..n, K)
  BY <1>2, <1>3 DEF Injection, IsInjective
<1>5. f \in Surjection(1..n, K)
  <2>1. IsFiniteSet(1..n) /\ Cardinality(1..n) = n
    BY <1>1, FS_Interval
  <2>2. QED
    BY <1>4, <2>1, FS_Injection DEF n
<1>6. QED
  BY <1>4, <1>5 DEF Bijection, n

\* The ids of the rows that trimming keeps.
Kept(s) == {i \in DOMAIN s : Cardinality({j \in DOMAIN s : Newer(s, j, i)}) < Keep}

\* Where the rows that are left stood before: each of them at one place, and they are
\* the rows that are to be kept.
StoodAt(ids, s) ==
    /\ ids \in [DOMAIN Trimmed(s) -> DOMAIN s]
    /\ \A k \in DOMAIN Trimmed(s) : Trimmed(s)[k] = s[ids[k]]
    /\ \A k, l \in DOMAIN Trimmed(s) : ids[k] = ids[l] => k = l
    /\ \A k \in DOMAIN Trimmed(s) : ids[k] \in Kept(s)
    /\ \A i \in Kept(s) : \E k \in DOMAIN Trimmed(s) : ids[k] = i

\* trim_node_status_history leaves rows that were there, and those to be kept.
LEMMA TrimmedProperties ==
  ASSUME NEW S, NEW s \in Seq(S)
  PROVE  Trimmed(s) \in Seq(S) /\ \E ids : StoodAt(ids, s)
<1> DEFINE K == Kept(s)
           n == Cardinality(K)
           at == CHOOSE f \in [1..n -> K] : \A k, l \in DOMAIN f : k < l => f[k] < f[l]
<1>1. DOMAIN s = 1..Len(s) /\ Len(s) \in Nat /\ K \subseteq DOMAIN s
  BY DEF Kept
<1>2. K \subseteq Nat /\ IsFiniteSet(K) /\ n \in Nat
  <2>1. IsFiniteSet(DOMAIN s) /\ DOMAIN s \subseteq Nat
    BY <1>1, FS_Interval
  <2> HIDE DEF K
  <2>2. K \in SUBSET (DOMAIN s)
    BY <1>1
  <2>3. IsFiniteSet(K)
    BY <2>1, <2>2, FS_Subset, Zenon
  <2>4. QED
    BY <2>1, <2>2, <2>3, FS_CardinalityType
<1>3. \E f \in [1..n -> K] : \A k, l \in DOMAIN f : k < l => f[k] < f[l]
  <2> HIDE DEF K
  <2>1. PICK f : Ascending(f, n, K)
    BY <1>2, AscendingExists
  <2> HIDE DEF n
  <2>2. f \in [1..n -> K] /\ \A k, l \in DOMAIN f : k < l => f[k] < f[l]
    BY <2>1 DEF Ascending
  <2>3. QED
    BY <2>2
<1>4. /\ at \in [1..n -> K] /\ \A k, l \in DOMAIN at : k < l => at[k] < at[l]
      /\ Trimmed(s) = [k \in DOMAIN at |-> s[at[k]]]
  BY <1>3 DEF Trimmed, Kept
<1> HIDE DEF at
<1>5. PICK ids : /\ ids \in [1..n -> K]
                 /\ \A k, l \in DOMAIN ids : k < l => ids[k] < ids[l]
                 /\ Trimmed(s) = [k \in DOMAIN ids |-> s[ids[k]]]
  BY <1>4
<1> HIDE DEF K
<1>6. /\ \A k, l \in 1..n : ids[k] = ids[l] => k = l
      /\ \A i \in K : \E k \in 1..n : ids[k] = i
  <2>1. Ascending(ids, Cardinality(K), K)
    BY <1>5 DEF Ascending
  <2>2. ids \in Bijection(1..n, K)
    BY <1>2, <2>1, AscendingIsExact
  <2> HIDE DEF n
  <2>3. \A k, l \in 1..n : ids[k] = ids[l] => k = l
    BY <2>2 DEF Bijection, Injection, IsInjective
  <2>4. \A i \in K : \E k \in 1..n : ids[k] = i
    BY <2>2 DEF Bijection, Surjection
  <2>5. QED
    BY <2>3, <2>4
<1> HIDE DEF n
<1>7. DOMAIN ids = 1..n /\ \A k \in 1..n : ids[k] \in DOMAIN s
  BY <1>1, <1>5
<1>8. Trimmed(s) = [k \in 1..n |-> s[ids[k]]]
  BY <1>5, <1>7
<1>9. \A k \in 1..n : s[ids[k]] \in S
  BY <1>1, <1>7
<1>10. Trimmed(s) \in Seq(S) /\ DOMAIN Trimmed(s) = 1..n
  BY <1>2, <1>8, <1>9
<1>11. ids \in [DOMAIN Trimmed(s) -> DOMAIN s]
  BY <1>5, <1>7, <1>10
<1>12. \A k \in DOMAIN Trimmed(s) : Trimmed(s)[k] = s[ids[k]]
  BY <1>8, <1>10
<1>13. \A i \in Kept(s) : \E k \in DOMAIN Trimmed(s) : ids[k] = i
  BY <1>6, <1>10 DEF K
<1>14. \A k, l \in DOMAIN Trimmed(s) : ids[k] = ids[l] => k = l
  BY <1>6, <1>10
<1>15. \A k \in DOMAIN Trimmed(s) : ids[k] \in Kept(s)
  BY <1>5, <1>10 DEF K
<1> HIDE DEF Kept
<1>16. StoodAt(ids, s)
  BY <1>11, <1>12, <1>13, <1>14, <1>15 DEF StoodAt
<1>17. QED
  BY <1>10, <1>16

\* ORDER BY reported_at DESC, id DESC is a strict order on the rows.
LEMMA NewerIsOrder ==
  ASSUME NEW s \in Seq(Rows), Skew \in Nat, MaxClock \in Nat,
         NEW i \in DOMAIN s, NEW j \in DOMAIN s, NEW k \in DOMAIN s
  PROVE  /\ ~Newer(s, i, i)
         /\ Newer(s, i, j) /\ Newer(s, j, k) => Newer(s, i, k)
         /\ Newer(s, i, j) => s[i].at >= s[j].at
         /\ i # j => Newer(s, i, j) \/ Newer(s, j, i)
<1>1. \A l \in DOMAIN s : s[l] \in Rows /\ l \in Nat
  OBVIOUS
<1>2. \A l \in DOMAIN s : s[l].at \in Nat /\ s[l].kind \in {"base", "sample"} /\ l \in Nat
  <2>1. \A row \in Rows : row.at \in Times /\ row.kind \in {"base", "sample"}
    BY DEF Rows
  <2>2. Times \subseteq Nat
    BY DEF Times
  <2>3. QED
    BY <1>1, <2>1, <2>2
<1>3. QED
  BY <1>2 DEF Newer

\* Among some of the rows there is a newest one.
LEMMA NewestExists ==
  ASSUME NEW s \in Seq(Rows), Skew \in Nat, MaxClock \in Nat,
         NEW B, B \subseteq DOMAIN s, B # {}
  PROVE  \E b \in B : \A j \in B : ~Newer(s, j, b)
<1> DEFINE Above(i) == {j \in B : Newer(s, j, i)}
           Count(i) == Cardinality(Above(i))
           counts == {Count(i) : i \in B}
<1>1. IsFiniteSet(B)
  <2>1. DOMAIN s = 1..Len(s) /\ Len(s) \in Nat
    OBVIOUS
  <2>2. IsFiniteSet(DOMAIN s)
    BY <2>1, FS_Interval
  <2>3. QED
    BY <2>2, FS_Subset, Zenon
<1>2. \A i \in B : IsFiniteSet(Above(i)) /\ Count(i) \in Nat
  BY <1>1, FS_Subset, FS_CardinalityType
<1>3. ASSUME NEW i \in B, NEW j \in Above(i) PROVE Count(j) < Count(i)
  <2>1. Above(j) \subseteq Above(i) /\ j \in Above(i) /\ j \notin Above(j) /\ j \in B
    BY NewerIsOrder
  <2> HIDE DEF Above
  <2>2. /\ Count(j) <= Count(i)
        /\ Count(i) = Count(j) => Above(i) = Above(j)
    BY <1>2, <2>1, FS_Subset
  <2>3. Count(i) # Count(j)
    BY <2>1, <2>2
  <2>4. Count(i) \in Nat /\ Count(j) \in Nat
    BY <1>2, <2>1
  <2> HIDE DEF Count
  <2>5. QED
    BY <2>2, <2>3, <2>4
<1> HIDE DEF Count
<1>4. counts \subseteq Nat /\ counts # {}
  BY <1>2
<1>5. PICK c \in counts : \A d \in counts : ~(<<d, c>> \in OpToRel(<, Nat))
  BY <1>4, NatLessThanWellFounded, WFMin
<1>6. PICK b \in B : c = Count(b)
  OBVIOUS
<1>7. ASSUME NEW j \in Above(b) PROVE FALSE
  <2>1. j \in B /\ Count(j) < Count(b)
    BY <1>3
  <2>2. Count(j) \in counts /\ Count(j) \in Nat /\ Count(b) \in Nat
    BY <1>2, <2>1
  <2>3. QED
    BY <1>5, <1>6, <2>1, <2>2 DEF OpToRel
<1>8. QED
  BY <1>7

\* Of the rows that are kept each has a different number of newer ones, below Keep.
LEMMA TrimmedIsBounded ==
  ASSUME NEW s \in Seq(Rows), Keep \in Nat \ {0}, Skew \in Nat, MaxClock \in Nat
  PROVE  Len(Trimmed(s)) <= Keep
<1> DEFINE K == Kept(s)
           Above(i) == {j \in DOMAIN s : Newer(s, j, i)}
           Rank(i) == Cardinality(Above(i))
<1>1. PICK ids : StoodAt(ids, s)
  BY TrimmedProperties
<1>2. IsFiniteSet(DOMAIN s) /\ K \subseteq DOMAIN s
  <2>1. DOMAIN s = 1..Len(s) /\ Len(s) \in Nat
    OBVIOUS
  <2>2. QED
    BY <2>1, FS_Interval DEF Kept
<1>3. \A i : IsFiniteSet(Above(i)) /\ Rank(i) \in Nat
  BY <1>2, FS_Subset, FS_CardinalityType
<1>4. \A i \in K : Rank(i) \in 0..(Keep - 1)
  <2>1. \A i \in K : Rank(i) < Keep
    BY DEF Kept
  <2>2. \A i \in K : Rank(i) \in Nat
    BY <1>3
  <2> HIDE DEF K, Rank
  <2>3. QED
    BY <2>1, <2>2
<1>5. ASSUME NEW i \in DOMAIN s, NEW j \in DOMAIN s, Newer(s, i, j)
      PROVE  Rank(i) # Rank(j)
  <2>1. Above(i) \subseteq Above(j) /\ i \in Above(j) /\ i \notin Above(i)
    BY <1>5, NewerIsOrder
  <2>2. IsFiniteSet(Above(j))
    BY <1>3
  <2> HIDE DEF Above
  <2>3. Rank(i) = Rank(j) => Above(i) = Above(j)
    BY <2>1, <2>2, FS_Subset
  <2>4. QED
    BY <2>1, <2>3
<1>6. ASSUME NEW i \in K, NEW j \in K, Rank(i) = Rank(j) PROVE i = j
  <2>1. i \in DOMAIN s /\ j \in DOMAIN s
    BY <1>2
  <2> HIDE DEF K, Rank
  <2>2. ~Newer(s, i, j) /\ ~Newer(s, j, i)
    BY <1>5, <1>6, <2>1
  <2>3. QED
    BY <2>1, <2>2, NewerIsOrder
<1>7. \A k \in DOMAIN Trimmed(s) : ids[k] \in K
  BY <1>1 DEF StoodAt
<1>8. \A k, l \in DOMAIN Trimmed(s) : ids[k] = ids[l] => k = l
  BY <1>1 DEF StoodAt
<1>9. DOMAIN Trimmed(s) = 1..Len(Trimmed(s)) /\ Len(Trimmed(s)) \in Nat
  BY TrimmedProperties
<1> HIDE DEF K, Rank
<1> DEFINE n == Len(Trimmed(s))
           rank == [k \in 1..n |-> Rank(ids[k])]
           ranks == 0..(Keep - 1)
<1>10. \A k \in 1..n : ids[k] \in K /\ Rank(ids[k]) \in ranks
  BY <1>4, <1>7, <1>9
<1>11. \A k, l \in 1..n : Rank(ids[k]) = Rank(ids[l]) => k = l
  BY <1>6, <1>7, <1>8, <1>9
<1>12. n \in Nat
  BY <1>9
<1> HIDE DEF n
<1>13. rank \in Injection(1..n, ranks)
  BY <1>10, <1>11 DEF Injection, IsInjective
<1>14. /\ Cardinality(1..n) = n
       /\ IsFiniteSet(ranks) /\ Cardinality(ranks) = Keep
  BY <1>12, FS_Interval
<1> HIDE DEF rank, ranks
<1>15. Cardinality(1..n) <= Cardinality(ranks)
  BY <1>13, <1>14, FS_Injection
<1>16. QED
  BY <1>14, <1>15 DEF n

--------------------------------------------------------------------------------
(* Types. *)

Heartbeats ==
    [phase: {"idle", "built", "stored", "answered", "working"},
     attempt: 1..MaxRetries, samples: Seq(Times), fp: 0..MaxProfile, refresh: BOOLEAN]

Breakers ==
    [state: {"closed", "open", "half_open"}, failures: 0..Threshold, cooling: BOOLEAN]

\* The bounds are numbers, and the time of a sample is one.
LEMMA Bounds ==
  /\ Capacity \in Nat \ {0} /\ Keep \in Nat \ {0}
  /\ MaxRetries \in Nat \ {0} /\ Threshold \in Nat \ {0}
  /\ Skew \in Nat /\ MaxClock \in Nat /\ MaxProfile \in Nat /\ MaxEvents \in Nat
  /\ Times \subseteq Nat
BY TelemetryAssumption DEF Times

\* A heartbeat that is built, put back or forgotten is one.
LEMMA HeartbeatsTyped ==
  /\ Idle \in Heartbeats
  /\ [Idle EXCEPT !.phase = "working"] \in Heartbeats
  /\ \A s \in Seq(Times), v \in 0..MaxProfile :
        [Idle EXCEPT !.phase = "built", !.samples = s, !.fp = v] \in Heartbeats
<1>1. 1 \in 1..MaxRetries /\ 0 \in 0..MaxProfile /\ <<>> \in Seq(Times)
  BY Bounds
<1>2. QED
  BY <1>1 DEF Idle, Heartbeats

\* Each operation of the breaker leaves it a state and a counter within the threshold.
LEMMA BreakersTyped ==
  ASSUME NEW b \in Breakers
  PROVE  /\ {Closed, Allowed(b), OnSuccess(b), OnTransientFailure(b), OnNonTransientFailure(b)}
              \subseteq Breakers
         /\ [b EXCEPT !.cooling = FALSE] \in Breakers
<1> USE DEF Breakers
<1>1. b.failures \in 0..Threshold /\ 0 \in 0..Threshold /\ Threshold \in 0..Threshold
  BY Bounds
<1>2. Closed \in Breakers /\ Opened(b) \in Breakers
  BY <1>1 DEF Closed, Opened
<1>3. ~(b.failures + 1 >= Threshold) => b.failures + 1 \in 0..Threshold
  BY <1>1, Bounds
<1>4. OnTransientFailure(b) \in Breakers
  BY <1>2, <1>3 DEF OnTransientFailure
<1>5. OnNonTransientFailure(b) \in Breakers
  BY <1>1 DEF OnNonTransientFailure
<1>6. Allowed(b) \in Breakers
  BY DEF Allowed
<1>7. QED
  BY <1>2, <1>4, <1>5, <1>6 DEF OnSuccess

\* The rows of a heartbeat: one base row, and one for each sample.
LEMMA SnapshotRowsTyped ==
  ASSUME NEW body \in Heartbeats, NEW now \in 0..MaxClock
  PROVE  /\ SnapshotRows(now, body) \in Seq(Rows)
         /\ Len(SnapshotRows(now, body)) = Len(body.samples) + 1
         /\ SnapshotRows(now, body)[1] = BaseRow(now, body.fp)
         /\ \A i \in 1..Len(body.samples) :
               SnapshotRows(now, body)[i + 1] = SampleRow(body.samples[i])
<1> DEFINE base == <<BaseRow(now, body.fp)>>
           samples == [i \in DOMAIN body.samples |-> SampleRow(body.samples[i])]
<1>1. /\ body.samples \in Seq(Times) /\ Len(body.samples) \in Nat
      /\ DOMAIN body.samples = 1..Len(body.samples) /\ body.fp \in 0..MaxProfile
      /\ \A i \in 1..Len(body.samples) : body.samples[i] \in Times
  BY DEF Heartbeats
<1>2. now \in Times /\ 0 \in 0..MaxProfile
  BY Bounds DEF Times
<1>3. BaseRow(now, body.fp) \in Rows /\ \A t \in Times : SampleRow(t) \in Rows
  BY <1>1, <1>2 DEF Rows, BaseRow, SampleRow
<1>4. base \in Seq(Rows) /\ Len(base) = 1 /\ base[1] = BaseRow(now, body.fp)
  BY <1>3
<1>5. /\ samples \in Seq(Rows) /\ Len(samples) = Len(body.samples)
      /\ \A i \in 1..Len(body.samples) : samples[i] = SampleRow(body.samples[i])
  <2>1. \A i \in 1..Len(body.samples) : SampleRow(body.samples[i]) \in Rows
    BY <1>1, <1>3
  <2>2. samples = [i \in 1..Len(body.samples) |-> SampleRow(body.samples[i])]
    BY <1>1
  <2> HIDE DEF samples
  <2>3. QED
    BY <1>1, <2>1, <2>2
<1>6. SnapshotRows(now, body) = base \o samples
  BY DEF SnapshotRows
<1> HIDE DEF base, samples
<1>7. /\ base \o samples \in Seq(Rows) /\ Len(base \o samples) = Len(base) + Len(samples)
      /\ \A i \in 1..(Len(base) + Len(samples)) :
            (base \o samples)[i] = IF i <= Len(base) THEN base[i] ELSE samples[i - Len(base)]
  <2>1. base \in Seq(Rows) /\ samples \in Seq(Rows)
    BY <1>4, <1>5
  <2>2. QED
    BY <2>1, ConcatProperties
<1>8. \A i \in 1..Len(body.samples) : (base \o samples)[i + 1] = samples[i]
  <2> SUFFICES ASSUME NEW i \in 1..Len(body.samples) PROVE (base \o samples)[i + 1] = samples[i]
    OBVIOUS
  <2>1. /\ i + 1 \in 1..(Len(base) + Len(samples)) /\ ~(i + 1 <= Len(base))
        /\ (i + 1) - Len(base) = i
    BY <1>1, <1>4, <1>5
  <2>2. QED
    BY <1>7, <2>1
<1>9. (base \o samples)[1] = base[1]
  BY <1>1, <1>4, <1>5, <1>7
<1>10. QED
  BY <1>1, <1>4, <1>5, <1>6, <1>7, <1>8, <1>9

\* A failed attempt puts the heartbeat back or forgets it.
LEMMA AttemptFailsTyped ==
  ASSUME TypeOK, AttemptFails
  PROVE  hb' \in Heartbeats /\ breaker' \in Breakers
<1>1. hb \in Heartbeats /\ breaker \in Breakers
  BY DEF TypeOK, Heartbeats, Breakers
<1>2. CASE hb.attempt < MaxRetries
  <2>1. hb.attempt + 1 \in 1..MaxRetries
    BY <1>1, <1>2, Bounds DEF Heartbeats
  <2>2. hb' = [hb EXCEPT !.phase = "built", !.attempt = hb.attempt + 1, !.refresh = FALSE]
    BY <1>2 DEF AttemptFails
  <2>3. hb' \in Heartbeats
    BY <1>1, <2>1, <2>2 DEF Heartbeats
  <2>4. QED
    BY <1>1, <1>2, <2>3 DEF AttemptFails
<1>3. CASE ~(hb.attempt < MaxRetries)
  BY <1>1, <1>3, HeartbeatsTyped, BreakersTyped DEF AttemptFails
<1>4. QED
  BY <1>2, <1>3

\* The ring never holds more than its capacity.
LEMMA PushedTyped ==
  ASSUME NEW s \in Seq(Times), Len(s) <= Capacity, NEW t \in Times
  PROVE  /\ Pushed(s, t) \in Seq(Times) /\ Len(Pushed(s, t)) <= Capacity
         /\ \A i \in DOMAIN Pushed(s, t) :
               \/ Pushed(s, t)[i] = t /\ i = Len(Pushed(s, t))
               \/ \E j \in DOMAIN s : /\ Pushed(s, t)[i] = s[j]
                                      /\ j = i + Len(s) + 1 - Len(Pushed(s, t))
<1>1. Len(s) \in Nat /\ DOMAIN s = 1..Len(s)
  OBVIOUS
<1>2. CASE Len(s) < Capacity
  <2>1. /\ Pushed(s, t) = Append(s, t)
        /\ Append(s, t) \in Seq(Times) /\ Len(Append(s, t)) = Len(s) + 1
        /\ \A i \in 1..Len(s) : Append(s, t)[i] = s[i]
        /\ Append(s, t)[Len(s) + 1] = t
    BY <1>2, AppendProperties DEF Pushed
  <2>2. DOMAIN Append(s, t) = 1..(Len(s) + 1)
    BY <2>1
  <2>3. Len(s) + 1 <= Capacity
    BY <1>1, <1>2, Bounds
  <2>4. \A i \in 1..(Len(s) + 1) : \/ i = Len(s) + 1
                                   \/ i \in 1..Len(s) /\ i = i + Len(s) + 1 - (Len(s) + 1)
    BY <1>1
  <2>5. QED
    BY <1>1, <2>1, <2>2, <2>3, <2>4
<1>3. CASE ~(Len(s) < Capacity)
  <2>1. s # <<>>
    BY <1>1, <1>3, Bounds
  <2>2. /\ Tail(s) \in Seq(Times) /\ Len(Tail(s)) = Len(s) - 1
        /\ \A i \in 1..Len(Tail(s)) : Tail(s)[i] = s[i + 1]
    BY <2>1, HeadTailProperties
  <2>3. /\ Pushed(s, t) = Append(Tail(s), t)
        /\ Append(Tail(s), t) \in Seq(Times) /\ Len(Append(Tail(s), t)) = Len(Tail(s)) + 1
        /\ \A i \in 1..Len(Tail(s)) : Append(Tail(s), t)[i] = Tail(s)[i]
        /\ Append(Tail(s), t)[Len(Tail(s)) + 1] = t
    BY <1>3, <2>2, AppendProperties DEF Pushed
  <2>4. Len(Tail(s)) + 1 = Len(s) /\ Len(Tail(s)) \in Nat
    BY <1>1, <1>3, <2>2, Bounds
  <2>5. DOMAIN Append(Tail(s), t) = 1..Len(s)
    BY <2>3, <2>4
  <2>6. \A i \in 1..Len(s) : \/ i = Len(s)
                             \/ /\ i \in 1..Len(Tail(s)) /\ i + 1 \in 1..Len(s)
                                /\ i + 1 = i + Len(s) + 1 - Len(s)
    <3> DEFINE m == Len(Tail(s))
               l == Len(s)
    <3>1. m + 1 = l /\ m \in Nat
      BY <2>4
    <3> HIDE DEF m, l
    <3>2. \A i \in 1..l : i = l \/ (i \in 1..m /\ i + 1 \in 1..l /\ i + 1 = i + l + 1 - l)
      BY <3>1
    <3>3. QED
      BY <3>2 DEF m, l
  <2>7. QED
    BY <1>1, <2>2, <2>3, <2>4, <2>5, <2>6
<1>4. QED
  BY <1>2, <1>3

\* Nothing is sampled, collected or stored yet.
LEMMA InitTypeOK == Init => TypeOK
<1> SUFFICES ASSUME Init PROVE TypeOK
  OBVIOUS
<1>1. hb \in Heartbeats
  BY HeartbeatsTyped DEF Init
<1>2. breaker \in Breakers
  BY Bounds DEF Init, Closed, Breakers
<1>3. ring \in Seq(Times) /\ Len(ring) <= Capacity /\ rows \in Seq(Rows)
  BY Bounds DEF Init
<1>4. NoFp \in 0..NoFp /\ 0 \in 0..MaxProfile /\ 0 \in 0..MaxClock /\ 0 \in 0..MaxEvents
  BY Bounds DEF NoFp
<1>5. QED
  BY <1>1, <1>2, <1>3, <1>4 DEF Init, TypeOK, Heartbeats, Breakers

\* Each step keeps the types.
LEMMA StepTypeOK == TypeOK /\ [Next]_vars => TypeOK'
<1> SUFFICES ASSUME TypeOK, [Next]_vars PROVE TypeOK'
  OBVIOUS
<1> USE DEF TypeOK, clockVars, fpVars, serverVars, netVars, ghostVars
<1>1. hb \in Heartbeats /\ breaker \in Breakers
  BY DEF Heartbeats, Breakers
<1>2. SUFFICES ASSUME ~UNCHANGED vars, Next
               PROVE  /\ clock' \in 0..MaxClock
                      /\ ring' \in Seq(Times) /\ Len(ring') <= Capacity
                      /\ profile' \in 0..MaxProfile
                      /\ cache' \in 0..MaxProfile
                      /\ dirty' \in BOOLEAN
                      /\ collecting' \in 0..NoFp
                      /\ hb' \in Heartbeats
                      /\ breaker' \in Breakers
                      /\ rows' \in Seq(Rows)
                      /\ pending' \in BOOLEAN
                      /\ reachable' \in BOOLEAN
                      /\ faults' \in 0..MaxEvents
                      /\ retried' \in SUBSET Times
                      /\ marked' \in 0..MaxProfile
                      /\ forgotten' \in BOOLEAN
  BY DEF vars, Heartbeats, Breakers
<1>3. Fault => faults' \in 0..MaxEvents
  BY Bounds DEF Fault, Budget
<1>4. <<>> \in Seq(Times) /\ Len(<<>>) <= Capacity
  BY Bounds
<1>5. profile \in 0..NoFp /\ (collecting # NoFp => collecting \in 0..MaxProfile) /\ NoFp \in 0..NoFp
  BY Bounds DEF NoFp
<1>6. ToSet(hb.samples) \subseteq Times
  BY <1>1 DEF Heartbeats, ToSet
<1>7. CASE Change
  BY <1>1, <1>7, Bounds DEF Change
<1>8. CASE GoDown \/ ComeUp
  BY <1>1, <1>3, <1>8 DEF GoDown, ComeUp
<1>9. CASE Sample \/ Tick
  <2>1. clock' \in 0..MaxClock /\ clock' + Skew \in Times
    <3>1. clock < MaxClock /\ clock' = clock + 1
      BY <1>9 DEF Sample, Tick, NextSecond
    <3>2. clock \in Nat /\ MaxClock \in Nat /\ Skew \in Nat
      BY Bounds
    <3>3. clock + 1 \in 0..MaxClock /\ clock + 1 + Skew \in 0..(MaxClock + Skew)
      BY <3>1, <3>2
    <3>4. QED
      BY <3>1, <3>3 DEF Times
  <2>2. Sample => ring' \in Seq(Times) /\ Len(ring') <= Capacity
    BY <2>1, PushedTyped DEF Sample
  <2>3. QED
    BY <1>1, <1>9, <2>1, <2>2 DEF Sample, Tick
<1>10. CASE StartCollecting \/ FinishCollecting \/ FailCollecting
  <2>1. CASE StartCollecting
    BY <1>1, <1>5, <2>1 DEF StartCollecting
  <2>2. CASE FinishCollecting
    BY <1>1, <1>5, <2>2 DEF FinishCollecting
  <2>3. CASE FailCollecting
    <3>1. 0 \in 0..MaxProfile
      BY Bounds
    <3>2. QED
      BY <1>1, <1>3, <1>5, <2>3, <3>1 DEF FailCollecting
  <2>4. QED
    BY <1>10, <2>1, <2>2, <2>3
<1>11. CASE CoolDown
  BY <1>1, <1>11, BreakersTyped DEF CoolDown
<1>12. CASE Build
  <2>1. hb' \in Heartbeats /\ breaker' \in Breakers
    <3>1. [Idle EXCEPT !.phase = "built", !.samples = ring, !.fp = cache] \in Heartbeats
      BY HeartbeatsTyped
    <3>2. Allowed(breaker) \in Breakers
      BY <1>1, BreakersTyped
    <3>3. QED
      BY <1>1, <1>12, <3>1, <3>2 DEF Build
  <2>2. QED
    BY <1>4, <1>12, <2>1 DEF Build
<1>13. CASE Store
  <2>1. SnapshotRows(clock, hb) \in Seq(Rows)
    BY <1>1, SnapshotRowsTyped
  <2>2. rows \o SnapshotRows(clock, hb) \in Seq(Rows)
    BY <2>1, ConcatProperties
  <2>3. [hb EXCEPT !.phase = "stored"] \in Heartbeats
    BY <1>1 DEF Heartbeats
  <2>4. QED
    BY <1>1, <1>13, <2>2, <2>3 DEF Store
<1>14. CASE Answer
  <2>1. [hb EXCEPT !.phase = "answered", !.refresh = pending] \in Heartbeats
    BY <1>1 DEF Heartbeats
  <2>2. Trimmed(rows) \in Seq(Rows)
    BY TrimmedProperties
  <2>3. QED
    BY <1>1, <1>14, <2>1, <2>2 DEF Answer
<1>15. CASE Receive
  <2>1. hb' \in Heartbeats /\ breaker' \in Breakers /\ hb.refresh \in BOOLEAN
    BY <1>1, <1>15, HeartbeatsTyped, BreakersTyped DEF Receive, Heartbeats
  <2>2. dirty' \in BOOLEAN
    BY <1>15 DEF Receive
  <2>3. marked' \in 0..MaxProfile
    BY <1>15 DEF Receive
  <2>4. QED
    BY <1>15, <2>1, <2>2, <2>3 DEF Receive
<1>16. CASE Unreachable \/ LoseReply
  <2>1. hb' \in Heartbeats /\ breaker' \in Breakers
    BY <1>16, AttemptFailsTyped DEF Unreachable, LoseReply
  <2>2. forgotten' \in BOOLEAN
    BY <1>16 DEF Unreachable, LoseReply
  <2>3. QED
    BY <1>3, <1>6, <1>16, <2>1, <2>2 DEF Unreachable, LoseReply
<1>17. CASE Reject
  BY <1>1, <1>3, <1>17, HeartbeatsTyped, BreakersTyped DEF Reject
<1>18. CASE Post
  <2>1. Allowed(breaker) \in Breakers
    BY <1>1, BreakersTyped
  <2>2. breaker' \in Breakers
    BY <1>18, <2>1, BreakersTyped DEF Post
  <2>3. QED
    BY <1>1, <1>3, <1>18, <2>2 DEF Post
<1>19. CASE EndCycle
  BY <1>1, <1>19, HeartbeatsTyped DEF EndCycle
<1>20. CASE Ask
  BY <1>1, <1>20 DEF Ask
<1>21. CASE ServerRestart
  <2>1. hb' \in Heartbeats /\ breaker' \in Breakers
    BY <1>1, <1>21, AttemptFailsTyped DEF ServerRestart
  <2>2. retried' \in SUBSET Times
    BY <1>6, <1>21 DEF ServerRestart
  <2>3. forgotten' \in BOOLEAN
    BY <1>21 DEF ServerRestart
  <2>4. QED
    BY <1>3, <1>21, <2>1, <2>2, <2>3 DEF ServerRestart
<1>22. CASE AgentRestart
  BY <1>1, <1>3, <1>4, <1>5, <1>22, HeartbeatsTyped, BreakersTyped DEF AgentRestart
<1>23. QED
  BY <1>2, <1>7, <1>8, <1>9, <1>10, <1>11, <1>12, <1>13, <1>14, <1>15, <1>16, <1>17, <1>18,
     <1>19, <1>20, <1>21, <1>22
  DEF Next

--------------------------------------------------------------------------------
(* The copies of a sample in the history. *)

Copies(s, t) == {i \in DOMAIN s : s[i].kind = "sample" /\ s[i].at = t}

LEMMA CopiesFinite ==
  ASSUME NEW S, NEW s \in Seq(S), NEW t
  PROVE  /\ IsFiniteSet(Copies(s, t)) /\ Cardinality(Copies(s, t)) \in Nat
         /\ Cardinality(Copies(s, t)) = 0 <=> Copies(s, t) = {}
<1>1. DOMAIN s = 1..Len(s) /\ Len(s) \in Nat
  OBVIOUS
<1>2. IsFiniteSet(DOMAIN s)
  BY <1>1, FS_Interval
<1>3. Copies(s, t) \in SUBSET (DOMAIN s)
  BY DEF Copies
<1>4. IsFiniteSet(Copies(s, t))
  BY <1>2, <1>3, FS_Subset, Zenon
<1>5. QED
  BY <1>4, FS_CardinalityType, FS_EmptySet

\* The rows of a heartbeat follow the ones there were.
LEMMA StoredRows ==
  ASSUME NEW s \in Seq(Rows), NEW body \in Heartbeats, NEW now \in 0..MaxClock
  PROVE  LET c == s \o SnapshotRows(now, body)
             n == Len(s)
             m == Len(body.samples)
         IN  /\ c \in Seq(Rows) /\ DOMAIN c = 1..(n + 1 + m) /\ m \in Nat /\ n \in Nat
             /\ \A i \in 1..n : c[i] = s[i]
             /\ c[n + 1] = BaseRow(now, body.fp)
             /\ \A i \in 1..m : c[n + 1 + i] = SampleRow(body.samples[i])
<1> DEFINE new == SnapshotRows(now, body)
           c == s \o new
           n == Len(s)
           m == Len(body.samples)
<1>1. /\ new \in Seq(Rows) /\ Len(new) = m + 1
      /\ new[1] = BaseRow(now, body.fp)
      /\ \A i \in 1..m : new[i + 1] = SampleRow(body.samples[i])
  BY SnapshotRowsTyped
<1>2. n \in Nat /\ m \in Nat
  BY DEF Heartbeats
<1> HIDE DEF new
<1>3. /\ c \in Seq(Rows) /\ Len(c) = n + Len(new)
      /\ \A i \in 1..(n + Len(new)) : c[i] = IF i <= n THEN s[i] ELSE new[i - n]
  <2>1. s \in Seq(Rows) /\ new \in Seq(Rows)
    BY <1>1
  <2>2. QED
    BY <2>1, ConcatProperties
<1>4. DOMAIN c = 1..Len(c)
  BY <1>3
<1> HIDE DEF n, m, c
<1>5. Len(c) = n + 1 + m
  BY <1>1, <1>2, <1>3
<1>6. \A i \in 1..n : c[i] = s[i]
  BY <1>1, <1>2, <1>3
<1>7. c[n + 1] = new[1]
  <2>1. n + 1 \in 1..(n + Len(new)) /\ ~(n + 1 <= n) /\ (n + 1) - n = 1
    BY <1>1, <1>2
  <2>2. QED
    BY <1>3, <2>1
<1>8. ASSUME NEW i \in 1..m PROVE c[n + 1 + i] = new[i + 1]
  <2>1. /\ n + 1 + i \in 1..(n + Len(new)) /\ ~(n + 1 + i <= n)
        /\ (n + 1 + i) - n = i + 1
    BY <1>1, <1>2
  <2>2. QED
    BY <1>3, <2>1
<1>9. QED
  BY <1>1, <1>2, <1>3, <1>4, <1>5, <1>6, <1>7, <1>8 DEF c, n, m, new

\* Storing a heartbeat adds one copy of each of its samples, and of no other.
LEMMA CopiesStored ==
  ASSUME NEW s \in Seq(Rows), NEW body \in Heartbeats, NEW now \in 0..MaxClock, NEW t,
         \A i, j \in DOMAIN body.samples : body.samples[i] = body.samples[j] => i = j
  PROVE  LET c == s \o SnapshotRows(now, body)
         IN  /\ t \notin ToSet(body.samples) => Copies(c, t) = Copies(s, t)
             /\ Cardinality(Copies(c, t)) <= Cardinality(Copies(s, t)) + 1
<1> DEFINE c == s \o SnapshotRows(now, body)
           n == Len(s)
           m == Len(body.samples)
<1>1. /\ c \in Seq(Rows) /\ DOMAIN c = 1..(n + 1 + m) /\ m \in Nat /\ n \in Nat
      /\ \A i \in 1..n : c[i] = s[i]
      /\ c[n + 1] = BaseRow(now, body.fp)
      /\ \A i \in 1..m : c[n + 1 + i] = SampleRow(body.samples[i])
  BY StoredRows
<1>2. DOMAIN s = 1..n /\ DOMAIN body.samples = 1..m
  BY DEF Heartbeats
<1> HIDE DEF c, n, m
<1>3. c[n + 1].kind = "base"
  BY <1>1 DEF BaseRow
<1>4. ASSUME NEW i \in 1..m
      PROVE  c[n + 1 + i].kind = "sample" /\ c[n + 1 + i].at = body.samples[i]
  <2>1. c[n + 1 + i] = SampleRow(body.samples[i])
    BY <1>1
  <2>2. \A u : SampleRow(u).kind = "sample" /\ SampleRow(u).at = u
    BY DEF SampleRow
  <2>3. QED
    BY <2>1, <2>2
<1>5. ASSUME NEW k \in DOMAIN c
      PROVE  k \in 1..n \/ k = n + 1 \/ (k - (n + 1) \in 1..m /\ n + 1 + (k - (n + 1)) = k)
  BY <1>1
<1>6. ASSUME NEW k \in Copies(c, t)
      PROVE  k \in Copies(s, t) \/ (k - (n + 1) \in 1..m /\ body.samples[k - (n + 1)] = t
                                    /\ n + 1 + (k - (n + 1)) = k)
  <2>1. k \in DOMAIN c /\ c[k].kind = "sample" /\ c[k].at = t
    BY DEF Copies
  <2>2. CASE k \in 1..n
    BY <1>1, <1>2, <2>1, <2>2 DEF Copies
  <2>3. CASE k = n + 1
    BY <1>3, <2>1, <2>3
  <2>4. CASE k - (n + 1) \in 1..m /\ n + 1 + (k - (n + 1)) = k
    <3>1. c[k].at = body.samples[k - (n + 1)]
      BY <1>4, <2>4
    <3>2. QED
      BY <2>1, <2>4, <3>1
  <2>5. QED
    BY <1>5, <2>1, <2>2, <2>3, <2>4
<1>7. Copies(s, t) \subseteq Copies(c, t)
  <2> SUFFICES ASSUME NEW k \in Copies(s, t) PROVE k \in Copies(c, t)
    OBVIOUS
  <2>1. k \in 1..n /\ s[k].kind = "sample" /\ s[k].at = t
    BY <1>2 DEF Copies
  <2>2. k \in DOMAIN c /\ c[k] = s[k]
    BY <1>1, <2>1
  <2>3. QED
    BY <2>1, <2>2 DEF Copies
<1>8. ASSUME t \notin ToSet(body.samples) PROVE Copies(c, t) = Copies(s, t)
  <2>1. \A i \in 1..m : body.samples[i] # t
    BY <1>2, <1>8 DEF ToSet
  <2>2. QED
    BY <1>6, <1>7, <2>1
<1>9. Cardinality(Copies(c, t)) <= Cardinality(Copies(s, t)) + 1
  <2>1. /\ IsFiniteSet(Copies(s, t)) /\ Cardinality(Copies(s, t)) \in Nat
        /\ Cardinality(Copies(c, t)) \in Nat
    BY <1>1, CopiesFinite
  <2>2. CASE t \notin ToSet(body.samples)
    BY <1>8, <2>1, <2>2
  <2>3. CASE t \in ToSet(body.samples)
    <3>1. PICK i \in 1..m : body.samples[i] = t
      BY <1>2, <2>3 DEF ToSet
    <3>2. Copies(c, t) \subseteq Copies(s, t) \cup {n + 1 + i}
      <4> SUFFICES ASSUME NEW k \in Copies(c, t), k \notin Copies(s, t) PROVE k = n + 1 + i
        OBVIOUS
      <4>1. k - (n + 1) \in 1..m /\ body.samples[k - (n + 1)] = t /\ n + 1 + (k - (n + 1)) = k
        BY <1>6
      <4>2. k - (n + 1) = i
        BY <1>2, <3>1, <4>1
      <4>3. QED
        BY <4>1, <4>2
    <3>3. /\ IsFiniteSet(Copies(s, t) \cup {n + 1 + i})
          /\ Cardinality(Copies(s, t) \cup {n + 1 + i}) \in Nat
          /\ Cardinality(Copies(s, t) \cup {n + 1 + i}) <= Cardinality(Copies(s, t)) + 1
      <4> DEFINE old == Copies(s, t)
      <4> HIDE DEF old
      <4>1. /\ IsFiniteSet(old \cup {n + 1 + i})
            /\ \/ Cardinality(old \cup {n + 1 + i}) = Cardinality(old)
               \/ Cardinality(old \cup {n + 1 + i}) = Cardinality(old) + 1
        BY <2>1, FS_AddElement DEF old
      <4>2. Cardinality(old) \in Nat
        BY <2>1 DEF old
      <4>3. QED
        BY <4>1, <4>2 DEF old
    <3>4. Cardinality(Copies(c, t)) <= Cardinality(Copies(s, t) \cup {n + 1 + i})
      BY <3>2, <3>3, FS_Subset
    <3>5. QED
      BY <2>1, <3>3, <3>4
  <2>4. QED
    BY <2>2, <2>3
<1>10. QED
  BY <1>8, <1>9 DEF c

\* Trimming makes no copies.
LEMMA CopiesTrimmed ==
  ASSUME NEW s \in Seq(Rows), NEW t
  PROVE  /\ Cardinality(Copies(Trimmed(s), t)) <= Cardinality(Copies(s, t))
         /\ Copies(s, t) = {} => Copies(Trimmed(s), t) = {}
<1>1. PICK ids : StoodAt(ids, s)
  BY TrimmedProperties
<1> USE DEF StoodAt
<1> DEFINE C == Copies(Trimmed(s), t)
           D == Copies(s, t)
           f == [k \in C |-> ids[k]]
<1>2. C \subseteq DOMAIN Trimmed(s)
  BY DEF Copies
<1>3. \A k \in C : ids[k] \in D
  BY <1>1 DEF Copies
<1> HIDE DEF C, D
<1>4. f \in [C -> D]
  BY <1>3
<1>5. \A k, l \in C : f[k] = f[l] => k = l
  BY <1>1, <1>2
<1> HIDE DEF f
<1>6. f \in Injection(C, D)
  BY <1>4, <1>5 DEF Injection, IsInjective
<1>7. IsFiniteSet(D)
  BY CopiesFinite DEF D
<1>8. Cardinality(C) <= Cardinality(D)
  BY <1>6, <1>7, FS_Injection
<1>9. D = {} => C = {}
  BY <1>3
<1>10. QED
  BY <1>8, <1>9 DEF C, D

--------------------------------------------------------------------------------
(* StoredTwiceOnlyIfRetried. *)

\* A sample is in the ring or in the body of a heartbeat, once, until it is stored; and
\* what has been sampled or reported is not of the future.
SamplesAreNew ==
    /\ \A i, j \in DOMAIN ring : ring[i] = ring[j] => i = j
    /\ \A i, j \in DOMAIN hb.samples : hb.samples[i] = hb.samples[j] => i = j
    /\ \A i \in DOMAIN ring, j \in DOMAIN hb.samples : ring[i] # hb.samples[j]
    /\ \A i \in DOMAIN ring : ring[i] <= clock + Skew
    /\ \A i \in DOMAIN hb.samples : hb.samples[i] <= clock + Skew
    /\ \A i \in DOMAIN rows : rows[i].at <= clock + Skew

CopiesOf(t) == Cardinality(Copies(rows, t))

\* A sample has one copy for each attempt that stored it at most, and more than one
\* only if the reply to an attempt that did was lost.
CopiesAreCounted ==
    /\ \A i \in DOMAIN ring : Copies(rows, ring[i]) = {}
    /\ \A i \in DOMAIN hb.samples :
         /\ hb.phase = "built" =>
              /\ CopiesOf(hb.samples[i]) <= hb.attempt - 1
              /\ hb.samples[i] \notin retried => Copies(rows, hb.samples[i]) = {}
         /\ hb.phase \in {"stored", "answered"} => CopiesOf(hb.samples[i]) <= hb.attempt
    /\ \A t \in Times : CopiesOf(t) <= MaxRetries /\ (t \notin retried => CopiesOf(t) <= 1)

HistoryInv == TypeOK /\ SamplesAreNew /\ CopiesAreCounted

LEMMA InitHistoryInv == Init => HistoryInv
<1> SUFFICES ASSUME Init PROVE HistoryInv
  OBVIOUS
<1>1. ring = <<>> /\ rows = <<>> /\ hb.samples = <<>>
  BY DEF Init, Idle
<1>2. DOMAIN ring = {} /\ DOMAIN rows = {} /\ DOMAIN hb.samples = {}
  BY <1>1
<1>3. \A t : Copies(rows, t) = {} /\ CopiesOf(t) = 0
  <2>1. \A t : Copies(rows, t) = {}
    BY <1>2 DEF Copies
  <2>2. Cardinality({}) = 0
    BY FS_EmptySet
  <2>3. QED
    BY <2>1, <2>2 DEF CopiesOf
<1>4. SamplesAreNew
  BY <1>2 DEF SamplesAreNew
<1>5. CopiesAreCounted
  <2>1. \A t \in Times : CopiesOf(t) <= MaxRetries /\ CopiesOf(t) <= 1
    BY <1>3, Bounds
  <2>2. QED
    BY <1>2, <2>1 DEF CopiesAreCounted
<1>6. QED
  BY <1>4, <1>5, InitTypeOK DEF HistoryInv

\* What the invariant says of the types, in the form the steps need.
LEMMA HistoryTyped ==
  ASSUME TypeOK
  PROVE  /\ clock \in Nat /\ rows \in Seq(Rows) /\ hb \in Heartbeats
         /\ DOMAIN ring = 1..Len(ring) /\ Len(ring) \in Nat
         /\ \A i \in DOMAIN ring : ring[i] \in Times
         /\ DOMAIN hb.samples = 1..Len(hb.samples) /\ Len(hb.samples) \in Nat
         /\ \A i \in DOMAIN hb.samples : hb.samples[i] \in Times
         /\ hb.attempt \in 1..MaxRetries
         /\ \A i \in DOMAIN rows : rows[i].at \in Times
         /\ \A t \in Times : CopiesOf(t) \in Nat
         /\ ToSet(hb.samples) = {hb.samples[i] : i \in DOMAIN hb.samples}
<1>1. hb \in Heartbeats /\ hb.samples \in Seq(Times) /\ hb.attempt \in 1..MaxRetries
  BY DEF TypeOK, Heartbeats
<1>2. ring \in Seq(Times) /\ rows \in Seq(Rows) /\ clock \in Nat
  BY DEF TypeOK
<1>3. \A i \in DOMAIN rows : rows[i].at \in Times
  <2>1. \A row \in Rows : row.at \in Times
    BY DEF Rows
  <2>2. \A i \in DOMAIN rows : rows[i] \in Rows
    BY <1>2
  <2>3. QED
    BY <2>1, <2>2
<1>4. \A t \in Times : CopiesOf(t) \in Nat
  BY <1>2, CopiesFinite DEF CopiesOf
<1>5. /\ DOMAIN ring = 1..Len(ring) /\ Len(ring) \in Nat
      /\ \A i \in DOMAIN ring : ring[i] \in Times
  BY <1>2
<1>6. /\ DOMAIN hb.samples = 1..Len(hb.samples) /\ Len(hb.samples) \in Nat
      /\ \A i \in DOMAIN hb.samples : hb.samples[i] \in Times
  BY <1>1
<1>7. QED
  BY <1>1, <1>2, <1>3, <1>4, <1>5, <1>6 DEF ToSet

\* A step that stores nothing, and at most empties the ring or forgets the heartbeat.
Quiet ==
    /\ clock' \in Nat /\ clock <= clock'
    /\ UNCHANGED <<rows, retried>>
    /\ ring' = ring \/ ring' = <<>>
    /\ hb' = hb \/ hb'.samples = <<>>

LEMMA QuietKeeps ==
  ASSUME HistoryInv, TypeOK', Quiet
  PROVE  HistoryInv'
<1> USE DEF HistoryInv
<1>1. /\ \A i \in DOMAIN ring' : i \in DOMAIN ring /\ ring'[i] = ring[i]
      /\ \A i \in DOMAIN hb'.samples : hb' = hb
      /\ rows' = rows /\ retried' = retried
  <2>1. DOMAIN <<>> = {}
    OBVIOUS
  <2>2. QED
    BY <2>1 DEF Quiet
<1>2. ASSUME NEW t \in Times, t <= clock + Skew PROVE t <= clock' + Skew
  <2>1. t \in Nat /\ clock \in Nat /\ clock' \in Nat /\ Skew \in Nat /\ clock <= clock'
    BY HistoryTyped, Bounds DEF Quiet
  <2>2. \A a, b, k, u \in Nat : u <= a + k /\ a <= b => u <= b + k
    OBVIOUS
  <2>3. QED
    BY <1>2, <2>1, <2>2
<1>3. SamplesAreNew'
  <2>1. /\ \A i \in DOMAIN ring' : ring'[i] <= clock' + Skew
        /\ \A i \in DOMAIN rows' : rows'[i].at <= clock' + Skew
        /\ \A i \in DOMAIN hb'.samples : hb'.samples[i] <= clock' + Skew
    BY <1>1, <1>2, HistoryTyped DEF SamplesAreNew
  <2>2. /\ \A i, j \in DOMAIN ring' : ring'[i] = ring'[j] => i = j
        /\ \A i, j \in DOMAIN hb'.samples : hb'.samples[i] = hb'.samples[j] => i = j
        /\ \A i \in DOMAIN ring', j \in DOMAIN hb'.samples : ring'[i] # hb'.samples[j]
    BY <1>1 DEF SamplesAreNew
  <2>3. QED
    BY <2>1, <2>2 DEF SamplesAreNew
<1>4. CopiesAreCounted'
  <2>1. \A t : CopiesOf(t)' = CopiesOf(t)
    BY <1>1 DEF CopiesOf
  <2>2. \A i \in DOMAIN ring' : Copies(rows, ring'[i]) = {}
    BY <1>1 DEF CopiesAreCounted
  <2>3. QED
    BY <1>1, <2>1, <2>2 DEF CopiesAreCounted
<1>5. QED
  BY <1>3, <1>4

\* The sampler adds the time of a second that has not been sampled before.
LEMMA SampleKeeps ==
  ASSUME HistoryInv, TypeOK', Sample
  PROVE  HistoryInv'
<1> USE DEF HistoryInv
<1> DEFINE t == clock' + Skew
<1>1. /\ clock' = clock + 1 /\ clock \in Nat /\ clock' \in 0..MaxClock /\ Skew \in Nat
      /\ ring' = Pushed(ring, t)
      /\ UNCHANGED <<hb, rows, retried>>
  <2>1. clock \in Nat /\ clock' \in 0..MaxClock /\ Skew \in Nat
    BY HistoryTyped, Bounds DEF TypeOK
  <2>2. QED
    BY <2>1 DEF Sample, NextSecond, serverVars, ghostVars
<1>2. t \in Times /\ clock + Skew < t
  BY <1>1, Bounds DEF Times
<1>3. ring \in Seq(Times) /\ Len(ring) <= Capacity
  BY DEF TypeOK
<1>4. \A i \in DOMAIN ring' :
        \/ ring'[i] = t /\ i = Len(ring')
        \/ \E j \in DOMAIN ring : ring'[i] = ring[j] /\ j = i + Len(ring) + 1 - Len(ring')
  <2> HIDE DEF t
  <2>1. QED
    BY <1>1, <1>2, <1>3, PushedTyped
<1>5. Len(ring') \in Nat /\ DOMAIN ring' = 1..Len(ring')
  <2>1. ring' \in Seq(Times)
    BY DEF TypeOK
  <2>2. QED
    BY <2>1
<1> HIDE DEF t
<1>6. /\ \A i \in DOMAIN ring : ring[i] \in Nat /\ ring[i] < t
      /\ \A i \in DOMAIN hb.samples : hb.samples[i] \in Nat /\ hb.samples[i] < t
      /\ \A i \in DOMAIN rows : rows[i].at \in Nat /\ rows[i].at < t
  <2>1. /\ \A i \in DOMAIN ring : ring[i] \in Nat /\ ring[i] <= clock + Skew
        /\ \A i \in DOMAIN hb.samples : hb.samples[i] \in Nat /\ hb.samples[i] <= clock + Skew
        /\ \A i \in DOMAIN rows : rows[i].at \in Nat /\ rows[i].at <= clock + Skew
    BY HistoryTyped, Bounds DEF SamplesAreNew
  <2>2. t \in Nat /\ clock + Skew \in Nat
    BY <1>1, <1>2, Bounds
  <2>3. \A u \in Nat : u <= clock + Skew => u < t
    BY <1>2, <2>2
  <2>4. QED
    BY <2>1, <2>3
<1>7. t \in Nat /\ t <= clock' + Skew /\ \A u \in Nat : u < t => u <= clock' + Skew
  BY <1>1 DEF t
<1>8. \A i \in DOMAIN ring' :
        ring'[i] = t \/ \E j \in DOMAIN ring : ring'[i] = ring[j]
  BY <1>4
<1>9. SamplesAreNew'
  <2>1. ASSUME NEW i \in DOMAIN ring', NEW j \in DOMAIN ring', ring'[i] = ring'[j] PROVE i = j
    <3>1. CASE ring'[i] = t
      <4>1. i = Len(ring') /\ j = Len(ring')
        <5>1. ~(t < t)
          BY <1>7
        <5>2. QED
          BY <1>4, <1>6, <2>1, <3>1, <5>1
      <4>2. QED
        BY <4>1
    <3>2. CASE ring'[i] # t
      <4>1. PICK k \in DOMAIN ring : ring'[i] = ring[k] /\ k = i + Len(ring) + 1 - Len(ring')
        BY <1>4, <3>2
      <4>2. PICK l \in DOMAIN ring : ring'[j] = ring[l] /\ l = j + Len(ring) + 1 - Len(ring')
        BY <1>4, <2>1, <3>2
      <4>3. k = l
        BY <2>1, <4>1, <4>2 DEF SamplesAreNew
      <4>4. i \in Nat /\ j \in Nat /\ Len(ring) \in Nat /\ Len(ring') \in Nat
        BY <1>5, HistoryTyped
      <4>5. i + Len(ring) + 1 - Len(ring') = j + Len(ring) + 1 - Len(ring')
        BY <4>1, <4>2, <4>3
      <4> DEFINE a == Len(ring)
                 b == Len(ring')
      <4> HIDE DEF a, b
      <4>6. a \in Nat /\ b \in Nat /\ i + a + 1 - b = j + a + 1 - b
        BY <4>4, <4>5 DEF a, b
      <4>7. QED
        BY <4>4, <4>6
    <3>3. QED
      BY <3>1, <3>2
  <2>2. ASSUME NEW i \in DOMAIN ring', NEW j \in DOMAIN hb.samples PROVE ring'[i] # hb.samples[j]
    <3>1. ~(t < t)
      BY <1>7
    <3>2. CASE ring'[i] = t
      BY <1>6, <3>1, <3>2
    <3>3. CASE ring'[i] # t
      BY <1>8, <3>3 DEF SamplesAreNew
    <3>4. QED
      BY <3>2, <3>3
  <2>3. /\ \A i \in DOMAIN ring' : ring'[i] <= clock' + Skew
        /\ \A i \in DOMAIN hb.samples : hb.samples[i] <= clock' + Skew
        /\ \A i \in DOMAIN rows : rows[i].at <= clock' + Skew
    BY <1>6, <1>7, <1>8
  <2>4. QED
    BY <1>1, <2>1, <2>2, <2>3 DEF SamplesAreNew
<1>10. CopiesAreCounted'
  <2>1. Copies(rows, t) = {}
    <3>1. ~(t < t)
      BY <1>7
    <3>2. QED
      BY <1>6, <3>1 DEF Copies
  <2>2. \A i \in DOMAIN ring' : Copies(rows, ring'[i]) = {}
    BY <1>8, <2>1 DEF CopiesAreCounted
  <2>3. QED
    BY <1>1, <2>2 DEF CopiesAreCounted, CopiesOf
<1>11. QED
  BY <1>9, <1>10

\* The payload takes the samples over from the ring.
LEMMA BuildKeeps ==
  ASSUME HistoryInv, TypeOK', Build
  PROVE  HistoryInv'
<1> USE DEF HistoryInv
<1>1. UNCHANGED <<clock, rows, retried>> /\ ring' = <<>>
  BY DEF Build, clockVars, serverVars, ghostVars
<1>2. CASE Refuses(breaker)
  <2>1. Quiet
    BY <1>1, <1>2, HistoryTyped DEF Build, Quiet
  <2>2. QED
    BY <2>1, QuietKeeps
<1>3. CASE ~Refuses(breaker)
  <2>1. hb' = [Idle EXCEPT !.phase = "built", !.samples = ring, !.fp = cache]
    BY <1>3 DEF Build
  <2>2. hb'.samples = ring /\ hb'.phase = "built" /\ hb'.attempt = 1
    BY <2>1 DEF Idle
  <2>3. DOMAIN ring' = {}
    BY <1>1
  <2>4. SamplesAreNew'
    BY <1>1, <2>2, <2>3 DEF SamplesAreNew
  <2>5. \A i \in DOMAIN ring : Copies(rows, ring[i]) = {} /\ CopiesOf(ring[i]) <= 1 - 1
    <3>1. Cardinality({}) = 0
      BY FS_EmptySet
    <3>2. \A i \in DOMAIN ring : Copies(rows, ring[i]) = {}
      BY DEF CopiesAreCounted
    <3>3. QED
      BY <3>1, <3>2 DEF CopiesOf
  <2>6. CopiesAreCounted'
    BY <1>1, <2>2, <2>3, <2>5 DEF CopiesAreCounted, CopiesOf
  <2>7. QED
    BY <2>4, <2>6
<1>4. QED
  BY <1>2, <1>3

\* The heartbeat is stored: one more copy of each of its samples.
LEMMA StoreKeeps ==
  ASSUME HistoryInv, TypeOK', Store
  PROVE  HistoryInv'
<1> USE DEF HistoryInv
<1> DEFINE c == rows \o SnapshotRows(clock, hb)
<1>1. /\ hb.phase = "built" /\ rows' = c
      /\ hb' = [hb EXCEPT !.phase = "stored"]
      /\ UNCHANGED <<clock, ring, retried>>
  BY DEF Store, clockVars, ghostVars
<1>2. /\ hb'.phase = "stored" /\ hb'.samples = hb.samples /\ hb'.attempt = hb.attempt
      /\ hb \in Heartbeats /\ rows \in Seq(Rows) /\ clock \in 0..MaxClock
  BY <1>1, HistoryTyped DEF Heartbeats, TypeOK
<1>3. \A t : /\ t \notin ToSet(hb.samples) => Copies(c, t) = Copies(rows, t)
             /\ Cardinality(Copies(c, t)) <= Cardinality(Copies(rows, t)) + 1
  <2>1. \A i, j \in DOMAIN hb.samples : hb.samples[i] = hb.samples[j] => i = j
    BY DEF SamplesAreNew
  <2>2. QED
    BY <1>2, <2>1, CopiesStored
<1>4. SamplesAreNew'
  <2>1. ASSUME NEW i \in DOMAIN c PROVE c[i].at <= clock + Skew
    <3> DEFINE n == Len(rows)
               m == Len(hb.samples)
    <3>1. /\ DOMAIN c = 1..(n + 1 + m) /\ m \in Nat /\ n \in Nat
          /\ \A k \in 1..n : c[k] = rows[k]
          /\ c[n + 1] = BaseRow(clock, hb.fp)
          /\ \A k \in 1..m : c[n + 1 + k] = SampleRow(hb.samples[k])
      BY <1>2, StoredRows
    <3>2. DOMAIN rows = 1..n /\ DOMAIN hb.samples = 1..m
      BY HistoryTyped
    <3> HIDE DEF c, n, m
    <3>3. CASE i \in 1..n
      BY <3>1, <3>2, <3>3 DEF SamplesAreNew
    <3>4. CASE i = n + 1
      <4>1. c[i].at = clock
        BY <3>1, <3>4 DEF BaseRow
      <4>2. QED
        BY <4>1, HistoryTyped, Bounds
    <3>5. CASE i - (n + 1) \in 1..m /\ n + 1 + (i - (n + 1)) = i
      <4> DEFINE k == i - (n + 1)
      <4>1. k \in 1..m /\ c[i] = SampleRow(hb.samples[k])
        BY <3>1, <3>5
      <4> HIDE DEF k
      <4>2. c[i].at = hb.samples[k] /\ hb.samples[k] <= clock + Skew
        BY <3>2, <4>1 DEF SampleRow, SamplesAreNew
      <4>3. QED
        BY <4>2
    <3>6. QED
      BY <3>1, <3>3, <3>4, <3>5
  <2> HIDE DEF c
  <2>2. QED
    BY <1>1, <1>2, <2>1 DEF SamplesAreNew
<1> HIDE DEF c
<1>5. rows' \in Seq(Rows)
  BY DEF TypeOK
<1>6. ASSUME NEW i \in DOMAIN hb.samples
      PROVE  /\ Cardinality(Copies(rows', hb.samples[i])) <= hb.attempt
             /\ hb.samples[i] \notin retried => Cardinality(Copies(rows', hb.samples[i])) <= 1
  <2> DEFINE t == hb.samples[i]
             a == Cardinality(Copies(rows, t))
             b == Cardinality(Copies(rows', t))
  <2>1. b <= a + 1 /\ a \in Nat /\ b \in Nat
    BY <1>1, <1>2, <1>3, <1>5, CopiesFinite
  <2>2. a <= hb.attempt - 1 /\ (t \notin retried => a = 0)
    <3>1. Cardinality({}) = 0
      BY FS_EmptySet
    <3>2. QED
      BY <1>1, <3>1 DEF CopiesAreCounted, CopiesOf
  <2>3. hb.attempt \in Nat
    BY HistoryTyped, Bounds
  <2> HIDE DEF a, b
  <2>4. b <= hb.attempt /\ (t \notin retried => b <= 1)
    BY <2>1, <2>2, <2>3
  <2>5. QED
    BY <2>4 DEF b
<1>7. \A t : t \notin ToSet(hb.samples) => Copies(rows', t) = Copies(rows, t)
                                           /\ CopiesOf(t)' = CopiesOf(t)
  BY <1>1, <1>3 DEF CopiesOf
<1>8. \A t \in Times : CopiesOf(t)' <= MaxRetries /\ (t \notin retried => CopiesOf(t)' <= 1)
  <2> SUFFICES ASSUME NEW t \in Times
               PROVE  CopiesOf(t)' <= MaxRetries /\ (t \notin retried => CopiesOf(t)' <= 1)
    OBVIOUS
  <2>1. CASE t \notin ToSet(hb.samples)
    BY <1>7, <2>1 DEF CopiesAreCounted
  <2>2. CASE t \in ToSet(hb.samples)
    <3>1. PICK i \in DOMAIN hb.samples : t = hb.samples[i]
      BY <2>2, HistoryTyped
    <3>2. CopiesOf(t)' <= hb.attempt /\ (t \notin retried => CopiesOf(t)' <= 1)
      BY <1>6, <3>1 DEF CopiesOf
    <3>3. CopiesOf(t)' \in Nat /\ hb.attempt \in Nat /\ hb.attempt <= MaxRetries
      BY <1>5, CopiesFinite, HistoryTyped, Bounds DEF CopiesOf
    <3>4. QED
      BY <3>2, <3>3, Bounds
  <2>3. QED
    BY <2>1, <2>2
<1>9. \A i \in DOMAIN ring : Copies(rows', ring[i]) = {}
  <2> SUFFICES ASSUME NEW i \in DOMAIN ring PROVE Copies(rows', ring[i]) = {}
    OBVIOUS
  <2>1. ring[i] \notin ToSet(hb.samples)
    BY HistoryTyped DEF SamplesAreNew
  <2>2. QED
    BY <1>7, <2>1 DEF CopiesAreCounted
<1>10. CopiesAreCounted'
  <2>1. \A i \in DOMAIN hb'.samples : CopiesOf(hb.samples[i])' <= hb.attempt
    BY <1>2, <1>6 DEF CopiesOf
  <2>2. \A i \in DOMAIN ring' : Copies(rows, ring[i])' = {}
    BY <1>1, <1>9
  <2>3. QED
    BY <1>1, <1>2, <1>8, <2>1, <2>2 DEF CopiesAreCounted
<1>11. QED
  BY <1>4, <1>10

\* What is trimmed are rows that were there.
LEMMA AnswerKeeps ==
  ASSUME HistoryInv, TypeOK', Answer
  PROVE  HistoryInv'
<1> USE DEF HistoryInv
<1>1. /\ hb.phase = "stored" /\ rows' = Trimmed(rows)
      /\ hb' = [hb EXCEPT !.phase = "answered", !.refresh = pending]
      /\ UNCHANGED <<clock, ring, retried>>
  BY DEF Answer, clockVars, ghostVars
<1>2. /\ hb'.phase = "answered" /\ hb'.samples = hb.samples /\ hb'.attempt = hb.attempt
      /\ rows \in Seq(Rows)
  BY <1>1, HistoryTyped DEF Heartbeats
<1>3. \A t : /\ Cardinality(Copies(rows', t)) <= Cardinality(Copies(rows, t))
             /\ Copies(rows, t) = {} => Copies(rows', t) = {}
  BY <1>1, <1>2, CopiesTrimmed
<1>4. \A i \in DOMAIN rows' : \E j \in DOMAIN rows : rows'[i] = rows[j]
  <2>1. PICK ids : StoodAt(ids, rows)
    BY <1>2, TrimmedProperties
  <2>2. QED
    BY <1>1, <2>1 DEF StoodAt
<1>5. SamplesAreNew'
  BY <1>1, <1>2, <1>4 DEF SamplesAreNew
<1>6. \A t : Cardinality(Copies(rows, t)) \in Nat /\ Cardinality(Copies(rows', t)) \in Nat
  BY <1>2, CopiesFinite DEF TypeOK
<1>7. \A t, k \in Nat : CopiesOf(t) <= k => Cardinality(Copies(rows', t)) <= k
  BY <1>3, <1>6 DEF CopiesOf
<1>8. MaxRetries \in Nat /\ hb.attempt \in Nat /\ 1 \in Nat
  BY HistoryTyped, Bounds
<1>9. \A t \in Times : /\ Cardinality(Copies(rows', t)) <= MaxRetries
                       /\ t \notin retried => Cardinality(Copies(rows', t)) <= 1
  BY <1>7, <1>8, Bounds DEF CopiesAreCounted
<1>10. \A i \in DOMAIN hb.samples : Cardinality(Copies(rows', hb.samples[i])) <= hb.attempt
  BY <1>1, <1>7, <1>8, HistoryTyped, Bounds DEF CopiesAreCounted
<1>11. \A i \in DOMAIN ring : Copies(rows', ring[i]) = {}
  BY <1>3 DEF CopiesAreCounted
<1>12. CopiesAreCounted'
  <2>1. \A i \in DOMAIN ring' : Copies(rows, ring[i])' = {}
    BY <1>1, <1>11
  <2>2. \A i \in DOMAIN hb'.samples : CopiesOf(hb.samples[i])' <= hb.attempt
    BY <1>2, <1>10 DEF CopiesOf
  <2>3. \A t \in Times : CopiesOf(t)' <= MaxRetries /\ (t \notin retried => CopiesOf(t)' <= 1)
    BY <1>9 DEF CopiesOf
  <2>4. QED
    BY <1>1, <1>2, <2>1, <2>2, <2>3 DEF CopiesAreCounted
<1>13. QED
  BY <1>5, <1>12

\* An attempt fails, and if it had been stored its samples are retried from now on.
LEMMA AttemptFailsKeeps ==
  ASSUME HistoryInv, TypeOK', AttemptFails, UNCHANGED <<clock, ring, rows>>,
         \/ hb.phase = "built" /\ retried' = retried
         \/ hb.phase \in {"stored", "answered"} /\ retried' = retried \cup ToSet(hb.samples)
  PROVE  HistoryInv'
<1> USE DEF HistoryInv
<1>1. retried \subseteq retried'
  OBVIOUS
<1>2. \A t : CopiesOf(t)' = CopiesOf(t)
  BY DEF CopiesOf
<1>3. \A t \in Times : CopiesOf(t) <= MaxRetries /\ (t \notin retried' => CopiesOf(t) <= 1)
  BY <1>1 DEF CopiesAreCounted
<1>4. CASE hb' = Idle
  <2>1. hb'.samples = <<>> /\ DOMAIN hb'.samples = {}
    BY <1>4 DEF Idle
  <2>2. SamplesAreNew'
    BY <2>1 DEF SamplesAreNew
  <2>3. CopiesAreCounted'
    BY <1>2, <1>3, <2>1 DEF CopiesAreCounted
  <2>4. QED
    BY <2>2, <2>3
<1>5. CASE hb' = [hb EXCEPT !.phase = "built", !.attempt = hb.attempt + 1, !.refresh = FALSE]
  <2>1. hb'.phase = "built" /\ hb'.samples = hb.samples /\ hb'.attempt = hb.attempt + 1
    BY <1>5, HistoryTyped DEF Heartbeats
  <2>2. SamplesAreNew'
    BY <2>1 DEF SamplesAreNew
  <2>3. ASSUME NEW i \in DOMAIN hb.samples
        PROVE  /\ CopiesOf(hb.samples[i]) <= (hb.attempt + 1) - 1
               /\ hb.samples[i] \notin retried' => Copies(rows, hb.samples[i]) = {}
    <3> DEFINE a == CopiesOf(hb.samples[i])
               k == hb.attempt
    <3>1. a \in Nat /\ k \in Nat
      <4>1. k \in Nat
        BY HistoryTyped, Bounds
      <4>2. rows \in Seq(Rows)
        BY HistoryTyped
      <4>3. a \in Nat
        BY <4>2, CopiesFinite DEF CopiesOf
      <4>4. QED
        BY <4>1, <4>3
    <3>2. CASE hb.phase = "built" /\ retried' = retried
      <4>1. a <= k - 1 /\ (hb.samples[i] \notin retried' => Copies(rows, hb.samples[i]) = {})
        BY <3>2 DEF CopiesAreCounted
      <4> HIDE DEF a, k
      <4>2. a <= (k + 1) - 1
        BY <3>1, <4>1
      <4>3. QED
        BY <4>1, <4>2 DEF a, k
    <3>3. CASE hb.phase \in {"stored", "answered"} /\ retried' = retried \cup ToSet(hb.samples)
      <4>1. hb.samples[i] \in retried'
        BY <3>3, HistoryTyped
      <4>2. CopiesOf(hb.samples[i]) <= hb.attempt
        BY <3>3 DEF CopiesAreCounted
      <4>3. QED
        BY <3>1, <4>1, <4>2
    <3>4. QED
      BY <3>2, <3>3
  <2>4. CopiesAreCounted'
    <3>1. \A i \in DOMAIN hb'.samples :
            /\ CopiesOf(hb.samples[i])' <= hb'.attempt - 1
            /\ hb'.samples[i] \notin retried' => Copies(rows', hb'.samples[i]) = {}
      BY <2>1, <2>3 DEF CopiesOf
    <3>2. \A i \in DOMAIN ring' : Copies(rows', ring'[i]) = {}
      BY DEF CopiesAreCounted
    <3>3. QED
      BY <1>2, <1>3, <2>1, <3>1, <3>2 DEF CopiesAreCounted
  <2>5. QED
    BY <2>2, <2>4
<1>6. QED
  BY <1>4, <1>5 DEF AttemptFails

\* Each step of the agent, the control plane and the network keeps the invariant.
LEMMA StepHistoryInv == HistoryInv /\ [Next]_vars => HistoryInv'
<1> SUFFICES ASSUME HistoryInv, [Next]_vars PROVE HistoryInv'
  OBVIOUS
<1> USE DEF clockVars, fpVars, serverVars, netVars, ghostVars
<1>1. TypeOK'
  BY StepTypeOK DEF HistoryInv
<1>2. clock \in Nat /\ clock <= clock
  BY HistoryTyped DEF HistoryInv
<1>3. Idle.samples = <<>>
  BY DEF Idle
<1>4. CASE Sample
  BY <1>1, <1>4, SampleKeeps
<1>5. CASE Build
  BY <1>1, <1>5, BuildKeeps
<1>6. CASE Store
  BY <1>1, <1>6, StoreKeeps
<1>7. CASE Answer
  BY <1>1, <1>7, AnswerKeeps
<1>8. CASE Unreachable \/ LoseReply \/ (ServerRestart /\ hb.phase = "stored")
  <2>1. AttemptFails /\ UNCHANGED <<clock, ring, rows>>
    BY <1>8 DEF Unreachable, LoseReply, ServerRestart
  <2>2. \/ hb.phase = "built" /\ retried' = retried
        \/ hb.phase \in {"stored", "answered"} /\ retried' = retried \cup ToSet(hb.samples)
    BY <1>8 DEF Unreachable, LoseReply, ServerRestart
  <2>3. QED
    BY <1>1, <2>1, <2>2, AttemptFailsKeeps
<1>9. CASE Tick
  <2>1. Quiet
    BY <1>2, <1>9 DEF Tick, NextSecond, Quiet
  <2>2. QED
    BY <1>1, <2>1, QuietKeeps
<1>10. CASE \/ Change \/ GoDown \/ ComeUp \/ StartCollecting \/ FinishCollecting
            \/ FailCollecting \/ CoolDown \/ Post \/ Ask
            \/ (ServerRestart /\ hb.phase # "stored") \/ UNCHANGED vars
  <2>1. UNCHANGED <<clock, rows, retried, ring, hb>>
    BY <1>10 DEF Change, GoDown, ComeUp, StartCollecting, FinishCollecting, FailCollecting,
                 CoolDown, Post, Ask, ServerRestart, vars
  <2>2. QED
    BY <1>1, <1>2, <2>1, QuietKeeps DEF Quiet
<1>11. CASE Receive \/ Reject \/ EndCycle \/ AgentRestart
  <2>1. UNCHANGED <<clock, rows, retried>> /\ (ring' = ring \/ ring' = <<>>)
    BY <1>11 DEF Receive, Reject, EndCycle, AgentRestart
  <2>2. hb'.samples = <<>>
    <3>1. hb' = Idle \/ hb' = [Idle EXCEPT !.phase = "working"]
      BY <1>11 DEF Receive, Reject, EndCycle, AgentRestart
    <3>2. QED
      BY <3>1 DEF Idle
  <2>3. QED
    BY <1>1, <1>2, <2>1, <2>2, QuietKeeps DEF Quiet
<1>12. QED
  BY <1>4, <1>5, <1>6, <1>7, <1>8, <1>9, <1>10, <1>11 DEF Next

\* Two rows with the same sample are two of its copies.
LEMMA StoredTwiceFollows == HistoryInv => StoredTwiceOnlyIfRetried
<1> SUFFICES ASSUME HistoryInv, NEW i \in DOMAIN rows, NEW j \in DOMAIN rows, i # j,
                    rows[i].kind = "sample", rows[j].kind = "sample",
                    rows[i].at = rows[j].at, rows[i].at \notin retried
             PROVE  FALSE
  BY DEF StoredTwiceOnlyIfRetried
<1> DEFINE t == rows[i].at
           C == Copies(rows, t)
<1>1. t \in Times /\ rows \in Seq(Rows)
  BY HistoryTyped DEF HistoryInv
<1>2. Cardinality(C) <= 1
  BY <1>1 DEF HistoryInv, CopiesAreCounted, CopiesOf
<1>3. IsFiniteSet(C) /\ Cardinality(C) \in Nat
  BY <1>1, CopiesFinite
<1>4. i \in C /\ j \in C
  BY DEF Copies
<1> HIDE DEF C
<1>5. /\ IsFiniteSet(C \ {i}) /\ Cardinality(C \ {i}) = Cardinality(C) - 1
  BY <1>3, <1>4, FS_RemoveElement
<1>6. Cardinality(C \ {i}) = 0
  BY <1>2, <1>3, <1>5, FS_CardinalityType
<1>7. C \ {i} = {}
  BY <1>5, <1>6, FS_EmptySet
<1>8. QED
  BY <1>4, <1>7

--------------------------------------------------------------------------------
(* LatestStatusKept. *)

\* The base row of the last heartbeat is as new as any row.
BaseFirst(s) ==
    \E b \in DOMAIN s : s[b].kind = "base" /\ \A i \in DOMAIN s : s[i].at <= s[b].at

BaseIsNewest == rows # <<>> => BaseFirst(rows)

\* The rows that are newer than the newest base row are the copies of one sample, and
\* there are fewer than Keep of them: trimming leaves the base row.
LEMMA TrimmedKeepsBase ==
  ASSUME NEW s \in Seq(Rows), BaseFirst(s), MaxRetries < Keep,
         \A t \in Times : Cardinality(Copies(s, t)) <= MaxRetries
  PROVE  BaseFirst(Trimmed(s))
<1> DEFINE B == {b \in DOMAIN s : /\ s[b].kind = "base"
                                  /\ \A i \in DOMAIN s : s[i].at <= s[b].at}
<1>1. \A i \in DOMAIN s : s[i].at \in Times /\ s[i].at \in Nat
                          /\ s[i].kind \in {"base", "sample"}
  <2>1. \A row \in Rows : row.at \in Times /\ row.kind \in {"base", "sample"}
    BY DEF Rows
  <2>2. \A i \in DOMAIN s : s[i] \in Rows
    OBVIOUS
  <2>3. QED
    BY <2>1, <2>2, Bounds
<1>2. PICK b \in B : \A j \in B : ~Newer(s, j, b)
  <2>1. B # {} /\ B \subseteq DOMAIN s
    BY DEF BaseFirst
  <2> HIDE DEF B
  <2>2. QED
    BY <2>1, NewestExists, Bounds
<1> DEFINE N == {j \in DOMAIN s : Newer(s, j, b)}
           C == Copies(s, s[b].at)
<1>3. N \subseteq C
  <2> SUFFICES ASSUME NEW j \in DOMAIN s, Newer(s, j, b) PROVE j \in C
    OBVIOUS
  <2>1. s[j].at = s[b].at
    <3>1. s[j].at >= s[b].at
      BY NewerIsOrder, Bounds
    <3>2. QED
      BY <1>1, <3>1
  <2>2. s[j].kind # "base"
    <3>1. j \notin B
      BY <1>2
    <3>2. QED
      BY <2>1, <3>1
  <2>3. QED
    BY <1>1, <2>1, <2>2 DEF Copies
<1>4. Cardinality(N) < Keep
  <2>1. IsFiniteSet(C) /\ Cardinality(C) \in Nat /\ Cardinality(C) <= MaxRetries
    BY <1>1, CopiesFinite
  <2> HIDE DEF N, C
  <2>2. Cardinality(N) <= Cardinality(C) /\ Cardinality(N) \in Nat
    BY <1>3, <2>1, FS_Subset, FS_CardinalityType
  <2>3. QED
    BY <2>1, <2>2, Bounds
<1>5. b \in Kept(s)
  BY <1>4 DEF Kept
<1>6. PICK ids : StoodAt(ids, s)
  BY TrimmedProperties
<1>7. PICK k \in DOMAIN Trimmed(s) : ids[k] = b
  BY <1>5, <1>6 DEF StoodAt
<1>8. Trimmed(s)[k] = s[b] /\ \A l \in DOMAIN Trimmed(s) : Trimmed(s)[l].at <= s[b].at
  BY <1>6, <1>7 DEF StoodAt
<1>9. QED
  BY <1>8 DEF BaseFirst

\* Without skew a stored heartbeat has no row that is newer than its base row; only
\* storing and trimming change the rows.
LEMMA StepBaseIsNewest ==
  ASSUME Skew = 0, MaxRetries < Keep, HistoryInv, HistoryInv', BaseIsNewest, [Next]_vars
  PROVE  BaseIsNewest'
<1> USE DEF clockVars, fpVars, serverVars, netVars, ghostVars
<1>1. CASE Store
  <2> DEFINE c == rows \o SnapshotRows(clock, hb)
             b == Len(rows) + 1
  <2>1. rows' = c /\ clock' = clock /\ clock \in 0..MaxClock
        /\ rows \in Seq(Rows) /\ hb \in Heartbeats
    BY <1>1, HistoryTyped DEF Store, HistoryInv, TypeOK
  <2>2. b \in DOMAIN c /\ c[b] = BaseRow(clock, hb.fp)
    <3> DEFINE n == Len(rows)
               m == Len(hb.samples)
    <3>1. /\ DOMAIN c = 1..(n + 1 + m) /\ m \in Nat /\ n \in Nat
          /\ c[n + 1] = BaseRow(clock, hb.fp)
      BY <2>1, StoredRows
    <3> HIDE DEF c, n, m
    <3>2. n + 1 \in DOMAIN c
      BY <3>1
    <3>3. QED
      BY <3>1, <3>2 DEF n
  <2>3. c[b].kind = "base" /\ c[b].at = clock
    BY <2>2 DEF BaseRow
  <2>4. \A i \in DOMAIN rows' : rows'[i].at <= clock + 0
    BY <2>1 DEF HistoryInv, SamplesAreNew
  <2>5. BaseFirst(rows')
    <3> HIDE DEF b, c
    <3>1. \A i \in DOMAIN c : c[i].at <= clock
      BY <2>1, <2>4
    <3>2. QED
      BY <2>1, <2>2, <2>3, <3>1 DEF BaseFirst
  <2>6. QED
    BY <2>5 DEF BaseIsNewest
<1>2. CASE Answer
  <2>1. rows' = Trimmed(rows) /\ rows \in Seq(Rows)
    BY <1>2, HistoryTyped DEF Answer, HistoryInv
  <2>2. CASE rows = <<>>
    <3>1. Trimmed(rows) \in Seq(Rows) /\ \E ids : ids \in [DOMAIN Trimmed(rows) -> DOMAIN rows]
      BY <2>1, TrimmedProperties DEF StoodAt
    <3>2. DOMAIN rows = {}
      BY <2>2
    <3>3. DOMAIN Trimmed(rows) = {}
      BY <3>1, <3>2
    <3>4. rows' = <<>>
      <4> DEFINE left == Trimmed(rows)
      <4>1. left \in Seq(Rows) /\ DOMAIN left = {}
        BY <3>1, <3>3
      <4> HIDE DEF left
      <4>2. Len(left) = 0
        BY <4>1
      <4>3. left = <<>>
        BY <4>1, <4>2
      <4>4. QED
        BY <2>1, <4>3 DEF left
    <3>5. QED
      BY <3>4 DEF BaseIsNewest
  <2>3. CASE rows # <<>>
    <3>1. \A t \in Times : Cardinality(Copies(rows, t)) <= MaxRetries
      BY DEF HistoryInv, CopiesAreCounted, CopiesOf
    <3>2. QED
      BY <2>1, <2>3, <3>1, TrimmedKeepsBase DEF BaseIsNewest
  <2>4. QED
    BY <2>2, <2>3
<1>3. CASE ~Store /\ ~Answer
  <2>1. rows' = rows
    BY <1>3 DEF Next, vars, Change, GoDown, ComeUp, Sample, Tick, StartCollecting,
                FinishCollecting, FailCollecting, CoolDown, Build, Receive, Unreachable,
                LoseReply, Reject, Post, EndCycle, Ask, ServerRestart, AgentRestart
  <2>2. QED
    BY <2>1 DEF BaseIsNewest
<1>4. QED
  BY <1>1, <1>2, <1>3

\* The newest of the base rows is the latest status.
LEMMA LatestStatusFollows == HistoryInv /\ BaseIsNewest => LatestStatusKept
<1> SUFFICES ASSUME HistoryInv, BaseIsNewest, rows # <<>> PROVE LatestStatus # {}
  BY DEF LatestStatusKept
<1> DEFINE bases == {i \in DOMAIN rows : rows[i].kind = "base"}
<1>1. rows \in Seq(Rows) /\ bases \subseteq DOMAIN rows /\ bases # {}
  BY HistoryTyped DEF HistoryInv, BaseIsNewest, BaseFirst
<1>2. PICK b \in bases : \A j \in bases : ~Newer(rows, j, b)
  <2> HIDE DEF bases
  <2>1. QED
    BY <1>1, NewestExists, Bounds
<1>3. rows[b] \in LatestStatus
  BY <1>2 DEF LatestStatus
<1>4. QED
  BY <1>3

--------------------------------------------------------------------------------
(* What holds of every behaviour. *)

(* The state of the agent and of the control plane is what the code keeps it to: *)
(* the ring is no longer than its capacity, a heartbeat is at an attempt it has, *)
(* the failures of the breaker stop at the threshold.                            *)
THEOREM TypeCorrect == Spec => []TypeOK
<1>1. QED
  BY InitTypeOK, StepTypeOK, PTL DEF Spec

(* Of two rows with the same sample one was stored again, after the reply to the *)
(* heartbeat that had stored it was lost: _build_payload drains the ring, and    *)
(* the client posts the same body in each of its attempts.                       *)
THEOREM StoredTwiceOnlyIfRetriedHolds == Spec => []StoredTwiceOnlyIfRetried
<1>1. QED
  BY InitHistoryInv, StepHistoryInv, StoredTwiceFollows, PTL DEF Spec

(* A node that has reported has a latest status, provided that its clock is not  *)
(* ahead and that the history keeps more rows than a call has attempts: among    *)
(* the rows trim_node_status_history keeps is the one get_latest_status shows.   *)
THEOREM LatestStatusKeptHolds ==
  ASSUME Skew = 0, MaxRetries < Keep
  PROVE  Spec => []LatestStatusKept
<1>1. Init => HistoryInv /\ BaseIsNewest
  BY InitHistoryInv DEF Init, BaseIsNewest
<1>2. HistoryInv /\ BaseIsNewest /\ [Next]_vars => (HistoryInv /\ BaseIsNewest)'
  BY StepHistoryInv, StepBaseIsNewest
<1>3. QED
  BY <1>1, <1>2, LatestStatusFollows, PTL DEF Spec

(* A heartbeat that is answered leaves no more rows than max_status_history, how *)
(* many unanswered ones and what bursts of samples there have been before it.    *)
THEOREM HistoryBounded == Spec => [][Answer => Len(rows') <= Keep]_vars
<1>1. TypeOK => rows \in Seq(Rows)
  BY DEF TypeOK
<1>2. TypeOK /\ [Next]_vars => [Answer => Len(rows') <= Keep]_vars
  BY <1>1, TrimmedIsBounded, Bounds DEF Answer
<1>3. QED
  BY <1>2, InitTypeOK, StepTypeOK, PTL DEF Spec

================================================================================
