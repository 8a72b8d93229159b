--------------------------- MODULE Backend_proofs ---------------------------
(***************************************************************************)
(* Proofs about what stands between a request and the handlers.            *)
(*                                                                         *)
(* For any limit, window and number of workers: the request limit holds    *)
(* although the workers' clocks lag behind each other.                     *)
(***************************************************************************)
EXTENDS Backend, FiniteSetTheorems, TLAPS

-----------------------------------------------------------------------------
(* The request limit.                                                      *)

RequestLimitSpec == RequestLimitInit /\ [][RequestLimitNext]_requestLimitVars

(* No request is later than its clock allows, and the key outlives what    *)
(* still counts.                                                           *)
LimitTypeOK ==
  /\ second \in Nat /\ expires \in Int
  /\ zset \subseteq 0 .. second
  /\ passed \subseteq 0 .. second
  /\ arrived \in [Worker -> -1 .. second]
  /\ \A w \in Worker : arrived[w] # -1 => second <= arrived[w] + MaxDelay
  /\ \A x \in zset : x + WindowSeconds < expires

(* An instant that passed still counts unless a window has gone by, or is  *)
(* going by right now with a request of this very second that counts.      *)
StillCounts(x) ==
  \/ x \in zset
  \/ x + WindowSeconds < second
  \/ x + WindowSeconds = second /\ second \in zset

LimitInv == LimitTypeOK /\ (\A x \in passed : StillCounts(x)) /\ LimitHolds

Window(t) == t - (WindowSeconds - MaxDelay) .. t

(* Instants up to now can be counted.                                      *)
LEMMA FiniteUpTo ==
  ASSUME NEW n \in Nat, NEW S, S \subseteq 0 .. n
  PROVE  IsFiniteSet(S) /\ Cardinality(S) \in Nat
<1>1. IsFiniteSet(0 .. n)
  BY FS_Interval
<1> QED BY <1>1, FS_Subset, FS_CardinalityType

(* Part of a finite set is finite and not larger.                          *)
LEMMA SmallerSet ==
  ASSUME NEW S, NEW T, IsFiniteSet(S), T \subseteq S
  PROVE  /\ IsFiniteSet(T) /\ Cardinality(T) \in Nat /\ Cardinality(S) \in Nat
         /\ Cardinality(T) <= Cardinality(S)
BY FS_Subset, FS_CardinalityType

(* A request that passes meets the limit in every window: at most the      *)
(* oldest instant of the window no longer counts, and then one newer than  *)
(* the window does.                                                        *)
LEMMA PassingKeepsLimit ==
  ASSUME RequestLimitAssumption, NEW latest \in Nat,
         NEW now \in 0 .. latest, latest <= now + MaxDelay,
         NEW P, P \subseteq 0 .. latest, NEW after, after \subseteq 0 .. latest,
         \A x \in P : \/ x \in after \/ x + WindowSeconds < latest
                      \/ x + WindowSeconds = latest /\ latest \in after,
         NEW t \in 0 .. latest, now \in Window(t)
  PROVE  Cardinality(P \cap Window(t)) <= Cardinality(after)
<1> DEFINE Q == P \cap Window(t)
<1> USE DEF RequestLimitAssumption
<1>1. /\ IsFiniteSet(Q) /\ Cardinality(Q) \in Nat
      /\ IsFiniteSet(after) /\ Cardinality(after) \in Nat
  <2>1. Q \subseteq 0 .. latest
    OBVIOUS
  <2> HIDE DEF Q
  <2> QED BY <2>1, FiniteUpTo
<1>2. CASE Q \subseteq after
  BY <1>1, <1>2, SmallerSet
<1>3. CASE ~ (Q \subseteq after)
  <2>1. PICK x \in Q : x \notin after
    BY <1>3
  <2>2. x + WindowSeconds = latest /\ latest \in after /\ latest = t + MaxDelay
    BY <2>1 DEF Window
  <2>3. \A y \in Q : y # x => y \in after
    BY <2>2 DEF Window
  <2>4. latest \notin Q
    BY <2>2 DEF Window
  <2> DEFINE R == Q \ {x}
  <2>6. IsFiniteSet(R) /\ Cardinality(R) = Cardinality(Q) - 1
    BY <1>1, <2>1, FS_RemoveElement
  <2>7. Cardinality(R \cup {latest}) = Cardinality(R) + 1
    BY <2>4, <2>6, FS_AddElement
  <2>8. R \cup {latest} \subseteq after
    BY <2>2, <2>3
  <2>9. Cardinality(R \cup {latest}) <= Cardinality(after)
    BY <1>1, <2>8, SmallerSet
  <2> QED
    BY <1>1, <2>6, <2>7, <2>9
<1> QED
  BY <1>2, <1>3

(* No arrival, pipeline, failure or passing second breaks the invariant.   *)
LEMMA LimitInvariance == RequestLimitSpec => []LimitInv
<1> USE RequestLimitAssumption DEF RequestLimitAssumption
<1>1. RequestLimitInit => LimitInv
  <2> SUFFICES ASSUME RequestLimitInit PROVE LimitInv
    OBVIOUS
  <2>1. LimitTypeOK /\ \A x \in passed : StillCounts(x)
    BY DEF RequestLimitInit, LimitTypeOK
  <2>2. LimitHolds
    <3>1. \A t \in 0 .. second : passed \cap (t - (WindowSeconds - MaxDelay) .. t) = {}
      BY DEF RequestLimitInit
    <3> QED BY <3>1, FS_EmptySet DEF LimitHolds
  <2> QED BY <2>1, <2>2 DEF LimitInv
<1>2. ASSUME LimitInv, [RequestLimitNext]_requestLimitVars PROVE LimitInv'
  <2> USE <1>2 DEF LimitInv
  <2>1. ASSUME NEW w \in Worker, Arrive(w) PROVE LimitInv'
    BY <2>1 DEF Arrive, LimitTypeOK, StillCounts, LimitHolds
  <2>2. ASSUME NEW w \in Worker, FailOpen(w) PROVE LimitInv'
    BY <2>2 DEF FailOpen, LimitTypeOK, StillCounts, LimitHolds
  <2>3. ASSUME NEW w \in Worker, Pipeline(w) PROVE LimitInv'
    <3> DEFINE now == arrived[w]
               after == Kept(now) \cup {now}
    <3>1. /\ now \in 0 .. second /\ second <= now + MaxDelay
          /\ zset' = after /\ expires' = second + WindowSeconds + 1
          /\ passed' = IF Cardinality(after) > MaxRequests THEN passed ELSE passed \cup {now}
          /\ arrived' = [arrived EXCEPT ![w] = -1] /\ second' = second
      BY <2>3 DEF Pipeline, LimitTypeOK
    <3>2. after \subseteq 0 .. second
      BY <3>1 DEF Kept, LimitTypeOK
    <3> HIDE DEF after
    <3>3. LimitTypeOK'
      <4>1. passed' \subseteq 0 .. second /\ zset' \subseteq 0 .. second
        BY <3>1, <3>2 DEF LimitTypeOK
      <4>2. \A x \in zset' : x + WindowSeconds < expires'
        BY <3>1, <3>2 DEF LimitTypeOK
      <4>3. /\ arrived' \in [Worker -> -1 .. second]
            /\ \A v \in Worker : arrived'[v] # -1 => second <= arrived'[v] + MaxDelay
        BY <3>1 DEF LimitTypeOK
      <4> QED BY <3>1, <4>1, <4>2, <4>3 DEF LimitTypeOK
    <3>4. \A x \in passed' : StillCounts(x)'
      BY <3>1 DEF after, Kept, StillCounts, LimitTypeOK
    <3>5. ASSUME NEW t \in 0 .. second
          PROVE  Cardinality(passed' \cap Window(t)) <= MaxRequests
      <4>1. CASE passed' \cap Window(t) = passed \cap Window(t)
        BY <4>1, <3>5 DEF LimitHolds, Window
      <4>2. CASE passed' \cap Window(t) # passed \cap Window(t)
        <5>1. Cardinality(after) <= MaxRequests /\ now \in Window(t)
          <6>1. ~ (Cardinality(after) > MaxRequests) /\ now \in Window(t)
            BY <4>2, <3>1
          <6>2. Cardinality(after) \in Nat
            BY <3>2, FiniteUpTo DEF LimitTypeOK
          <6> QED BY <6>1, <6>2
        <5>2. passed' \subseteq 0 .. second
          BY <3>1, <3>3 DEF LimitTypeOK
        <5>3. Cardinality(passed' \cap Window(t)) <= Cardinality(after)
          <6>1. \A x \in passed' : \/ x \in after \/ x + WindowSeconds < second
                                   \/ x + WindowSeconds = second /\ second \in after
            BY <3>1, <3>4 DEF StillCounts
          <6> HIDE DEF now
          <6> QED BY <6>1, <5>1, <5>2, <3>1, <3>2, PassingKeepsLimit DEF LimitTypeOK
        <5>4. Cardinality(passed' \cap Window(t)) \in Nat /\ Cardinality(after) \in Nat
          <6>1. passed' \cap Window(t) \subseteq 0 .. second
            BY <5>2
          <6>2. second \in Nat
            BY DEF LimitTypeOK
          <6> QED BY <6>1, <6>2, <3>2, FiniteUpTo
        <5> QED BY <5>1, <5>3, <5>4
      <4> QED BY <4>1, <4>2
    <3>6. LimitHolds'
      BY <3>1, <3>5 DEF LimitHolds, Window
    <3> QED BY <3>3, <3>4, <3>6
  <2>4. CASE NextSecond
    <3> USE <2>4 DEF NextSecond
    <3>1. LimitTypeOK'
      <4>1. passed' \subseteq 0 .. second' /\ zset' \subseteq 0 .. second'
        <5>1. 0 .. second \subseteq 0 .. second'
          BY DEF LimitTypeOK
        <5>2. passed' = passed /\ zset' \subseteq zset
          OBVIOUS
        <5> QED BY <5>1, <5>2 DEF LimitTypeOK
      <4>2. \A x \in zset' : x + WindowSeconds < expires'
        BY DEF LimitTypeOK
      <4>3. /\ arrived' \in [Worker -> -1 .. second']
            /\ \A v \in Worker : arrived'[v] # -1 => second' <= arrived'[v] + MaxDelay
        BY DEF LimitTypeOK
      <4> QED BY <4>1, <4>2, <4>3 DEF LimitTypeOK
    <3>2. \A x \in passed' : StillCounts(x)'
      BY DEF LimitTypeOK, StillCounts
    <3>3. LimitHolds'
      <4> SUFFICES ASSUME NEW t \in 0 .. second + 1
                   PROVE  Cardinality(passed \cap Window(t)) <= MaxRequests
        BY DEF LimitHolds, Window, LimitTypeOK
      <4>1. CASE t <= second
        BY <4>1 DEF LimitHolds, Window, LimitTypeOK
      <4>2. CASE t = second + 1
        <5>1. passed \cap Window(t) \subseteq passed \cap Window(second)
          BY <4>2 DEF Window, LimitTypeOK
        <5>2. IsFiniteSet(passed \cap Window(second))
          <6>1. passed \cap Window(second) \subseteq 0 .. second
            BY DEF LimitTypeOK
          <6> QED BY <6>1, FiniteUpTo DEF LimitTypeOK
        <5>4. Cardinality(passed \cap Window(second)) <= MaxRequests
          BY DEF LimitHolds, Window, LimitTypeOK
        <5> QED BY <5>1, <5>2, <5>4, SmallerSet
      <4> QED BY <4>1, <4>2 DEF LimitTypeOK
    <3> QED BY <3>1, <3>2, <3>3
  <2>5. CASE UNCHANGED requestLimitVars
    BY <2>5 DEF requestLimitVars, LimitTypeOK, StillCounts, LimitHolds
  <2> QED BY <2>1, <2>2, <2>3, <2>4, <2>5 DEF RequestLimitNext
<1> QED BY <1>1, <1>2, PTL DEF RequestLimitSpec

(* LimitHolds, about the sliding window in Redis: although the pipelines   *)
(* of requests run up to MaxDelay seconds late and out of order, in every  *)
(* WindowSeconds - MaxDelay + 1 seconds in a row no more than MaxRequests  *)
(* instants pass a check.                                                  *)
THEOREM RequestLimitHolds == RequestLimitSpec => []LimitHolds
<1>1. LimitInv => LimitHolds
  BY DEF LimitInv
<1> QED BY <1>1, LimitInvariance, PTL

-----------------------------------------------------------------------------
(* The parts together.                                                     *)

(* A behaviour of the backend is one of the request limit.                 *)
LEMMA LimitFollowed == Spec => RequestLimitSpec
<1>1. Init => RequestLimitInit
  BY DEF Init
<1>2. [Next]_vars => [RequestLimitNext]_requestLimitVars
  BY DEF Next, vars, LimitStep, KeyStep, MetricsStep
<1> QED BY <1>1, <1>2, PTL DEF Spec, RequestLimitSpec

(* LimitHolds in front of the API, where a request also passes the key     *)
(* check and the metrics: neither takes anything from the limit.           *)
THEOREM BackendSafe == Spec => []LimitHolds
BY LimitFollowed, RequestLimitHolds, PTL

=============================================================================
