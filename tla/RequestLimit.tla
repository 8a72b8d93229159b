---------------------------- MODULE RequestLimit ----------------------------
(***************************************************************************)
(* The HTTP rate limit, server/app/middleware/rate_limit.py, for one user: *)
(* a sorted set in Redis shared by all replicas.  A request reads its      *)
(* clock first and the pipeline, which Redis executes as one transaction,  *)
(* may run later, after pipelines of requests that came later.             *)
(***************************************************************************)
EXTENDS Integers, FiniteSets

CONSTANTS
  Worker,           \* requests in progress at a time
  MaxRequests,      \* _MAX_REQUESTS
  WindowSeconds,    \* _WINDOW_SECONDS
  MaxDelay,         \* bound: seconds from reading the clock to the pipeline
  LastSecond        \* bound: the clock

ASSUME RequestLimitAssumption ==
  /\ MaxRequests \in Nat \ {0} /\ WindowSeconds \in Nat \ {0} /\ LastSecond \in Nat
  /\ MaxDelay \in 1 .. WindowSeconds - 1

VARIABLES
  second,           \* time.time(), the same on all replicas
  zset,             \* rate_limit:{user}: members, which are their own scores
  expires,          \* when Redis drops the key
  arrived,          \* worker -> the time its request has read, or -1
  passed            \* ghost: the times of requests that passed the check

requestLimitVars == <<second, zset, expires, arrived, passed>>

RequestLimitInit ==
  /\ second = 0 /\ zset = {} /\ expires = 0 /\ passed = {}
  /\ arrived = [w \in Worker |-> -1]

(* A request that is not for an exempt path reads the clock. *)
Arrive(w) ==
  /\ arrived[w] = -1
  /\ arrived' = [arrived EXCEPT ![w] = second]
  /\ UNCHANGED <<second, zset, expires, passed>>

(* Mutant of Kept: the window is one second short. *)
KeptShort(now) == {t \in zset : t > now - WindowSeconds + 1}

(* zremrangebyscore(key, 0, now - window), ends included. *)
Kept(now) == {t \in zset : t > now - WindowSeconds}

(* The pipeline.  The member is the time itself, so requests of one        *)
(* instant count once; a request is counted even if it is then rejected.   *)
Pipeline(w) ==
  LET now   == arrived[w]
      after == Kept(now) \cup {now}
  IN /\ now # -1
     /\ zset' = after
     /\ expires' = second + WindowSeconds + 1
     /\ passed' = IF Cardinality(after) > MaxRequests THEN passed ELSE passed \cup {now}
     /\ arrived' = [arrived EXCEPT ![w] = -1]
     /\ UNCHANGED second

(* Redis fails: the request passes unchecked and is not counted. *)
FailOpen(w) ==
  /\ arrived[w] # -1
  /\ arrived' = [arrived EXCEPT ![w] = -1]
  /\ UNCHANGED <<second, zset, expires, passed>>

NextSecond ==
  /\ second < LastSecond
  /\ \A w \in Worker : arrived[w] = -1 \/ second < arrived[w] + MaxDelay
  /\ second' = second + 1
  /\ zset' = IF second' >= expires THEN {} ELSE zset
  /\ UNCHANGED <<expires, arrived, passed>>

RequestLimitNext ==
  \/ NextSecond
  \/ \E w \in Worker : Arrive(w) \/ Pipeline(w) \/ FailOpen(w)

(***************************************************************************)
(* Checked requests keep to the limit although their pipelines run out of  *)
(* order: a late one can miss what newer clocks, ahead by the delay at     *)
(* most, have evicted, but the request that evicted counts as well.  In    *)
(* every WindowSeconds - MaxDelay + 1 seconds in a row no more than        *)
(* MaxRequests instants pass.                                              *)
(***************************************************************************)
LimitHolds ==
  \A t \in 0 .. second :
    Cardinality(passed \cap (t - (WindowSeconds - MaxDelay) .. t)) <= MaxRequests

=============================================================================
