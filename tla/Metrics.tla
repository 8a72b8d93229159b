------------------------------ MODULE Metrics ------------------------------
(***************************************************************************)
(* The request metrics, server/app/middleware/metrics.py: requests that    *)
(* end leave a duration and are counted, and flush_metrics drains what has *)
(* been left and publishes it in chunks, each one accepted by CloudWatch   *)
(* or dropped.  Both hold the lock while they touch the buffers, and only  *)
(* then: requests end, and other flushes run, between two chunks.          *)
(*                                                                         *)
(* A counter is the set of the requests that it counts, and a data point   *)
(* names the requests that it speaks of.                                   *)
(***************************************************************************)
EXTENDS Naturals, Sequences

CONSTANTS
  Handled,          \* the requests, each handled once
  Flusher,          \* threads that may call flush_metrics at the same time
  ChunkSize         \* chunk_size of _publish_in_chunks

ASSUME MetricsAssumption ==
  ChunkSize \in Nat \ {0} /\ Flusher \cap {"buffer", "received", "dropped"} = {}

VARIABLES
  durations,        \* _pending_durations
  request_count,    \* _request_count
  error_5xx_count,  \* _error_5xx_count
  flush,            \* what each flush in progress has yet to publish
  received,         \* what CloudWatch has accepted
  dropped,          \* what a failing call, or no client to call, has cost
  finished,         \* ghost: the requests that ended with a response
  failed            \* ghost: those of them whose status was 5xx

metricsVars == <<durations, request_count, error_5xx_count, flush, received, dropped,
                 finished, failed>>

MetricsInit ==
  /\ durations = <<>> /\ request_count = {} /\ error_5xx_count = {}
  /\ flush = [f \in Flusher |-> <<>>]
  /\ received = <<>> /\ dropped = <<>>
  /\ finished = {} /\ failed = {}

(* dispatch, after call_next has returned a response.  A request whose     *)
(* handler raises leaves nothing.                                          *)
Dispatch(r) ==
  /\ r \notin finished
  /\ durations' = Append(durations, r)
  /\ request_count' = request_count \cup {r}
  /\ \/ error_5xx_count' = error_5xx_count \cup {r} /\ failed' = failed \cup {r}
     \/ UNCHANGED <<error_5xx_count, failed>>
  /\ finished' = finished \cup {r}
  /\ UNCHANGED <<flush, received, dropped>>

(* metric_data: the samples in order, then the counters that are not zero. *)
Counter(name, counted) ==
  IF counted = {} THEN <<>> ELSE <<[name |-> name, of |-> counted]>>

MetricData ==
  [i \in DOMAIN durations |-> [name |-> "api_response_time_ms", of |-> {durations[i]}]]
    \o Counter("http_request_count", request_count)
    \o Counter("http_5xx_count", error_5xx_count)

(* Mutant of FlushMetrics: the drained samples are not taken out. *)
FlushMetricsCopying(f) ==
  /\ flush[f] = <<>> /\ MetricData # <<>>
  /\ request_count' = {} /\ error_5xx_count' = {}
  /\ flush' = [flush EXCEPT ![f] = MetricData]
  /\ UNCHANGED <<durations, received, dropped, finished, failed>>

(* flush_metrics up to the first call.  The buffers are empty by then,     *)
(* also if no client can be created.                                       *)
FlushMetrics(f) ==
  /\ flush[f] = <<>> /\ MetricData # <<>>
  /\ durations' = <<>> /\ request_count' = {} /\ error_5xx_count' = {}
  /\ \/ flush' = [flush EXCEPT ![f] = MetricData] /\ UNCHANGED dropped
     \/ dropped' = dropped \o MetricData /\ UNCHANGED flush
  /\ UNCHANGED <<received, finished, failed>>

(* One turn of the loop in _publish_in_chunks: a call that fails is logged *)
(* and the next chunk follows.                                             *)
PublishChunk(f) ==
  LET size == IF Len(flush[f]) < ChunkSize THEN Len(flush[f]) ELSE ChunkSize
      chunk == SubSeq(flush[f], 1, size)
  IN /\ flush[f] # <<>>
     /\ flush' = [flush EXCEPT ![f] = SubSeq(@, size + 1, Len(@))]
     /\ \/ received' = received \o chunk /\ UNCHANGED dropped
        \/ dropped' = dropped \o chunk /\ UNCHANGED received
     /\ UNCHANGED <<durations, request_count, error_5xx_count, finished, failed>>

MetricsNext ==
  \/ \E r \in Handled : Dispatch(r)
  \/ \E f \in Flusher : FlushMetrics(f) \/ PublishChunk(f)

-----------------------------------------------------------------------------

(* Every place where a data point can be.                                  *)
Points == [p \in Flusher \cup {"buffer", "received", "dropped"} |->
             CASE p = "buffer"   -> MetricData
               [] p = "received" -> received
               [] p = "dropped"  -> dropped
               [] OTHER          -> flush[p]]

(* In how many places and positions metric `name` has request r.           *)
Mentions(name, r) ==
  UNION {{<<p, i>> : i \in {j \in DOMAIN Points[p] :
            Points[p][j].name = name /\ r \in Points[p][j].of}} : p \in DOMAIN Points}

Once(S) == \E x \in S : S = {x}

(***************************************************************************)
(* However requests end while flushes publish and overlap, each request is *)
(* in each metric exactly once: no sample is published twice, none is lost *)
(* but with a call that failed, and the samples and the counters of any    *)
(* moment speak of the same requests.                                      *)
(***************************************************************************)
CountedOnce ==
  \A r \in Handled :
    IF r \in finished
    THEN /\ Once(Mentions("api_response_time_ms", r))
         /\ Once(Mentions("http_request_count", r))
         /\ IF r \in failed THEN Once(Mentions("http_5xx_count", r))
                            ELSE Mentions("http_5xx_count", r) = {}
    ELSE \A name \in {"api_response_time_ms", "http_request_count", "http_5xx_count"} :
           Mentions(name, r) = {}

=============================================================================
