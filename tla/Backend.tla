------------------------------ MODULE Backend ------------------------------
(***************************************************************************)
(* What stands between a request and the handlers.  The request limit, the *)
(* cached keys and the metrics are passed one after the other and share no *)
(* state, so every behaviour here follows one of them.                     *)
(***************************************************************************)
EXTENDS RequestLimit, Jwks, Metrics

VARIABLE followed  \* the part this behaviour follows

vars == <<followed, requestLimitVars, jwksVars, metricsVars>>

Init ==
  /\ followed \in {"limit", "keys", "metrics"}
  /\ RequestLimitInit /\ JwksInit /\ MetricsInit

LimitStep == followed = "limit" /\ RequestLimitNext /\ UNCHANGED <<followed, jwksVars, metricsVars>>

KeyStep == followed = "keys" /\ JwksNext /\ UNCHANGED <<followed, requestLimitVars, metricsVars>>

MetricsStep ==
  followed = "metrics" /\ MetricsNext /\ UNCHANGED <<followed, requestLimitVars, jwksVars>>

Next == LimitStep \/ KeyStep \/ MetricsStep

Spec == Init /\ [][Next]_vars /\ JwksFairness

=============================================================================
