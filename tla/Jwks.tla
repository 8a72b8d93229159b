-------------------------------- MODULE Jwks --------------------------------
(***************************************************************************)
(* Token validation against Clerk's published keys, fetch_jwks and         *)
(* validate_token of server/app/auth.py.  All requests share one cached    *)
(* copy of the key set in Redis; a request that finds none fetches the     *)
(* document from Clerk, and others run while it waits.  Of a token only    *)
(* the key that signed it matters; expiry, issuer and audience are checked *)
(* after the key is found and leave the cache alone.                       *)
(***************************************************************************)
EXTENDS Naturals

CONSTANTS
  Key,              \* kid of Clerk's signing keys
  Request,          \* requests handled at the same time
  TTL,              \* _JWKS_CACHE_TTL_SECONDS, in ticks
  MaxRotations,     \* bound: changes of the published key set
  Empty             \* no document

ASSUME JwksAssumption ==
  TTL \in Nat \ {0} /\ MaxRotations \in Nat /\ Empty \notin Key

VARIABLES
  published,        \* the key set Clerk serves
  cache,            \* jwks:clerk
  ttl,              \* what is left of the cached copy's time
  request,          \* the requests: step, key of the token, document in hand
  rotations         \* changes of the key set so far

jwksVars == <<published, cache, ttl, request, rotations>>

NoRequest == [step |-> "none"]

JwksInit ==
  /\ published \in {{k} : k \in Key}
  /\ cache = Empty /\ ttl = 0
  /\ request = [r \in Request |-> NoRequest]
  /\ rotations = 0

(* Clerk adds a key or withdraws one. *)
Rotate ==
  /\ rotations < MaxRotations
  /\ \E k \in Key : \/ k \notin published /\ published' = published \cup {k}
                    \/ published # {k} /\ published' = published \ {k}
  /\ rotations' = rotations + 1
  /\ published' # published
  /\ UNCHANGED <<cache, ttl, request>>

(* Mutant of GetCached: a hit starts the cached copy's time again. *)
GetCachedSliding(r) ==
  /\ request[r] = NoRequest
  /\ \E k \in Key : request' = [request EXCEPT ![r] =
       [step |-> IF cache = Empty THEN "fetch" ELSE "check", kid |-> k, jwks |-> cache]]
  /\ ttl' = IF cache = Empty THEN ttl ELSE TTL
  /\ UNCHANGED <<published, cache, rotations>>

(* fetch_jwks up to its cache lookup: a hit goes on with the cached copy.  *)
GetCached(r) ==
  /\ request[r] = NoRequest
  /\ \E k \in Key : request' = [request EXCEPT ![r] =
       [step |-> IF cache = Empty THEN "fetch" ELSE "check", kid |-> k, jwks |-> cache]]
  /\ UNCHANGED <<published, cache, ttl, rotations>>

(* Clerk answers. *)
Fetch(r) ==
  /\ request[r].step = "fetch"
  /\ request' = [request EXCEPT ![r].step = "store", ![r].jwks = published]
  /\ UNCHANGED <<published, cache, ttl, rotations>>

(* setex, whatever the cache holds by now. *)
Store(r) ==
  /\ request[r].step = "store"
  /\ cache' = request[r].jwks /\ ttl' = TTL
  /\ request' = [request EXCEPT ![r].step = "check"]
  /\ UNCHANGED <<published, rotations>>

(* The rest of validate_token.  A key that is not in the document evicts   *)
(* the cached copy, whichever document that is, and the answer is 401.     *)
Check(r) ==
  /\ request[r].step = "check"
  /\ request' = [request EXCEPT ![r] = NoRequest]
  /\ IF request[r].kid \in request[r].jwks
     THEN UNCHANGED <<cache, ttl>>
     ELSE cache' = Empty /\ ttl' = 0
  /\ UNCHANGED <<published, rotations>>

(* Clerk or Redis cannot be reached: the request ends with an error. *)
Fail(r) ==
  /\ request[r].step # "none"
  /\ request' = [request EXCEPT ![r] = NoRequest]
  /\ UNCHANGED <<published, cache, ttl, rotations>>

(* Redis drops the copy when its time is up. *)
Tick ==
  /\ ttl > 0
  /\ ttl' = ttl - 1
  /\ cache' = IF ttl = 1 THEN Empty ELSE cache
  /\ UNCHANGED <<published, request, rotations>>

Handle(r) == Fetch(r) \/ Store(r) \/ Check(r) \/ Fail(r)

JwksNext ==
  \/ Rotate \/ Tick
  \/ \E r \in Request : GetCached(r) \/ Handle(r)

(* Time passes, and a request that has begun comes to its end: httpx gives *)
(* Clerk ten seconds, and Redis, whose client has no timeout here, either  *)
(* answers or drops the connection.  Nobody need ever send a request.      *)
JwksFairness == WF_jwksVars(Tick) /\ \A r \in Request : WF_jwksVars(Handle(r))

(***************************************************************************)
(* A withdrawn key is not accepted for ever, and a new one not rejected    *)
(* for ever: when Clerk's keys stop changing, no request decides by an old *)
(* document from some time on, however the evictions, the expiry and the   *)
(* late stores of requests that fetched before the change fall.            *)
(***************************************************************************)
DocumentCurrent ==
  /\ cache \in {Empty, published}
  /\ \A r \in Request : request[r].step \in {"store", "check"} => request[r].jwks = published

RotationSettles == <>[]DocumentCurrent

=============================================================================
