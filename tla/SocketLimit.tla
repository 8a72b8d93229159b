---------------------------- MODULE SocketLimit ----------------------------
(***************************************************************************)
(* The WebSocket endpoint and its rate limit,                              *)
(* server/app/routes/websocket.py, for one connection: the limit is kept   *)
(* per connection in the process, in a deque of the times of the messages  *)
(* it let through.  Time is counted in ticks of the monotonic clock.       *)
(***************************************************************************)
EXTENDS Integers, Sequences, FiniteSets

CONSTANTS
  RateLimit,        \* _WS_RATE_LIMIT
  RateWindow,       \* _WS_RATE_WINDOW, in ticks
  LastTick          \* bound: the clock

ASSUME SocketLimitAssumption ==
  RateLimit \in Nat \ {0} /\ RateWindow \in Nat \ {0} /\ LastTick \in Nat

VARIABLES
  clock,                 \* time.monotonic()
  message_timestamps,    \* the deque
  dispatched,            \* ghost: the times of all messages let through
  dropped                \* ghost: the times of messages answered "slow down"

socketLimitVars == <<clock, message_timestamps, dispatched, dropped>>

SocketLimitInit ==
  /\ clock = 0
  /\ message_timestamps = <<>> /\ dispatched = <<>> /\ dropped = {}

(* Mutant of Old: a message exactly as old as the window has left it. *)
OldAtEdge(t) == t <= clock - RateWindow

(* Before the cutoff. *)
Old(t) == t < clock - RateWindow

(* The deque after the loop that pops from the front while it is old. *)
Recent ==
  LET times  == message_timestamps
      popped == CHOOSE n \in 0 .. Len(times) :
                  /\ \A i \in 1 .. n : Old(times[i])
                  /\ n < Len(times) => ~ Old(times[n + 1])
  IN SubSeq(times, popped + 1, Len(times))

(* An excess message is dropped with an error frame and takes no slot; the *)
(* others are validated and dispatched; neither step touches the deque.    *)
Receive ==
  /\ UNCHANGED clock
  /\ IF Len(Recent) >= RateLimit
     THEN /\ message_timestamps' = Recent
          /\ dropped' = dropped \cup {clock}
          /\ UNCHANGED dispatched
     ELSE /\ message_timestamps' = Append(Recent, clock)
          /\ dispatched' = Append(dispatched, clock)
          /\ UNCHANGED dropped

Elapse ==
  /\ clock < LastTick
  /\ clock' = clock + 1
  /\ UNCHANGED <<message_timestamps, dispatched, dropped>>

SocketLimitNext == Receive \/ Elapse

(***************************************************************************)
(* Both ends of the limit: in no stretch of one window, wherever it starts *)
(* and its ends included, are more than RateLimit messages let through;    *)
(* and the sender is only told to slow down when that many were let        *)
(* through in the window that ends now.                                    *)
(***************************************************************************)
LetThrough(first, last) == {i \in DOMAIN dispatched : dispatched[i] \in first .. last}

WindowBound ==
  /\ \A t \in 0 .. clock : Cardinality(LetThrough(t, t + RateWindow)) <= RateLimit
  /\ \A t \in dropped : Cardinality(LetThrough(t - RateWindow, t)) = RateLimit

=============================================================================
