---------------------------- MODULE Client_proofs ----------------------------
(***************************************************************************)
(* Proofs about what runs by itself in the browser: the connection of      *)
(* ClientSocket, the throw animation of Cowries and the pawn of            *)
(* PawnAnimation, each for its own specification and any values of the     *)
(* constants, then all together.                                           *)
(***************************************************************************)
EXTENDS MCClient, TLAPS

-----------------------------------------------------------------------------
(* The connection.                                                         *)

State == {"disconnected", "connecting", "connected", "reconnecting"}

SocketTypeOK ==
  /\ sock \in [Slot -> {"free", "connecting", "open", "closing"}]
  /\ ws \in Slot \cup {None} /\ room \in Room \cup {None}
  /\ attempts \in Nat /\ lost_timers \in Nat
  /\ timer \in BOOLEAN /\ intentional \in BOOLEAN
  /\ connection_state \in State
  /\ overlapped \in BOOLEAN /\ manual \in BOOLEAN /\ stale \in BOOLEAN

AllFree == \A s \in Slot : sock[s] = "free"

(* The only socket, in one of these states.                                *)
OnlySocket(states) ==
  /\ ws \in Slot /\ sock[ws] \in states
  /\ \A s \in Slot : s # ws => sock[s] = "free"

(* A session that began when all was quiet: the state that is shown tells  *)
(* what its socket and its timer do.  A socket that the server closes is   *)
(* still shown as connected.                                               *)
InSession ==
  /\ ~ intentional
  /\ connection_state = "connecting"   => OnlySocket({"connecting"}) /\ ~ timer
  /\ connection_state = "connected"    => OnlySocket({"open", "closing"}) /\ ~ timer /\ attempts = 0
  /\ connection_state = "reconnecting" => AllFree /\ timer
  /\ connection_state = "disconnected" => AllFree /\ ~ timer
  /\ stale /\ ~ manual => attempts > 0

(* Between sessions nothing is armed, and only closing sockets are left,   *)
(* whose events find _intentionalDisconnect set.                           *)
BetweenSessions ==
  /\ connection_state = "disconnected" /\ ~ timer
  /\ \A s \in Slot : sock[s] \in {"free", "closing"}
  /\ intentional \/ AllFree

SessionInv ==
  ~ overlapped =>
    /\ lost_timers = 0
    /\ IF room = None THEN BetweenSessions ELSE InSession

SocketInv == SocketTypeOK /\ SessionInv

(* At first nothing is open. *)
LEMMA SocketInit == Init => SocketInv
<1> SUFFICES ASSUME Init PROVE SocketInv
  OBVIOUS
<1> USE DEF Init
<1>1. SocketTypeOK
  BY DEF SocketTypeOK, State
<1>2. SessionInv
  BY DEF SessionInv, BetweenSessions, AllFree
<1> QED BY <1>1, <1>2 DEF SocketInv

(* No call of the page, no event of a socket and no timer disturbs it.     *)
LEMMA SocketStepKeeps ==
  SocketInv /\ [Next]_vars => SocketInv'
<1> SUFFICES ASSUME SocketInv, [Next]_vars PROVE SocketInv'
  OBVIOUS
<1> USE ClientSocketAssumption
<1>1. ASSUME NEW r \in Room, Connect(r) PROVE SocketInv'
  <2> USE <1>1 DEF Connect, SocketInv
  <2>1. Closing \in [Slot -> {"free", "connecting", "open", "closing"}]
    BY DEF Closing, SocketTypeOK
  <2>2. SocketTypeOK'
    BY <2>1 DEF OpenConnection, SocketTypeOK, State
  <2>3. ASSUME ~ overlapped'
        PROVE  lost_timers = 0 /\ \A s \in Slot : Closing[s] = "free"
    <3>1. ~ (lost_timers > 0) /\ ~ \E s \in Slot : Closing[s] # "free"
      BY <2>3, Zenon
    <3> QED BY <3>1 DEF SocketTypeOK
  <2>4. ~ overlapped' => InSession'
    BY <2>1, <2>3 DEF OpenConnection, SocketTypeOK, InSession, OnlySocket, AllFree
  <2> QED
    BY <2>2, <2>3, <2>4 DEF SessionInv
<1>2. CASE Disconnect
  BY <1>2 DEF Disconnect, Closing, Live, SocketInv, SocketTypeOK,
    SessionInv, InSession, BetweenSessions, OnlySocket, AllFree, State
<1>3. CASE ManualReconnect
  BY <1>3 DEF ManualReconnect, OpenConnection, SocketInv, SocketTypeOK,
    SessionInv, InSession, OnlySocket, AllFree, State
<1>4. ASSUME NEW s \in Slot, Opened(s) PROVE SocketInv'
  BY <1>4 DEF Opened, SocketInv, SocketTypeOK,
    SessionInv, InSession, BetweenSessions, OnlySocket, AllFree, State
<1>5. ASSUME NEW s \in Slot, Closed(s) PROVE SocketInv'
  <2> USE DEF SocketInv
  <2>0. /\ sock[s] # "free" /\ sock' = [sock EXCEPT ![s] = "free"]
        /\ \/ intentional /\ connection_state' = "disconnected"
              /\ UNCHANGED <<attempts, timer, lost_timers>>
           \/ ~ intentional /\ ScheduleReconnect
        /\ UNCHANGED <<ws, room, intentional, overlapped, manual>>
    BY <1>5, Zenon DEF Closed
  <2>1. SocketTypeOK'
    <3>1. stale' \in BOOLEAN
      BY <1>5, Zenon DEF Closed, SocketTypeOK
    <3>2. CASE ScheduleReconnect
      <4>1. connection_state' \in State /\ timer' \in BOOLEAN
        BY <3>2, Zenon DEF ScheduleReconnect, SocketTypeOK, State
      <4>2. attempts' \in Nat
        BY <3>2 DEF ScheduleReconnect, SocketTypeOK
      <4>3. lost_timers' \in Nat
        BY <3>2 DEF ScheduleReconnect, SocketTypeOK
      <4> QED BY <2>0, <3>1, <4>1, <4>2, <4>3 DEF SocketTypeOK
    <3>3. CASE connection_state' = "disconnected" /\ UNCHANGED <<attempts, timer, lost_timers>>
      BY <2>0, <3>1, <3>3 DEF SocketTypeOK, State
    <3> QED
      BY <2>0, <3>2, <3>3
  <2>2. ASSUME ~ overlapped, room = None PROVE SessionInv'
    BY <2>0, <2>1, <2>2 DEF SocketTypeOK, SessionInv, BetweenSessions, AllFree
  <2>3. ASSUME ~ overlapped, room # None PROVE SessionInv'
    <3>1. lost_timers = 0 /\ InSession
      BY <2>3 DEF SessionInv
    <3>2. connection_state \in {"connecting", "connected"} /\ s = ws
      BY <2>0, <3>1 DEF SocketTypeOK, State, InSession, OnlySocket, AllFree
    <3>3. AllFree' /\ ~ timer
      BY <2>0, <3>1, <3>2 DEF SocketTypeOK, InSession, OnlySocket, AllFree
    <3>4. ScheduleReconnect /\ UNCHANGED <<room, intentional>>
      BY <2>0, <3>1 DEF InSession
    <3>5. lost_timers' = 0 /\ (connection_state' = "reconnecting" => timer')
          /\ (connection_state' = "disconnected" => ~ timer')
          /\ connection_state' \in {"reconnecting", "disconnected"}
      BY <3>1, <3>3, <3>4 DEF ScheduleReconnect
    <3>6. attempts' > 0
      BY <3>4 DEF ScheduleReconnect, SocketTypeOK
    <3> QED
      BY <2>0, <2>1, <2>3, <3>1, <3>3, <3>4, <3>5, <3>6 DEF SessionInv, InSession, SocketTypeOK
  <2> QED
    BY <2>0, <2>1, <2>2, <2>3 DEF SessionInv
<1>5a. ASSUME NEW s \in Slot, PeerCloses(s) PROVE SocketInv'
  BY <1>5a DEF PeerCloses, SocketInv, SocketTypeOK,
    SessionInv, InSession, BetweenSessions, OnlySocket, AllFree, State
<1>6. CASE TimerFires
  BY <1>6 DEF TimerFires, Retry, OpenConnection, SocketInv, SocketTypeOK,
    SessionInv, InSession, BetweenSessions, OnlySocket, AllFree, State
<1>7. CASE LostTimerFires
  BY <1>7 DEF LostTimerFires, Retry, OpenConnection, SocketInv, SocketTypeOK,
    SessionInv, State
<1>8. CASE UNCHANGED vars
  BY <1>8 DEF vars, SocketInv, SocketTypeOK,
    SessionInv, InSession, BetweenSessions, OnlySocket, AllFree
<1> QED
  BY <1>1, <1>2, <1>3, <1>4, <1>5, <1>6, <1>7, <1>8, <1>5a DEF Next, UserAction

(* The invariant of the socket holds throughout.                           *)
THEOREM SocketInvariance == Spec => []SocketInv
BY SocketInit, SocketStepKeeps, PTL DEF Spec

(* OneLiveSocket: connect, disconnect, manualReconnect, the socket's events *)
(* and the retry timers never leave a second socket that can deliver       *)
(* messages, nor one that _ws does not hold.                               *)
THEOREM NoSocketLeaks == Spec => []OneLiveSocket
<1>1. SocketInv => OneLiveSocket
  BY ClientSocketAssumption DEF SocketInv, SocketTypeOK, SessionInv, InSession, BetweenSessions,
    OnlySocket, AllFree, State, OneLiveSocket, Live
<1> QED BY <1>1, SocketInvariance, PTL

(* ShownIsTrue: "connected" is shown only of a _ws that is open, or whose   *)
(* closing by the server ends in a close event that _handleClose will not   *)
(* ignore; "connecting" only while its answer is to come; a retry is        *)
(* announced only while a timer is armed for it; and "disconnected" while   *)
(* neither a timer nor a socket can bring a connection.                     *)
THEOREM StateShownIsTrue == Spec => []ShownIsTrue
<1>1. SocketInv => ShownIsTrue
  BY ClientSocketAssumption DEF SocketInv, SocketTypeOK, SessionInv, InSession, BetweenSessions,
    OnlySocket, AllFree, State, ShownIsTrue, Live
<1> QED BY <1>1, SocketInvariance, PTL

(* RetriesRecover: a connection that the timers restored has asked for a   *)
(* full snapshot, since attempts stays above zero until _handleOpen.       *)
THEOREM RetriesAskForASnapshot == Spec => []RetriesRecover
<1>1. SocketInv => RetriesRecover
  BY DEF SocketInv, SocketTypeOK, SessionInv, InSession, BetweenSessions,
    RetriesRecover
<1> QED BY <1>1, SocketInvariance, PTL

-----------------------------------------------------------------------------
(* The throw animation.                                                    *)

CowriesSpec == CowriesInit /\ [][CowriesNext]_cowriesVars

(* A cycle that has ended is marked as ended. *)
EndMarked == settled \in {0, 1} /\ (settled = 1 => called)

(* SettledOnce: of the frame loop, the monitor and the two-second timeout  *)
(* of a throw, the first to end it calls onSettled, and no other does.     *)
THEOREM SettledOncePerCycle == CowriesSpec => []SettledOnce
<1>1. CowriesInit => EndMarked
  BY DEF CowriesInit, EndMarked
<1>2. EndMarked /\ [CowriesNext]_cowriesVars => EndMarked'
  BY DEF EndMarked, CowriesNext, cowriesVars, RenderPhase, Throw, Monitor,
    SettleFrame, Timeout2s, TriggerSettled, LerpFrame
<1>3. EndMarked => SettledOnce
  BY DEF EndMarked, SettledOnce
<1> QED BY <1>1, <1>2, <1>3, PTL DEF CowriesSpec

-----------------------------------------------------------------------------
(* The pawn's animation.                                                   *)

PawnSpec == PawnInit /\ [][PawnNext]_pawnVars

PawnTypeOK ==
  /\ waypoints \in Seq(Place) /\ index \in Nat /\ away \in Nat
  /\ running \in BOOLEAN /\ owed \in BOOLEAN /\ mistaken \in BOOLEAN

(* A pawn that runs has a waypoint ahead.                                  *)
PawnInv == PawnTypeOK /\ CompletesOnce /\ (running => index < Len(waypoints))

(* A pawn that is animated runs towards a waypoint.                        *)
LEMMA AnimationHasWaypoint ==
  ASSUME NEW from, AnimateTo(from)
  PROVE  /\ waypoints' \in Seq(Place) /\ index' \in Nat /\ index' < Len(waypoints')
         /\ away' \in Nat /\ running' = TRUE /\ owed' = TRUE
<1>1. PICK n \in 1 .. MaxWaypoints : waypoints' \in [1 .. n -> Place]
  BY DEF AnimateTo
<1>2. n \in Nat \ {0}
  BY PawnAnimationAssumption
<1>3. waypoints' \in Seq(Place) /\ Len(waypoints') = n
  BY <1>1, <1>2
<1>4. away' \in Nat
  BY PawnAnimationAssumption DEF AnimateTo, FramesTo
<1> QED BY <1>2, <1>3, <1>4 DEF AnimateTo

(* CompletesOnce, about usePawnAnimation: onComplete is called for no      *)
(* animation that was replaced and at no place but its end, and the pawn   *)
(* runs as long as a call is owed.                                         *)
THEOREM CompletionsAreOwed == PawnSpec => []CompletesOnce
<1>1. PawnInit => PawnInv
  <2> SUFFICES ASSUME PawnInit PROVE PawnInv
    OBVIOUS
  <2>1. waypoints \in Seq(Place) /\ index \in Nat /\ away \in Nat
    BY DEF PawnInit
  <2>2. running = FALSE /\ owed = FALSE /\ mistaken = FALSE
    BY DEF PawnInit
  <2> QED BY <2>1, <2>2, Zenon DEF PawnInv, PawnTypeOK, CompletesOnce
<1>2. PawnInv /\ [PawnNext]_pawnVars => PawnInv'
  <2> SUFFICES ASSUME PawnInv, [PawnNext]_pawnVars PROVE PawnInv'
    OBVIOUS
  <2> USE DEF PawnInv, PawnTypeOK, CompletesOnce
  <2>a. ASSUME NEW from, AnimateTo(from), mistaken' = FALSE PROVE PawnInv'
    BY <2>a, AnimationHasWaypoint, Zenon
  <2>s. ASSUME SnapTo, mistaken' = FALSE PROVE PawnInv'
    <3>1. waypoints' \in Seq(Place) /\ index' \in Nat /\ away' \in Nat
      BY <2>s DEF SnapTo
    <3>2. running' = FALSE /\ owed' = FALSE
      BY <2>s DEF SnapTo
    <3> QED BY <2>s, <3>1, <3>2, Zenon
  <2>m. mistaken = FALSE
    OBVIOUS
  <2>1. CASE Owner
    BY <2>1, <2>a, <2>s, <2>m DEF Owner
  <2>2. CASE running /\ Lerp
    BY <2>2 DEF Lerp
  <2>3. CASE running /\ Advance
    <3>1. away' \in Nat
      BY <2>3, PawnAnimationAssumption DEF Advance, FramesTo
    <3> QED BY <2>3, <3>1 DEF Advance
  <2>4. CASE running /\ Complete
    <3>1. index + 1 = Len(waypoints) /\ waypoints # <<>>
      BY <2>4 DEF Complete
    <3>2. mistaken' = FALSE
      BY <2>4, <3>1, <2>m DEF Complete
    <3>3. CASE \E from : AnimateTo(from)
      BY <3>2, <3>3, <2>a
    <3>4. CASE SnapTo
      BY <3>2, <3>4, <2>s
    <3>5. CASE index' = Len(waypoints) /\ running' = FALSE /\ owed' = FALSE /\ UNCHANGED <<waypoints, away>>
      <4>1. waypoints' \in Seq(Place) /\ index' \in Nat /\ away' \in Nat
        BY <3>1, <3>5
      <4> QED BY <3>2, <3>5, <4>1, Zenon
    <3>6. \/ \E from : AnimateTo(from)
          \/ SnapTo
          \/ index' = Len(waypoints) /\ running' = FALSE /\ owed' = FALSE /\ UNCHANGED <<waypoints, away>>
      BY <2>4, Zenon DEF Complete
    <3> QED BY <3>3, <3>4, <3>5, <3>6
  <2>5. CASE UNCHANGED pawnVars
    BY <2>5 DEF pawnVars
  <2> QED BY <2>1, <2>2, <2>3, <2>4, <2>5 DEF PawnNext, Frame
<1>3. PawnInv => CompletesOnce
  BY DEF PawnInv
<1> QED BY <1>1, <1>2, <1>3, PTL DEF PawnSpec

-----------------------------------------------------------------------------
(* All together.                                                           *)

(* A behaviour of the browser is a behaviour of each part.                 *)
LEMMA PartsFollowed == ClientSpec => Spec /\ CowriesSpec /\ PawnSpec
<1>1. ClientInit => Init /\ CowriesInit /\ PawnInit
  BY DEF ClientInit
<1> DEFINE Step == SocketStep \/ CowriesStep \/ PawnStep
<1>2. [Step]_ClientVars => [Next]_vars
  BY DEF SocketStep, CowriesStep, PawnStep, ClientVars
<1>3. [Step]_ClientVars => [CowriesNext]_cowriesVars
  BY DEF SocketStep, CowriesStep, PawnStep, ClientVars
<1>4. [Step]_ClientVars => [PawnNext]_pawnVars
  BY DEF SocketStep, CowriesStep, PawnStep, ClientVars
<1> QED BY <1>1, <1>2, <1>3, <1>4, PTL DEF ClientSpec, Spec, CowriesSpec, PawnSpec

(* The connection and the animations keep their promises beside each       *)
(* other.                                                                  *)
THEOREM ClientSafe ==
  ClientSpec => [](OneLiveSocket /\ ShownIsTrue /\ RetriesRecover /\ SettledOnce /\ CompletesOnce)
BY PartsFollowed, NoSocketLeaks, StateShownIsTrue, RetriesAskForASnapshot,
   SettledOncePerCycle, CompletionsAreOwed, PTL

=============================================================================
