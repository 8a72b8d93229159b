---------------------------- MODULE ClientSocket ----------------------------
(***************************************************************************)
(* The browser's connection to a game room,                                *)
(* client/src/services/WebSocketManager.ts, with the hook that owns it,    *)
(* client/src/hooks/useWebSocket.ts.  The manager runs to completion       *)
(* between events, but the events are those of every socket it ever        *)
(* created: close() only starts the closing handshake, and the close event *)
(* of a socket that has been replaced still reaches the same handlers.     *)
(* When the server closes, readyState becomes CLOSING and no handler is    *)
(* told before the close event.                                            *)
(*                                                                         *)
(* Three ghost variables record what the properties are about; no action   *)
(* reads them.                                                             *)
(***************************************************************************)
EXTENDS Naturals

CONSTANTS
  Room,             \* the rooms a page can ask for
  BadRoom,          \* the rooms for which the WebSocket constructor throws
  Slot,             \* bound: sockets that exist at the same time
  MaxLostTimers,    \* bound: lost_timers
  MaxAttempts,      \* MAX_RECONNECT_ATTEMPTS
  None              \* null

ASSUME ClientSocketAssumption ==
  /\ MaxAttempts \in Nat \ {0} /\ MaxLostTimers \in Nat /\ BadRoom \subseteq Room
  /\ None \notin Room \cup Slot

VARIABLES
  sock,             \* readyState: "free" (or CLOSED), "connecting", "open", "closing"
  ws,               \* _ws, which may be a socket that has closed
  room,             \* _roomId; _token is set and cleared with it
  attempts,         \* _reconnectAttempts
  timer,            \* _reconnectTimer is armed
  lost_timers,      \* armed timers whose handle has been overwritten
  intentional,      \* _intentionalDisconnect
  connection_state, \* connectionState of the store
  overlapped,       \* ghost: connect() ran before every older socket was gone
  manual,           \* ghost: the user pressed the button since connect()
  stale             \* ghost: an open connection broke, nothing recovered since

vars == <<sock, ws, room, attempts, timer, lost_timers, intentional,
          connection_state, overlapped, manual, stale>>

Live(s) == sock[s] \in {"connecting", "open"}

Init ==
  /\ sock = [s \in Slot |-> "free"]
  /\ ws = None /\ room = None
  /\ attempts = 0
  /\ timer = FALSE /\ lost_timers = 0
  /\ intentional = FALSE
  /\ connection_state = "disconnected"
  /\ overlapped = FALSE /\ manual = FALSE /\ stale = FALSE

-----------------------------------------------------------------------------

(* Mutant of Closing: the socket is forgotten, not closed. *)
NotClosing == sock

(* The sockets after _ws.close(): a closed socket ignores it.              *)
Closing ==
  [s \in Slot |-> IF s = ws /\ Live(s) THEN "closing" ELSE sock[s]]

(* _openConnection to room r, with the sockets and _ws as they are at that *)
(* point.  When the constructor throws, _ws stays what it was.             *)
OpenConnection(r, sockets, current) ==
  \/ /\ r \notin BadRoom
     /\ \E s \in Slot :
          /\ sockets[s] = "free"
          /\ sock' = [sockets EXCEPT ![s] = "connecting"]
          /\ ws' = s
     /\ connection_state' = "connecting"
  \/ /\ r \in BadRoom
     /\ sock' = sockets /\ ws' = current
     /\ connection_state' = "disconnected"

(* connect.  It is the only action that starts a new session.              *)
Connect(r) ==
  /\ ~ (ws # None /\ room = r /\ sock[ws] = "open")
  /\ room' = r
  /\ timer' = FALSE
  /\ intentional' = FALSE
  /\ attempts' = 0
  /\ OpenConnection(r, Closing, None)
  /\ overlapped' = (lost_timers > 0 \/ \E s \in Slot : Closing[s] # "free")
  /\ manual' = FALSE /\ stale' = FALSE
  /\ UNCHANGED lost_timers

(* Mutant of Disconnect: _intentionalDisconnect is not set. *)
DisconnectUnmarked ==
  /\ room # None
  /\ timer' = FALSE
  /\ sock' = Closing /\ ws' = None
  /\ room' = None
  /\ attempts' = 0
  /\ connection_state' = "disconnected"
  /\ UNCHANGED <<intentional, lost_timers, overlapped, manual, stale>>

(* disconnect: what the hook's cleanup calls on unmount, and before the    *)
(* next connect when the room or the token changes.                        *)
Disconnect ==
  /\ room # None
  /\ intentional' = TRUE
  /\ timer' = FALSE
  /\ sock' = Closing /\ ws' = None
  /\ room' = None
  /\ attempts' = 0
  /\ connection_state' = "disconnected"
  /\ UNCHANGED <<lost_timers, overlapped, manual, stale>>

(* Mutant of Opened: the counter is reset before it is looked at. *)
OpenedResetFirst(s) ==
  /\ sock[s] = "connecting"
  /\ sock' = [sock EXCEPT ![s] = "open"]
  /\ attempts' = 0
  /\ timer' = FALSE
  /\ connection_state' = "connected"
  /\ stale' = (stale /\ ~ (attempts' > 0 /\ ws # None /\ sock'[ws] = "open"))
  /\ UNCHANGED <<ws, room, lost_timers, intentional, overlapped, manual>>

(* A socket opens: _handleOpen.  send() goes through _ws, whichever socket *)
(* called the handler.                                                     *)
Opened(s) ==
  /\ sock[s] = "connecting"
  /\ sock' = [sock EXCEPT ![s] = "open"]
  /\ attempts' = 0
  /\ timer' = FALSE
  /\ connection_state' = "connected"
  /\ stale' = (stale /\ ~ (attempts > 0 /\ ws # None /\ sock'[ws] = "open"))
  /\ UNCHANGED <<ws, room, lost_timers, intentional, overlapped, manual>>

(* Mutant of ScheduleReconnect: the attempts are not limited. *)
ScheduleReconnectForever ==
  /\ connection_state' = "reconnecting"
  /\ lost_timers' = lost_timers
  /\ timer' = TRUE
  /\ UNCHANGED attempts

(* _scheduleReconnect.  The old handle is overwritten, not cleared.        *)
ScheduleReconnect ==
  \/ /\ attempts >= MaxAttempts
     /\ connection_state' = "disconnected"
     /\ UNCHANGED <<attempts, timer, lost_timers>>
  \/ /\ attempts < MaxAttempts
     /\ attempts' = attempts + 1
     /\ connection_state' = "reconnecting"
     /\ IF timer THEN lost_timers < MaxLostTimers /\ lost_timers' = lost_timers + 1
                 ELSE UNCHANGED lost_timers
     /\ timer' = TRUE

(* The server starts the closing handshake of an open socket: from now on  *)
(* send() refuses, isConnected is false and messages are ignored, but the  *)
(* manager has no handler for it and the store goes on as it was.          *)
PeerCloses(s) ==
  /\ sock[s] = "open"
  /\ sock' = [sock EXCEPT ![s] = "closing"]
  /\ UNCHANGED <<ws, room, attempts, timer, lost_timers, intentional,
                 connection_state, overlapped, manual, stale>>

(* A socket is gone: it failed to connect, the connection broke at once,   *)
(* or the closing handshake ended, begun by either side.  _handleClose.    *)
(* The manager lets go of what it closes itself, so a closing socket that  *)
(* _ws holds was closed by the server.                                     *)
Closed(s) ==
  /\ sock[s] # "free"
  /\ sock' = [sock EXCEPT ![s] = "free"]
  /\ stale' = (stale \/ (room # None /\ (sock[s] = "open" \/ (sock[s] = "closing" /\ s = ws))))
  /\ \/ /\ intentional
        /\ connection_state' = "disconnected"
        /\ UNCHANGED <<attempts, timer, lost_timers>>
     \/ ~ intentional /\ ScheduleReconnect
  /\ UNCHANGED <<ws, room, intentional, overlapped, manual>>

(* The callback of a reconnect timer. *)
Retry ==
  /\ \/ room # None /\ OpenConnection(room, sock, ws)
     \/ room = None /\ UNCHANGED <<sock, ws, connection_state>>
  /\ UNCHANGED <<room, attempts, intentional, overlapped, manual, stale>>

TimerFires ==
  /\ timer
  /\ timer' = FALSE
  /\ Retry
  /\ UNCHANGED lost_timers

LostTimerFires ==
  /\ lost_timers > 0
  /\ lost_timers' = lost_timers - 1
  /\ Retry
  /\ UNCHANGED timer

(* _manualReconnect, from the button shown while disconnected. *)
ManualReconnect ==
  /\ connection_state = "disconnected"
  /\ room # None
  /\ timer' = FALSE
  /\ attempts' = 0
  /\ intentional' = FALSE
  /\ OpenConnection(room, sock, ws)
  /\ manual' = TRUE
  /\ UNCHANGED <<room, lost_timers, overlapped, stale>>

UserAction == (\E r \in Room : Connect(r)) \/ Disconnect \/ ManualReconnect

Next ==
  \/ UserAction
  \/ \E s \in Slot : Opened(s) \/ PeerCloses(s) \/ Closed(s)
  \/ TimerFires \/ LostTimerFires

(* Timers fire, and a socket that is connecting or closing gets an answer. *)
Fairness ==
  /\ WF_vars(TimerFires) /\ WF_vars(LostTimerFires)
  /\ \A s \in Slot : WF_vars(sock[s] # "open" /\ (Opened(s) \/ Closed(s)))

Spec == Init /\ [][Next]_vars /\ Fairness

-----------------------------------------------------------------------------

(* While no session was started on top of a dying socket, there is at most *)
(* one socket that can deliver messages, and it is the one send() uses:    *)
(* no sequence of failures, retries and presses of the button leaks one.   *)
OneLiveSocket ==
  ~ overlapped => \A s \in Slot : Live(s) => s = ws /\ room # None

(* With the same proviso the state shown to the user is never left behind  *)
(* by what happens.  "connected" means that _ws is open, or that the       *)
(* server is closing it and the close event is still to come and will not  *)
(* be ignored (in between send() refuses); "connecting" that an answer is  *)
(* to come; "reconnecting" that a timer is armed; and "disconnected" that  *)
(* nothing will come, so that the button the user then sees is needed.     *)
ShownIsTrue ==
  ~ overlapped =>
    /\ connection_state = "connected" =>
         ws # None /\ sock[ws] \in {"open", "closing"} /\ ~ intentional
    /\ connection_state = "connecting" => ws # None /\ sock[ws] = "connecting"
    /\ connection_state = "reconnecting" => timer
    /\ connection_state = "disconnected" => ~ timer /\ \A s \in Slot : ~ Live(s)

(* A connection that broke and was restored by the timers asks for a full  *)
(* state snapshot: no update lost in between stays lost.                   *)
RetriesRecover ==
  connection_state = "connected" /\ ~ overlapped /\ ~ manual => ~ stale

(* Whatever races, the reconnection loop ends: unless the user does        *)
(* something or some socket opens, again and again, the manager comes to   *)
(* rest (or has used up the sockets of the model).                         *)
AtRest ==
  \/ ~ timer /\ lost_timers = 0 /\ \A s \in Slot : sock[s] \in {"free", "open"}
  \/ \A s \in Slot : sock[s] # "free"

RetriesEnd ==
  []<>AtRest \/ []<><<UserAction>>_vars \/ []<><<\E s \in Slot : Opened(s)>>_vars

(* useWebSocket: "Connects on mount, disconnects on unmount."  After the   *)
(* unmount no socket can deliver messages any more.                        *)
UnmountedIsClosed == room = None => \A s \in Slot : ~ Live(s)

(* _handleOpen: "After a reconnection, ask the server for a full state     *)
(* snapshot so the client is in sync".  Whichever way the connection came  *)
(* back, it has recovered.                                                 *)
ReconnectionRecovers == connection_state = "connected" /\ ~ overlapped => ~ stale

=============================================================================
