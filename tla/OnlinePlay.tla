----------------------------- MODULE OnlinePlay -----------------------------
(***************************************************************************)
(* What a server process does for the players of a room.  The room         *)
(* service, the registry of connections, the limit of each connection, the *)
(* session in Redis and the AI player share no state at this commit, since *)
(* the handler that will call them one after the other is still a stub     *)
(* (server/app/routes/websocket.py, _dispatch).  Steps of two of them      *)
(* commute, so every behaviour here follows one of them.                   *)
(***************************************************************************)
EXTENDS Rooms, Connections, SocketLimit, RoomSession, AIPlayer

VARIABLE followed  \* the part this behaviour follows

vars == <<followed, roomsVars, connectionsVars, socketLimitVars, roomSessionVars, aiVars>>

Init ==
  /\ followed \in {"rooms", "connections", "limit", "session", "ai"}
  /\ RoomsInit /\ ConnectionsInit /\ SocketLimitInit /\ RoomSessionInit
  /\ AIInit
  /\ followed # "ai" => /\ board = [p \in Player |-> [j \in Pawn |-> 0]]
                        /\ roll_value = 1
                        /\ persona = [difficulty_level |-> "easy", strategy_weights |-> <<>>]

RoomStep ==
  /\ followed = "rooms" /\ RoomsNext
  /\ UNCHANGED <<followed, connectionsVars, socketLimitVars, roomSessionVars, aiVars>>

ConnectionStep ==
  /\ followed = "connections" /\ ConnectionsNext
  /\ UNCHANGED <<followed, roomsVars, socketLimitVars, roomSessionVars, aiVars>>

LimitStep ==
  /\ followed = "limit" /\ SocketLimitNext
  /\ UNCHANGED <<followed, roomsVars, connectionsVars, roomSessionVars, aiVars>>

SessionStep ==
  /\ followed = "session" /\ RoomSessionNext
  /\ UNCHANGED <<followed, roomsVars, connectionsVars, socketLimitVars, aiVars>>

AIStep ==
  /\ followed = "ai" /\ AINext
  /\ UNCHANGED <<followed, roomsVars, connectionsVars, socketLimitVars, roomSessionVars>>

Next == RoomStep \/ ConnectionStep \/ LimitStep \/ SessionStep \/ AIStep

Spec == Init /\ [][Next]_vars

=============================================================================
