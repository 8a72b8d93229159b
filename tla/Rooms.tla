------------------------------- MODULE Rooms -------------------------------
(***************************************************************************)
(* Rooms and their members, server/app/services/room_service.py behind     *)
(* server/app/routes/rooms.py.  The service keeps three dictionaries that  *)
(* must agree; its functions run to completion on the event loop.  A call  *)
(* answered with 404 or 409 changes nothing and is a stuttering step.      *)
(***************************************************************************)
EXTENDS Naturals, Sequences, FiniteSets

CONSTANTS
  User,             \* the values of the X-User-Id header
  Code,             \* the codes _generate_code can draw; draws may repeat
  MaxPlayers        \* max_players, 4 for every room made by the route

(* As many seats as there are colours, at most. *)
ASSUME RoomsAssumption == MaxPlayers \in 1 .. 4

VARIABLES
  rooms,            \* the keys of _rooms
  room_players,     \* _room_players: code -> members in order of arrival
  room_spectators   \* _room_spectators: code -> users

roomsVars == <<rooms, room_players, room_spectators>>

(* The places of the members with one role. *)
WithRole(code, role) ==
  {i \in DOMAIN room_players[code] : room_players[code][i].role = role}

(* A player record; the colour is a function of the seat. *)
PlayerRecord(u, seat) ==
  [user_id |-> u, role |-> "player", player_index |-> seat, color |-> seat % 4]

RoomsInit ==
  /\ rooms = {}
  /\ room_players = [c \in Code |-> <<>>]
  /\ room_spectators = [c \in Code |-> {}]

(* Mutant of CreateRoom: a code drawn again keeps its spectators. *)
CreateRoomAgain(code) ==
  /\ rooms' = rooms \cup {code}
  /\ room_players' = [room_players EXCEPT ![code] = <<>>]
  /\ UNCHANGED room_spectators

(* A code that is in use is not looked for: its room starts afresh. *)
CreateRoom(code) ==
  /\ rooms' = rooms \cup {code}
  /\ room_players' = [room_players EXCEPT ![code] = <<>>]
  /\ room_spectators' = [room_spectators EXCEPT ![code] = {}]

(* Only the seats taken are checked, not who asks: a user may sit down     *)
(* twice, and a spectator stays one when sitting down.                     *)
JoinRoom(code, u) ==
  LET seat == Cardinality(WithRole(code, "player"))
  IN /\ code \in rooms
     /\ seat < MaxPlayers
     /\ room_players' = [room_players EXCEPT ![code] = Append(@, PlayerRecord(u, seat))]
     /\ UNCHANGED <<rooms, room_spectators>>

(* Spectating again is answered with success and changes nothing. *)
SpectateRoom(code, u) ==
  /\ code \in rooms
  /\ \A i \in WithRole(code, "player") : room_players[code][i].user_id # u
  /\ u \notin room_spectators[code]
  /\ room_spectators' = [room_spectators EXCEPT ![code] = @ \cup {u}]
  /\ room_players' = [room_players EXCEPT ![code] =
                        Append(@, [user_id |-> u, role |-> "spectator"])]
  /\ UNCHANGED rooms

RoomsNext ==
  \E code \in Code :
    \/ CreateRoom(code)
    \/ \E u \in User : JoinRoom(code, u) \/ SpectateRoom(code, u)

(***************************************************************************)
(* The dictionaries agree: whoever is_spectator blocks is listed exactly   *)
(* once as a spectator and nobody else is, and the players hold the seats  *)
(* 0, 1, 2, ... in order of arrival, whatever the spectators between them  *)
(* and however often the code is drawn again; so no two share a colour.    *)
(***************************************************************************)
RosterConsistent ==
  \A c \in Code :
    LET list     == room_players[c]
        watching == WithRole(c, "spectator")
        playing  == WithRole(c, "player")
    IN /\ {list[i].user_id : i \in watching} = room_spectators[c]
       /\ \A i, k \in watching : list[i].user_id = list[k].user_id => i = k
       /\ \A i \in playing :
            list[i].player_index = Cardinality({k \in playing : k < i})
       /\ \A i, k \in playing : list[i].color = list[k].color => i = k

=============================================================================
