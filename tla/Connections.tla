---------------------------- MODULE Connections ----------------------------
(***************************************************************************)
(* The connection registry of one server process, ConnectionManager of     *)
(* server/app/services/connection_manager.py, for one room (rooms do not   *)
(* touch each other's lists).  register and deregister run between the     *)
(* awaits of a send.  A send to a player iterates over the room's list     *)
(* itself: an entry appended meanwhile is visited, whereas deregister      *)
(* replaces the list and leaves the old one to the sends in progress.  A   *)
(* broadcast works on a copy.                                              *)
(***************************************************************************)
EXTENDS Naturals, Sequences, FiniteSets

CONSTANTS
  PlayerId,         \* player_id
  Socket,           \* the WebSocket objects, each registered once
  Send,             \* calls of send_to_player and broadcast_to_room
  Everyone          \* the addressee of a broadcast

ASSUME ConnectionsAssumption == Everyone \notin PlayerId

VARIABLES
  registry,         \* _rooms[room_id], empty if the key is absent
  socket,           \* "new", "open" or "closed" (the peer has gone)
  send,             \* the calls: their addressee, list, position and state
  got,              \* ghost: the sockets each call's message reached
  through           \* ghost: sockets addressed, registered and open all along

connectionsVars == <<registry, socket, send, got, through>>

(* A call that has not begun. *)
IdleSend == [state |-> "idle", to |-> Everyone, list |-> <<>>, live |-> FALSE, next |-> 1]

Addressed(to, entry) == to \in {Everyone, entry.player}

(* The list a call iterates over: the room's own, or one of its own. *)
ListOf(s) == IF send[s].live THEN registry ELSE send[s].list

ConnectionsInit ==
  /\ registry = <<>>
  /\ socket = [w \in Socket |-> "new"]
  /\ send = [s \in Send |-> IdleSend]
  /\ got = [s \in Send |-> <<>>]
  /\ through = [s \in Send |-> {}]

(* Nobody looks for an older connection of the player. *)
Register(p, w) ==
  /\ socket[w] = "new"
  /\ socket' = [socket EXCEPT ![w] = "open"]
  /\ registry' = Append(registry, [player |-> p, ws |-> w])
  /\ UNCHANGED <<send, got, through>>

(* The peer goes away; the route handler has not noticed yet. *)
PeerCloses(w) ==
  /\ socket[w] = "open"
  /\ socket' = [socket EXCEPT ![w] = "closed"]
  /\ through' = [s \in Send |-> through[s] \ {w}]
  /\ UNCHANGED <<registry, send, got>>

(* The list without its entry i, the only one with that socket. *)
Without(i) == SubSeq(registry, 1, i - 1) \o SubSeq(registry, i + 1, Len(registry))

(* Mutant of Deregister: the entry is removed from the list in place. *)
DeregisterInPlace(w) ==
  /\ \E i \in DOMAIN registry : registry[i].ws = w /\ registry' = Without(i)
  /\ through' = [s \in Send |-> through[s] \ {w}]
  /\ UNCHANGED <<socket, send, got>>

(* A new list without w; sends in progress keep the old one.  When it is   *)
(* empty the key goes, and the next register starts another list.          *)
Deregister(w) ==
  /\ \E i \in DOMAIN registry : registry[i].ws = w /\ registry' = Without(i)
  /\ send' = [s \in Send |-> [send[s] EXCEPT !.list = ListOf(s), !.live = FALSE]]
  /\ through' = [s \in Send |-> through[s] \ {w}]
  /\ UNCHANGED <<socket, got>>

(* send_to_player iterates over the list itself if there is one,           *)
(* broadcast_to_room over a copy.                                          *)
StartSend(s, to) ==
  /\ send[s].state = "idle"
  /\ send' = [send EXCEPT ![s] =
                [state |-> "sending", to |-> to, list |-> registry,
                 live |-> to # Everyone /\ registry # <<>>, next |-> 1]]
  /\ through' = [through EXCEPT ![s] =
       {registry[i].ws : i \in {k \in DOMAIN registry : /\ Addressed(to, registry[k])
                                                        /\ socket[registry[k].ws] = "open"}}]
  /\ UNCHANGED <<registry, socket, got>>

(* Up to the next await: the loop skips other players' entries and sends   *)
(* to the next one addressed, or ends.  A send to a closed socket raises,  *)
(* is logged, and the loop goes on.                                        *)
Resume(s) ==
  LET list == ListOf(s)
      rest == {i \in DOMAIN list : i >= send[s].next /\ Addressed(send[s].to, list[i])}
  IN /\ send[s].state = "sending"
     /\ IF rest = {}
        THEN /\ send' = [send EXCEPT ![s] = [IdleSend EXCEPT !.state = "done"]]
             /\ UNCHANGED got
        ELSE LET i == CHOOSE k \in rest : \A m \in rest : k <= m
             IN /\ send' = [send EXCEPT ![s].next = i + 1]
                /\ got' = IF socket[list[i].ws] = "open"
                          THEN [got EXCEPT ![s] = Append(@, list[i].ws)] ELSE got
     /\ UNCHANGED <<registry, socket, through>>

ConnectionsNext ==
  \/ \E w \in Socket : \/ \E p \in PlayerId : Register(p, w)
                       \/ PeerCloses(w)
                       \/ Deregister(w)
  \/ \E s \in Send : \/ \E to \in PlayerId \cup {Everyone} : StartSend(s, to)
                     \/ Resume(s)

(***************************************************************************)
(* No connection misses a message or gets it twice because others come and *)
(* go during the send: when a call returns, every addressed socket that    *)
(* stayed registered and open has received the message, and none ever      *)
(* receives it a second time.                                              *)
(***************************************************************************)
SentOnce ==
  \A s \in Send :
    /\ \A i, k \in DOMAIN got[s] : got[s][i] = got[s][k] => i = k
    /\ send[s].state = "done" => through[s] \subseteq {got[s][i] : i \in DOMAIN got[s]}

=============================================================================
