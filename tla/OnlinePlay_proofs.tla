-------------------------- MODULE OnlinePlay_proofs --------------------------
(***************************************************************************)
(* Proofs about what a server process does for the players of a room, one  *)
(* section per part, and about the parts together.                         *)
(***************************************************************************)
EXTENDS OnlinePlay, Board_proofs, SequenceTheorems

-----------------------------------------------------------------------------
(* The rooms.                                                              *)

RoomsSpec == RoomsInit /\ [][RoomsNext]_roomsVars

Member ==
  [user_id : User, role : {"player"}, player_index : Nat, color : Nat]
    \cup [user_id : User, role : {"spectator"}]

RoomsTypeOK ==
  /\ room_players \in [Code -> Seq(Member)]
  /\ room_spectators \in [Code -> SUBSET User]

(* The parts of RosterConsistent, of one list; and no seat is beyond the   *)
(* last, so that the next one is new.                                      *)
Places(list, role) == {i \in DOMAIN list : list[i].role = role}

RosterOf(list, playing, watching, watchers) ==
  /\ {list[i].user_id : i \in watching} = watchers
  /\ \A i, k \in watching : list[i].user_id = list[k].user_id => i = k
  /\ \A i \in playing : list[i].player_index = Cardinality({k \in playing : k < i})
  /\ \A i, k \in playing : list[i].color = list[k].color => i = k
  /\ \A i \in playing : /\ list[i].color = list[i].player_index
                        /\ list[i].player_index < Cardinality(playing)
  /\ Cardinality(playing) <= MaxPlayers

Roster(list, watchers) ==
  RosterOf(list, Places(list, "player"), Places(list, "spectator"), watchers)

RoomsInv == RoomsTypeOK /\ \A c \in Code : Roster(room_players[c], room_spectators[c])

(* The places of a role in a list can be counted.                          *)
LEMMA PlacesFinite ==
  ASSUME NEW list \in Seq(Member), NEW role
  PROVE  IsFiniteSet(Places(list, role)) /\ Cardinality(Places(list, role)) \in Nat
<1>1. IsFiniteSet(1 .. Len(list)) /\ Places(list, role) \subseteq 1 .. Len(list)
  BY FS_Interval DEF Places
<1> QED BY <1>1, FS_Subset, FS_CardinalityType

(* A room starts with a consistent roster.                                 *)
LEMMA EmptyRoster == Roster(<<>>, {})
<1>1. \A role : Places(<<>>, role) = {}
  BY DEF Places
<1> QED BY <1>1, FS_EmptySet, RoomsAssumption DEF Roster, RosterOf, RoomsAssumption

(* One more member at the end.                                             *)
LEMMA Appended ==
  ASSUME NEW list \in Seq(Member), NEW m \in Member, NEW role
  PROVE  /\ Append(list, m) \in Seq(Member)
         /\ m.role = role =>
              Places(Append(list, m), role) = Places(list, role) \cup {Len(list) + 1}
         /\ m.role # role => Places(Append(list, m), role) = Places(list, role)
         /\ \A i \in Places(list, role) : Append(list, m)[i] = list[i] /\ i \in 1 .. Len(list)
         /\ Append(list, m)[Len(list) + 1] = m
         /\ Len(list) \in Nat
<1>1. /\ DOMAIN Append(list, m) = 1 .. Len(list) + 1 /\ DOMAIN list = 1 .. Len(list)
      /\ \A i \in 1 .. Len(list) : Append(list, m)[i] = list[i]
      /\ Append(list, m)[Len(list) + 1] = m
      /\ Append(list, m) \in Seq(Member) /\ Len(list) \in Nat
  BY AppendProperties
<1> DEFINE t == Append(list, m)
<1> HIDE DEF t
<1>2. ASSUME DOMAIN t = 1 .. Len(list) + 1, DOMAIN list = 1 .. Len(list), Len(list) \in Nat,
             \A i \in 1 .. Len(list) : t[i] = list[i], t[Len(list) + 1] = m
      PROVE  /\ m.role = role => Places(t, role) = Places(list, role) \cup {Len(list) + 1}
             /\ m.role # role => Places(t, role) = Places(list, role)
  BY <1>2 DEF Places
<1> QED BY <1>1, <1>2 DEF t, Places

(* join_room with a free seat: the new player gets the next seat, which    *)
(* nobody holds, and the roster stays consistent.                          *)
LEMMA PlayerSits ==
  ASSUME NEW list \in Seq(Member), NEW watchers, Roster(list, watchers), NEW u \in User,
         Cardinality(Places(list, "player")) < MaxPlayers
  PROVE  LET m == PlayerRecord(u, Cardinality(Places(list, "player")))
         IN m \in Member /\ Roster(Append(list, m), watchers)
<1> DEFINE seat == Cardinality(Places(list, "player"))
           m == PlayerRecord(u, seat)
           n == Len(list) + 1
           t == Append(list, m)
           P == Places(list, "player")
           W == Places(list, "spectator")
<1>1. IsFiniteSet(P) /\ seat \in Nat /\ seat < 4 /\ seat % 4 = seat /\ seat < MaxPlayers
      /\ MaxPlayers \in Nat
  BY PlacesFinite, RoomsAssumption DEF RoomsAssumption
<1> HIDE DEF seat
<1>2. /\ m \in Member /\ m.role = "player" /\ m.player_index = seat /\ m.color = seat
      /\ m.user_id = u
  BY <1>1 DEF PlayerRecord, Member
<1> HIDE DEF m
<1>3. /\ Places(t, "player") = P \cup {n} /\ Places(t, "spectator") = W
      /\ \A i \in P : t[i] = list[i] /\ i \in 1 .. Len(list)
      /\ \A i \in W : t[i] = list[i] /\ i \in 1 .. Len(list)
      /\ t[n] = m /\ Len(list) \in Nat
  BY <1>2, Appended
<1>4. Cardinality(P \cup {n}) = seat + 1
  <2>1. n \notin P
    BY <1>3
  <2> HIDE DEF P, n
  <2> QED BY <1>1, <2>1, FS_AddElement DEF seat, P
<1> HIDE DEF t, n, P, W
<1>5. /\ {k \in P \cup {n} : k < n} = P
      /\ \A i \in P : {k \in P \cup {n} : k < i} = {k \in P : k < i}
  BY <1>3 DEF n
<1>6. /\ {list[i].user_id : i \in W} = watchers
      /\ \A i, k \in W : list[i].user_id = list[k].user_id => i = k
      /\ \A i \in P : list[i].player_index = Cardinality({k \in P : k < i})
      /\ \A i, k \in P : list[i].color = list[k].color => i = k
      /\ \A i \in P : list[i].color = list[i].player_index /\ list[i].player_index < seat
  BY DEF Roster, RosterOf, P, W, seat
<1>7. {t[i].user_id : i \in W} = watchers
  BY <1>3, <1>6
<1>8. \A i \in P \cup {n} : t[i].player_index = Cardinality({k \in P \cup {n} : k < i})
  <2>1. t[n].player_index = Cardinality({k \in P \cup {n} : k < n})
    BY <1>2, <1>3, <1>5 DEF seat, P
  <2>2. ASSUME NEW i \in P
        PROVE  t[i].player_index = Cardinality({k \in P \cup {n} : k < i})
    <3>1. {k \in P \cup {n} : k < i} = {k \in P : k < i}
      BY <1>5
    <3>2. t[i].player_index = Cardinality({k \in P : k < i})
      BY <1>3, <1>6
    <3> QED BY <3>1, <3>2
  <2> QED BY <2>1, <2>2
<1>9. \A i, k \in P \cup {n} : t[i].color = t[k].color => i = k
  <2>1. \A i \in P : t[i].color # t[n].color
    <3> SUFFICES ASSUME NEW i \in P PROVE t[i].color # t[n].color
      OBVIOUS
    <3>1. t[i].color < seat /\ t[n].color = seat
      BY <1>2, <1>3, <1>6
    <3> QED BY <3>1, <1>1
  <2> QED BY <2>1, <1>3, <1>6
<1>10. \A i \in P \cup {n} : t[i].color = t[i].player_index /\ t[i].player_index < seat + 1
  <2>1. \A i \in P : t[i].player_index \in Nat
    <3> SUFFICES ASSUME NEW i \in P PROVE t[i].player_index \in Nat
      OBVIOUS
    <3>1. {k \in P : k < i} \subseteq P
      OBVIOUS
    <3>2. Cardinality({k \in P : k < i}) \in Nat
      BY <3>1, <1>1, FS_Subset, FS_CardinalityType
    <3> QED BY <3>2, <1>3, <1>6
  <2> QED BY <2>1, <1>1, <1>2, <1>3, <1>6
<1>11. Roster(t, watchers)
  <2>1. RosterOf(t, P \cup {n}, W, watchers)
    <3>1. \A i, k \in W : t[i].user_id = t[k].user_id => i = k
      BY <1>3, <1>6
    <3>2. Cardinality(P \cup {n}) <= MaxPlayers
      BY <1>1, <1>4
    <3>3. \A i \in P \cup {n} : /\ t[i].color = t[i].player_index
                                /\ t[i].player_index < Cardinality(P \cup {n})
      BY <1>4, <1>10
    <3> QED BY <3>1, <3>2, <3>3, <1>7, <1>8, <1>9, Zenon DEF RosterOf
  <2> QED BY <2>1, <1>3 DEF Roster
<1> QED BY <1>2, <1>11 DEF t, m, seat

(* spectate_room: the new spectator is put in the list and in the set of   *)
(* spectators together.                                                    *)
LEMMA SpectatorComes ==
  ASSUME NEW list \in Seq(Member), NEW watchers, Roster(list, watchers),
         NEW u \in User, u \notin watchers
  PROVE  LET m == [user_id |-> u, role |-> "spectator"]
         IN m \in Member /\ Roster(Append(list, m), watchers \cup {u})
<1> DEFINE m == [user_id |-> u, role |-> "spectator"]
           n == Len(list) + 1
           t == Append(list, m)
           P == Places(list, "player")
           W == Places(list, "spectator")
<1>1. m \in Member /\ m.role = "spectator" /\ m.user_id = u
  BY DEF Member
<1> HIDE DEF m
<1>2. /\ Places(t, "player") = P /\ Places(t, "spectator") = W \cup {n}
      /\ \A i \in P : t[i] = list[i]
      /\ \A i \in W : t[i] = list[i] /\ i \in 1 .. Len(list)
      /\ t[n] = m /\ Len(list) \in Nat
  BY <1>1, Appended
<1> HIDE DEF t, n, P, W
<1>3. /\ {list[i].user_id : i \in W} = watchers
      /\ \A i, k \in W : list[i].user_id = list[k].user_id => i = k
  BY DEF Roster, RosterOf, W
<1>4. {t[i].user_id : i \in W \cup {n}} = watchers \cup {u}
  BY <1>1, <1>2, <1>3
<1>5. \A i, k \in W \cup {n} : t[i].user_id = t[k].user_id => i = k
  <2>1. \A i \in W : t[i].user_id # t[n].user_id
    BY <1>1, <1>2, <1>3
  <2> QED BY <2>1, <1>2, <1>3
<1>6. Roster(t, watchers \cup {u})
  <2>1. RosterOf(t, P, W \cup {n}, watchers \cup {u})
    BY <1>2, <1>4, <1>5 DEF Roster, RosterOf, P
  <2> QED BY <2>1, <1>2 DEF Roster
<1> QED BY <1>1, <1>6 DEF t, m

(* Without rooms there is nothing to disagree about.                       *)
LEMMA RoomsInitial == RoomsInit => RoomsInv
  BY EmptyRoster, EmptySeq DEF RoomsInit, RoomsInv, RoomsTypeOK

(* Creating, joining and watching a room keep every roster.                *)
LEMMA RoomsStep == RoomsInv /\ [RoomsNext]_roomsVars => RoomsInv'
<1> SUFFICES ASSUME RoomsInv, [RoomsNext]_roomsVars PROVE RoomsInv'
  OBVIOUS
<1> USE DEF RoomsInv, RoomsTypeOK
<1>1. ASSUME NEW code \in Code, CreateRoom(code) PROVE RoomsInv'
  BY <1>1, EmptyRoster, EmptySeq DEF CreateRoom
<1>2. ASSUME NEW code \in Code, NEW u \in User, JoinRoom(code, u) PROVE RoomsInv'
  <2> DEFINE list == room_players[code]
             m == PlayerRecord(u, Cardinality(Places(list, "player")))
  <2>1. /\ Cardinality(Places(list, "player")) < MaxPlayers
        /\ room_players' = [room_players EXCEPT ![code] = Append(list, m)]
        /\ room_spectators' = room_spectators
    BY <1>2 DEF JoinRoom, WithRole, Places
  <2>2. m \in Member /\ Roster(Append(list, m), room_spectators[code])
    BY <2>1, PlayerSits
  <2>3. Append(list, m) \in Seq(Member)
    BY <2>2, AppendProperties
  <2> HIDE DEF m
  <2> QED BY <2>1, <2>2, <2>3
<1>3. ASSUME NEW code \in Code, NEW u \in User, SpectateRoom(code, u) PROVE RoomsInv'
  <2> DEFINE list == room_players[code]
             m == [user_id |-> u, role |-> "spectator"]
  <2>1. /\ u \notin room_spectators[code]
        /\ room_players' = [room_players EXCEPT ![code] = Append(list, m)]
        /\ room_spectators' = [room_spectators EXCEPT ![code] = @ \cup {u}]
    BY <1>3 DEF SpectateRoom
  <2>2. m \in Member /\ Roster(Append(list, m), room_spectators[code] \cup {u})
    BY <2>1, SpectatorComes
  <2>3. Append(list, m) \in Seq(Member)
    BY <2>2, AppendProperties
  <2> HIDE DEF m
  <2> QED BY <2>1, <2>2, <2>3
<1>4. CASE UNCHANGED roomsVars
  BY <1>4 DEF roomsVars
<1> QED BY <1>1, <1>2, <1>3, <1>4 DEF RoomsNext

(* RosterConsistent, about create_room, join_room and spectate_room: in    *)
(* whatever order users sit down and watch, and however often a code is    *)
(* drawn again, the spectators of the list are those of the set, each      *)
(* once, and the players hold the seats 0, 1, 2, ... and a color each.     *)
THEOREM RosterStaysConsistent == RoomsSpec => []RosterConsistent
<1>1. RoomsInv => RosterConsistent
  BY DEF RoomsInv, Roster, RosterOf, Places, RosterConsistent, WithRole
<1> QED BY <1>1, RoomsInitial, RoomsStep, PTL DEF RoomsSpec

-----------------------------------------------------------------------------
(* The connection registry.                                                *)

ConnectionsSpec == ConnectionsInit /\ [][ConnectionsNext]_connectionsVars

Entry == [player : PlayerId, ws : Socket]

Call == [state : {"idle", "sending", "done"}, to : PlayerId \cup {Everyone},
         list : Seq(Entry), live : BOOLEAN, next : Nat \ {0}]

ConnectionTypes ==
  /\ registry \in Seq(Entry)
  /\ socket \in [Socket -> {"new", "open", "closed"}]
  /\ send \in [Send -> Call]
  /\ got \in [Send -> Seq(Socket)]
  /\ through \in [Send -> SUBSET Socket]

(* A list of entries, each with a socket of its own that has been opened.  *)
Listed(list, sock) ==
  /\ list \in Seq(Entry)
  /\ \A i, k \in 1 .. Len(list) : list[i].ws = list[k].ws => i = k
  /\ \A i \in 1 .. Len(list) : sock[list[i].ws] # "new"

Distinct(g) == \A i, k \in DOMAIN g : g[i] = g[k] => i = k

(* What a call has reached stands before its position in its list.         *)
Reached(list, next, g) ==
  /\ Distinct(g)
  /\ \A j \in DOMAIN g : \E i \in 1 .. Len(list) : i < next /\ list[i].ws = g[j]

(* A socket a call must reach stands in its list, and has been reached if  *)
(* it stands before the position.                                          *)
Awaited(list, sock, to, next, g, watched) ==
  \A w \in watched :
    /\ sock[w] = "open"
    /\ \E i \in 1 .. Len(list) :
         /\ list[i].ws = w /\ Addressed(to, list[i])
         /\ i < next => \E j \in DOMAIN g : g[j] = w

CallInv(list, state, to, next, sock, g, watched) ==
  /\ Listed(list, sock)
  /\ state = "idle" => g = <<>>
  /\ state = "sending" => Reached(list, next, g) /\ Awaited(list, sock, to, next, g, watched)
  /\ state = "done" => Distinct(g) /\ watched \subseteq {g[i] : i \in DOMAIN g}

CallOf(s) ==
  CallInv(ListOf(s), send[s].state, send[s].to, send[s].next, socket, got[s], through[s])

ConnectionsInv ==
  /\ ConnectionTypes
  /\ Listed(registry, socket)
  /\ \A s \in Send : CallOf(s)

(* A list that may have got a new entry.                                   *)
Grown(list, list2, e) == list2 = list \/ list2 = Append(list, e)

Continues(list, list2) ==
  /\ Len(list) \in Nat /\ Len(list2) \in Nat /\ Len(list) <= Len(list2)
  /\ \A i \in 1 .. Len(list) : list2[i] = list[i]

(* A new connection at the end of a list, or in another list.              *)
LEMMA ListGrows ==
  ASSUME NEW list, NEW list2, NEW sock, NEW after, NEW e \in Entry,
         Listed(list, sock), sock[e.ws] = "new", after[e.ws] = "open",
         \A v \in Socket : sock[v] # "new" => after[v] # "new",
         Grown(list, list2, e)
  PROVE  Listed(list2, after) /\ Continues(list, list2)
<1>1. /\ list \in Seq(Entry) /\ Len(list) \in Nat
      /\ \A i \in 1 .. Len(list) : sock[list[i].ws] # "new"
  BY LenProperties DEF Listed
<1>2. /\ \A i \in 1 .. Len(list) : list[i] \in Entry
      /\ \A x \in Entry : x.ws \in Socket
  BY <1>1, ElementOfSeq DEF Entry
<1>3. \A i \in 1 .. Len(list) : list[i].ws # e.ws /\ after[list[i].ws] # "new"
  BY <1>1, <1>2
<1>4. CASE list2 = list
  BY <1>1, <1>3, <1>4 DEF Listed, Continues
<1>5. CASE list2 = Append(list, e)
  <2>1. /\ list2 \in Seq(Entry) /\ Len(list2) = Len(list) + 1
        /\ \A i \in 1 .. Len(list) : list2[i] = list[i]
        /\ list2[Len(list) + 1] = e
    BY <1>1, <1>5, AppendProperties
  <2>2. ASSUME NEW i \in 1 .. Len(list2), NEW k \in 1 .. Len(list2), list2[i].ws = list2[k].ws
        PROVE  i = k
    BY <2>1, <2>2, <1>1, <1>3 DEF Listed
  <2>3. \A i \in 1 .. Len(list2) : after[list2[i].ws] # "new"
    BY <2>1, <1>1, <1>3
  <2> QED BY <1>1, <2>1, <2>2, <2>3 DEF Listed, Continues
<1> QED BY <1>4, <1>5 DEF Grown

(* What happens to the sockets and to the list outside a call does not     *)
(* disturb it: the list may grow, an opened socket may close, and what     *)
(* closes or goes is no longer watched.                                    *)
LEMMA CallUndisturbed ==
  ASSUME NEW list, NEW list2, NEW sock, NEW sock2, NEW state, NEW to, NEW next, NEW g,
         NEW watched, NEW watched2,
         CallInv(list, state, to, next, sock, g, watched),
         Listed(list2, sock2), Continues(list, list2),
         watched2 \subseteq watched,
         \A w \in watched2 : sock[w] = "open" => sock2[w] = "open"
  PROVE  CallInv(list2, state, to, next, sock2, g, watched2)
<1>1. ASSUME Reached(list, next, g) PROVE Reached(list2, next, g)
  <2> SUFFICES ASSUME NEW j \in DOMAIN g
               PROVE  \E i \in 1 .. Len(list2) : i < next /\ list2[i].ws = g[j]
    BY <1>1 DEF Reached
  <2>1. PICK i \in 1 .. Len(list) : i < next /\ list[i].ws = g[j]
    BY <1>1 DEF Reached
  <2>2. i \in 1 .. Len(list2) /\ list2[i] = list[i]
    BY DEF Continues
  <2> QED BY <2>1, <2>2
<1>2. ASSUME Awaited(list, sock, to, next, g, watched)
      PROVE  Awaited(list2, sock2, to, next, g, watched2)
  <2> SUFFICES ASSUME NEW w \in watched2
               PROVE  /\ sock2[w] = "open"
                      /\ \E i \in 1 .. Len(list2) :
                           /\ list2[i].ws = w /\ Addressed(to, list2[i])
                           /\ i < next => \E j \in DOMAIN g : g[j] = w
    BY DEF Awaited
  <2>1. PICK i \in 1 .. Len(list) : /\ list[i].ws = w /\ Addressed(to, list[i])
                                    /\ i < next => \E j \in DOMAIN g : g[j] = w
    BY <1>2 DEF Awaited
  <2>2. i \in 1 .. Len(list2) /\ list2[i] = list[i]
    BY DEF Continues
  <2>3. sock2[w] = "open"
    BY <1>2 DEF Awaited
  <2> QED BY <2>1, <2>2, <2>3
<1> QED BY <1>1, <1>2 DEF CallInv

(* A connection that registers comes at the end of the list, which a call  *)
(* may be reading.                                                         *)
LEMMA RegisterKeeps ==
  ASSUME ConnectionsInv, NEW p \in PlayerId, NEW w \in Socket, Register(p, w)
  PROVE  ConnectionsInv'
<1> DEFINE e == [player |-> p, ws |-> w]
<1>1. /\ socket \in [Socket -> {"new", "open", "closed"}] /\ socket[w] = "new"
      /\ socket' = [socket EXCEPT ![w] = "open"]
      /\ registry \in Seq(Entry) /\ registry' = Append(registry, e)
      /\ send' = send /\ got' = got /\ through' = through
      /\ Listed(registry, socket) /\ \A s \in Send : CallOf(s)
  BY DEF ConnectionsInv, ConnectionTypes, Register
<1>2. /\ e \in Entry /\ socket[e.ws] = "new" /\ socket'[e.ws] = "open"
      /\ \A v \in Socket : socket[v] # "new" => socket'[v] # "new"
  BY <1>1 DEF Entry
<1> HIDE DEF e
<1>3. Listed(registry', socket')
  <2>1. Grown(registry, registry', e)
    BY <1>1 DEF Grown
  <2> QED BY <2>1, <1>1, <1>2, ListGrows
<1>4. ASSUME NEW s \in Send PROVE CallOf(s)'
  <2>1. Grown(ListOf(s), ListOf(s)', e)
    BY <1>1 DEF ListOf, Grown
  <2>2. Listed(ListOf(s), socket)
    BY <1>1 DEF CallOf, CallInv
  <2>3. Listed(ListOf(s)', socket') /\ Continues(ListOf(s), ListOf(s)')
    BY <2>1, <2>2, <1>2, ListGrows
  <2>4. \A v \in through[s] : socket[v] = "open" => socket'[v] = "open"
    BY <1>1 DEF ConnectionsInv, ConnectionTypes
  <2>5. CallInv(ListOf(s)', send[s].state, send[s].to, send[s].next, socket', got[s], through[s])
    BY <2>3, <2>4, <1>1, CallUndisturbed DEF CallOf
  <2> QED BY <2>5, <1>1 DEF CallOf
<1>5. ConnectionTypes'
  BY <1>1, <1>3 DEF ConnectionsInv, ConnectionTypes, Listed
<1> QED BY <1>3, <1>4, <1>5 DEF ConnectionsInv

(* A peer that closes its socket is no longer watched, and no list         *)
(* changes.                                                                *)
LEMMA PeerClosesKeeps ==
  ASSUME ConnectionsInv, NEW w \in Socket, PeerCloses(w)
  PROVE  ConnectionsInv'
<1>1. /\ socket \in [Socket -> {"new", "open", "closed"}] /\ socket[w] = "open"
      /\ socket' = [socket EXCEPT ![w] = "closed"]
      /\ registry' = registry /\ send' = send /\ got' = got
      /\ through' = [s \in Send |-> through[s] \ {w}]
      /\ Listed(registry, socket) /\ \A s \in Send : CallOf(s)
  BY DEF ConnectionsInv, ConnectionTypes, PeerCloses
<1>2. ASSUME NEW list, Listed(list, socket)
      PROVE  Listed(list, socket') /\ Continues(list, list)
  <2>1. \A i \in 1 .. Len(list) : list[i] \in Entry
    BY <1>2, ElementOfSeq DEF Listed
  <2>2. \A x \in Entry : x.ws \in Socket
    BY DEF Entry
  <2>3. \A v \in Socket : socket[v] # "new" => socket'[v] # "new"
    BY <1>1
  <2>4. Len(list) \in Nat
    BY <1>2, LenProperties DEF Listed
  <2> QED BY <2>1, <2>2, <2>3, <2>4, <1>2 DEF Listed, Continues
<1>3. ASSUME NEW s \in Send PROVE CallOf(s)'
  <2>1. ListOf(s)' = ListOf(s)
    BY <1>1 DEF ListOf
  <2>2. Listed(ListOf(s), socket') /\ Continues(ListOf(s), ListOf(s))
    BY <1>1, <1>2 DEF CallOf, CallInv
  <2>3. \A v \in through[s] \ {w} : socket[v] = "open" => socket'[v] = "open"
    BY <1>1 DEF ConnectionsInv, ConnectionTypes
  <2>4. CallInv(ListOf(s), send[s].state, send[s].to, send[s].next, socket', got[s],
                through[s] \ {w})
    <3>1. CallInv(ListOf(s), send[s].state, send[s].to, send[s].next, socket, got[s], through[s])
      BY <1>1 DEF CallOf
    <3>2. through[s] \ {w} \subseteq through[s]
      OBVIOUS
    <3> QED BY <2>2, <2>3, <3>1, <3>2, CallUndisturbed
  <2> QED BY <2>1, <2>4, <1>1 DEF CallOf
<1>4. ConnectionTypes'
  BY <1>1 DEF ConnectionsInv, ConnectionTypes
<1> QED BY <1>1, <1>2, <1>3, <1>4 DEF ConnectionsInv

(* A list without one of its entries.                                      *)
LEMMA WithoutListed ==
  ASSUME NEW i \in DOMAIN registry, Listed(registry, socket)
  PROVE  Listed(Without(i), socket)
<1> DEFINE L == Len(registry)
           a == SubSeq(registry, 1, i - 1)
           b == SubSeq(registry, i + 1, L)
           c == Without(i)
<1>1. /\ registry \in Seq(Entry) /\ L \in Nat /\ i \in 1 .. L
      /\ \A k \in 1 .. L : registry[k] \in Entry
  BY LenProperties, ElementOfSeq DEF Listed
<1> HIDE DEF L
<1>2. /\ a \in Seq(Entry) /\ Len(a) = i - 1
      /\ \A k \in 1 .. i - 1 : a[k] = registry[k]
  <2>1. \A k \in 1 .. i - 1 : registry[k] \in Entry
    BY <1>1
  <2> QED BY <1>1, <2>1, SubSeqProperties
<1>3. /\ b \in Seq(Entry) /\ Len(b) = L - i
      /\ \A k \in 1 .. L - i : b[k] = registry[i + k]
  <2>1. \A k \in i + 1 .. L : registry[k] \in Entry
    BY <1>1
  <2>2. /\ b \in Seq(Entry)
        /\ Len(b) = IF i + 1 <= L THEN L - (i + 1) + 1 ELSE 0
        /\ \A k \in 1 .. L - (i + 1) + 1 : b[k] = registry[(i + 1) + k - 1]
    BY <1>1, <2>1, SubSeqProperties
  <2>3. /\ L - (i + 1) + 1 = L - i /\ (~ (i + 1 <= L) => L - i = 0)
        /\ \A k \in 1 .. L - i : (i + 1) + k - 1 = i + k
    BY <1>1
  <2> HIDE DEF b
  <2>4. Len(b) = L - i
    BY <1>1, <2>2, <2>3
  <2> QED BY <2>2, <2>3, <2>4
<1>4. c = a \o b
  BY DEF Without, L
<1> HIDE DEF a, b, c
<1>5. /\ c \in Seq(Entry) /\ Len(c) = L - 1
      /\ \A k \in 1 .. L - 1 : k < i => c[k] = registry[k]
      /\ \A k \in 1 .. L - 1 : k >= i => c[k] = registry[k + 1]
  <2>1. /\ c \in Seq(Entry) /\ Len(c) = Len(a) + Len(b)
        /\ \A k \in 1 .. Len(a) + Len(b) : c[k] = IF k <= Len(a) THEN a[k] ELSE b[k - Len(a)]
    <3>1. a \in Seq(Entry) /\ b \in Seq(Entry)
      BY <1>2, <1>3
    <3> QED BY <3>1, <1>4, ConcatProperties
  <2>2. ASSUME NEW k \in 1 .. L - 1, k < i PROVE c[k] = registry[k]
    BY <2>1, <2>2, <1>1, <1>2, <1>3
  <2>3. ASSUME NEW k \in 1 .. L - 1, k >= i PROVE c[k] = registry[k + 1]
    <3>1. k - (i - 1) \in 1 .. L - i /\ i + (k - (i - 1)) = k + 1
      BY <2>3, <1>1
    <3>2. c[k] = b[k - (i - 1)]
      BY <2>1, <2>3, <1>1, <1>2, <1>3
    <3>3. b[k - (i - 1)] = registry[i + (k - (i - 1))]
      BY <3>1, <1>3
    <3> QED BY <3>1, <3>2, <3>3
  <2> QED BY <2>1, <2>2, <2>3, <1>1, <1>2, <1>3
<1>6. ASSUME NEW k \in 1 .. Len(c), NEW m \in 1 .. Len(c), c[k].ws = c[m].ws PROVE k = m
  BY <1>1, <1>5, <1>6 DEF Listed, L
<1>7. \A k \in 1 .. Len(c) : socket[c[k].ws] # "new"
  BY <1>1, <1>5 DEF Listed, L
<1> QED BY <1>5, <1>6, <1>7 DEF Listed, c

(* deregister_connection makes a new list: calls go on with the one they   *)
(* hold.                                                                   *)
LEMMA DeregisterKeeps ==
  ASSUME ConnectionsInv, NEW w \in Socket, Deregister(w)
  PROVE  ConnectionsInv'
<1> DEFINE kept(s) == [send[s] EXCEPT !.list = ListOf(s), !.live = FALSE]
<1>1. /\ socket' = socket /\ got' = got
      /\ through' = [s \in Send |-> through[s] \ {w}]
      /\ send' = [s \in Send |-> kept(s)]
      /\ Listed(registry, socket) /\ \A s \in Send : CallOf(s)
  BY DEF ConnectionsInv, Deregister
<1>2. Listed(registry', socket')
  BY <1>1, WithoutListed DEF Deregister
<1>3. ASSUME NEW s \in Send
      PROVE  /\ kept(s) \in Call /\ kept(s).state = send[s].state /\ kept(s).to = send[s].to
             /\ kept(s).next = send[s].next /\ kept(s).list = ListOf(s) /\ kept(s).live = FALSE
  <2>1. send[s] \in Call /\ ListOf(s) \in Seq(Entry)
    BY <1>1 DEF CallOf, CallInv, Listed, ConnectionsInv, ConnectionTypes
  <2> HIDE DEF ListOf
  <2> QED BY <2>1 DEF Call
<1> HIDE DEF kept
<1>4. ASSUME NEW s \in Send PROVE CallOf(s)'
  <2>1. send'[s] = kept(s) /\ got'[s] = got[s] /\ through'[s] = through[s] \ {w}
    BY <1>1
  <2>2. ListOf(s)' = ListOf(s)
    BY <2>1, <1>3 DEF ListOf
  <2>3. Listed(ListOf(s), socket) /\ Continues(ListOf(s), ListOf(s))
    BY <1>1, LenProperties DEF CallOf, CallInv, Listed, Continues
  <2>4. CallInv(ListOf(s), send[s].state, send[s].to, send[s].next, socket, got[s],
                through[s] \ {w})
    <3>1. CallInv(ListOf(s), send[s].state, send[s].to, send[s].next, socket, got[s], through[s])
      BY <1>1 DEF CallOf
    <3>2. through[s] \ {w} \subseteq through[s]
      OBVIOUS
    <3> QED BY <2>3, <3>1, <3>2, CallUndisturbed
  <2> QED BY <2>1, <2>2, <2>4, <1>1, <1>3 DEF CallOf
<1>5. ConnectionTypes'
  BY <1>1, <1>2, <1>3 DEF ConnectionsInv, ConnectionTypes, Listed
<1> QED BY <1>2, <1>4, <1>5 DEF ConnectionsInv

(* A call that begins has all its addressed sockets still ahead of it.     *)
LEMMA StartKeeps ==
  ASSUME ConnectionsInv, NEW s \in Send, NEW to \in PlayerId \cup {Everyone}, StartSend(s, to)
  PROVE  ConnectionsInv'
<1> DEFINE watched == {registry[i].ws : i \in {k \in DOMAIN registry :
                         /\ Addressed(to, registry[k]) /\ socket[registry[k].ws] = "open"}}
           begun == [state |-> "sending", to |-> to, list |-> registry,
                     live |-> to # Everyone /\ registry # <<>>, next |-> 1]
<1>1. /\ registry' = registry /\ socket' = socket /\ got' = got
      /\ send[s].state = "idle" /\ send' = [send EXCEPT ![s] = begun]
      /\ through' = [through EXCEPT ![s] = watched]
      /\ Listed(registry, socket) /\ \A t \in Send : CallOf(t)
  BY DEF ConnectionsInv, StartSend
<1>2. /\ registry \in Seq(Entry) /\ DOMAIN registry = 1 .. Len(registry) /\ Len(registry) \in Nat
      /\ \A i \in 1 .. Len(registry) : registry[i] \in Entry
      /\ \A x \in Entry : x.ws \in Socket
  BY <1>1, LenProperties, ElementOfSeq DEF Listed, Entry
<1>3. watched \subseteq Socket
  BY <1>2
<1>4. begun \in Call
  <2>1. (to # Everyone /\ registry # <<>>) \in BOOLEAN
    OBVIOUS
  <2> QED BY <1>2, <2>1 DEF Call
<1>5. /\ begun.state = "sending" /\ begun.to = to /\ begun.list = registry /\ begun.next = 1
  OBVIOUS
<1>6. Awaited(registry, socket, to, 1, <<>>, watched)
  <2> SUFFICES ASSUME NEW w \in watched
               PROVE  /\ socket[w] = "open"
                      /\ \E i \in 1 .. Len(registry) :
                           /\ registry[i].ws = w /\ Addressed(to, registry[i])
                           /\ i < 1 => \E j \in DOMAIN <<>> : <<>>[j] = w
    BY DEF Awaited
  <2>1. PICK i \in 1 .. Len(registry) : /\ Addressed(to, registry[i]) /\ registry[i].ws = w
                                        /\ socket[w] = "open"
    BY <1>2
  <2>2. ~ (i < 1)
    BY <1>2
  <2> QED BY <2>1, <2>2
<1> HIDE DEF watched, begun
<1>7. ASSUME NEW t \in Send PROVE CallOf(t)'
  <2>1. CASE t = s
    <3>1. send'[t] = begun /\ through'[t] = watched /\ got'[t] = got[t] /\ got[t] = <<>>
      BY <2>1, <1>1 DEF ConnectionsInv, ConnectionTypes, CallOf, CallInv
    <3>2. ListOf(t)' = registry
      BY <3>1, <1>1, <1>5 DEF ListOf
    <3>3. Reached(registry, 1, <<>>)
      BY DEF Reached, Distinct
    <3>4. CallInv(registry, "sending", to, 1, socket, <<>>, watched)
      BY <3>3, <1>1, <1>6 DEF CallInv
    <3> QED BY <3>1, <3>2, <3>4, <1>1, <1>5 DEF CallOf
  <2>2. CASE t # s
    <3>1. send'[t] = send[t] /\ through'[t] = through[t]
      BY <2>2, <1>1 DEF ConnectionsInv, ConnectionTypes
    <3>2. ListOf(t)' = ListOf(t)
      BY <3>1, <1>1 DEF ListOf
    <3> QED BY <3>1, <3>2, <1>1 DEF CallOf
  <2> QED BY <2>1, <2>2
<1>8. ConnectionTypes'
  BY <1>1, <1>3, <1>4 DEF ConnectionsInv, ConnectionTypes
<1> QED BY <1>1, <1>7, <1>8 DEF ConnectionsInv

(* A set of numbers has a least element.                                   *)
LEMMA LeastIndex ==
  ASSUME NEW S \in SUBSET Nat, S # {}
  PROVE  \E i \in S : \A k \in S : i <= k
<1>1. PICK n \in S : TRUE
  OBVIOUS
<1> DEFINE T == {n - k : k \in {k \in S : k <= n}}
<1>2. \A k \in S : k \in Nat
  OBVIOUS
<1>3. T \in SUBSET Nat /\ n \in Nat /\ (\A i \in T : i <= n) /\ n - n \in T
  BY <1>1, <1>2
<1>4. PICK i \in T : \A k \in T : k <= i
  <2> HIDE DEF T
  <2>1. T # {}
    BY <1>3
  <2> QED BY <1>3, <2>1, GreatestIndex
<1>5. PICK m \in S : m <= n /\ i = n - m
  BY <1>1
<1>6. ASSUME NEW k \in S PROVE m <= k
  <2>1. CASE k <= n
    <3>1. n - k <= n - m
      BY <2>1, <1>4, <1>5
    <3> QED BY <3>1, <1>1, <1>2
  <2>2. CASE ~ (k <= n)
    BY <2>2, <1>1, <1>2, <1>5
  <2> QED BY <2>1, <2>2
<1> QED BY <1>6

(* The loop has nobody left.                                               *)
LEMMA CallEnds ==
  ASSUME NEW list, NEW to, NEW next \in Nat, NEW sock, NEW g, NEW watched,
         Listed(list, sock), Reached(list, next, g), Awaited(list, sock, to, next, g, watched),
         \A i \in 1 .. Len(list) : ~ (i >= next /\ Addressed(to, list[i]))
  PROVE  Distinct(g) /\ \A w \in watched : \E j \in DOMAIN g : g[j] = w
<1>1. DOMAIN list = 1 .. Len(list) /\ Len(list) \in Nat
  BY LenProperties DEF Listed
<1>2. ASSUME NEW w \in watched PROVE \E j \in DOMAIN g : g[j] = w
  <2>1. PICK i \in 1 .. Len(list) : /\ Addressed(to, list[i])
                                    /\ i < next => \E j \in DOMAIN g : g[j] = w
    BY DEF Awaited
  <2>2. i < next
    BY <2>1, <1>1
  <2> QED BY <2>1, <2>2
<1> QED BY <1>2 DEF Reached

(* The loop goes on to the first of those left.                            *)
LEMMA CallGoesOn ==
  ASSUME NEW list, NEW to, NEW next \in Nat, NEW sock, NEW g \in Seq(Socket), NEW watched,
         NEW g2, NEW i,
         Listed(list, sock), Reached(list, next, g), Awaited(list, sock, to, next, g, watched),
         i \in 1 .. Len(list), i >= next,
         \A k \in 1 .. Len(list) : k >= next /\ Addressed(to, list[k]) => i <= k,
         \/ sock[list[i].ws] = "open" /\ g2 = Append(g, list[i].ws)
         \/ sock[list[i].ws] # "open" /\ g2 = g
  PROVE  /\ g2 \in Seq(Socket)
         /\ Reached(list, i + 1, g2) /\ Awaited(list, sock, to, i + 1, g2, watched)
<1>1. /\ Len(list) \in Nat /\ Len(g) \in Nat /\ DOMAIN g = 1 .. Len(g)
      /\ list[i] \in Entry /\ \A x \in Entry : x.ws \in Socket
  BY LenProperties, ElementOfSeq DEF Listed, Entry
<1> DEFINE w == list[i].ws
<1>2. w \in Socket
  BY <1>1
<1>3. /\ Distinct(g)
      /\ \A j \in 1 .. Len(g) : \E k \in 1 .. Len(list) : k < next /\ list[k].ws = g[j]
      /\ \A k \in 1 .. Len(list) : list[k].ws = w => k = i
  BY <1>1 DEF Reached, Listed
<1>4. \A v \in watched :
        /\ sock[v] = "open"
        /\ \E k \in 1 .. Len(list) : /\ list[k].ws = v /\ Addressed(to, list[k])
                                     /\ k < next => \E j \in 1 .. Len(g) : g[j] = v
  BY <1>1 DEF Awaited
<1>5. \A j \in 1 .. Len(g) : g[j] # w
  BY <1>1, <1>3
<1> HIDE DEF w
<1>6. CASE sock[w] = "open" /\ g2 = Append(g, w)
  <2>1. /\ g2 \in Seq(Socket) /\ Len(g2) = Len(g) + 1 /\ DOMAIN g2 = 1 .. Len(g) + 1
        /\ \A j \in 1 .. Len(g) : g2[j] = g[j]
        /\ g2[Len(g) + 1] = w
    BY <1>2, <1>6, AppendProperties, LenProperties
  <2>2. Distinct(g2)
    BY <2>1, <1>1, <1>3, <1>5 DEF Distinct
  <2>3. ASSUME NEW j \in DOMAIN g2
        PROVE  \E k \in 1 .. Len(list) : k < i + 1 /\ list[k].ws = g2[j]
    <3>1. CASE j = Len(g) + 1
      BY <3>1, <2>1, <1>1 DEF w
    <3>2. CASE j \in 1 .. Len(g)
      <4>1. PICK k \in 1 .. Len(list) : k < next /\ list[k].ws = g[j]
        BY <3>2, <1>3
      <4>2. k < i + 1
        BY <4>1, <1>1
      <4> QED BY <4>1, <4>2, <3>2, <2>1
    <3> QED BY <3>1, <3>2, <2>1, <1>1
  <2>4. ASSUME NEW v \in watched
        PROVE  \E k \in 1 .. Len(list) : /\ list[k].ws = v /\ Addressed(to, list[k])
                                         /\ k < i + 1 => \E j \in DOMAIN g2 : g2[j] = v
    <3>1. PICK k \in 1 .. Len(list) : /\ list[k].ws = v /\ Addressed(to, list[k])
                                      /\ k < next => \E j \in 1 .. Len(g) : g[j] = v
      BY <1>4
    <3>2. CASE k < next
      <4>1. PICK j \in 1 .. Len(g) : g[j] = v
        BY <3>1, <3>2
      <4>2. j \in DOMAIN g2 /\ g2[j] = v
        BY <4>1, <2>1, <1>1
      <4> QED BY <3>1, <4>2
    <3>3. CASE k >= next /\ k # i
      <4>1. ~ (k < i + 1)
        BY <3>1, <3>3, <1>1
      <4> QED BY <3>1, <4>1
    <3>4. CASE k = i
      <4>1. Len(g) + 1 \in DOMAIN g2 /\ g2[Len(g) + 1] = v
        BY <3>1, <3>4, <2>1, <1>1 DEF w
      <4> QED BY <3>1, <4>1
    <3> QED BY <3>2, <3>3, <3>4, <1>1
  <2> QED BY <2>1, <2>2, <2>3, <2>4, <1>4 DEF Reached, Awaited
<1>7. CASE sock[w] # "open" /\ g2 = g
  <2>1. ASSUME NEW j \in DOMAIN g
        PROVE  \E k \in 1 .. Len(list) : k < i + 1 /\ list[k].ws = g[j]
    <3>1. PICK k \in 1 .. Len(list) : k < next /\ list[k].ws = g[j]
      BY <1>1, <1>3
    <3>2. k < i + 1
      BY <3>1, <1>1
    <3> QED BY <3>1, <3>2
  <2>2. ASSUME NEW v \in watched
        PROVE  \E k \in 1 .. Len(list) : /\ list[k].ws = v /\ Addressed(to, list[k])
                                         /\ k < i + 1 => \E j \in DOMAIN g : g[j] = v
    <3>1. PICK k \in 1 .. Len(list) : /\ list[k].ws = v /\ Addressed(to, list[k])
                                      /\ k < next => \E j \in 1 .. Len(g) : g[j] = v
      BY <1>4
    <3>2. k # i
      BY <3>1, <1>4, <1>7 DEF w
    <3>3. k >= next => ~ (k < i + 1)
      BY <3>1, <3>2, <1>1
    <3>4. k < i + 1 => \E j \in DOMAIN g : g[j] = v
      BY <3>1, <3>3, <1>1
    <3> QED BY <3>1, <3>4
  <2> QED BY <2>1, <2>2, <1>3, <1>4, <1>7 DEF Reached, Awaited
<1> QED BY <1>6, <1>7 DEF w

(* A resumed call sends to the next addressed connection of its list, or   *)
(* ends.                                                                   *)
LEMMA ResumeKeeps ==
  ASSUME ConnectionsInv, NEW s \in Send, Resume(s)
  PROVE  ConnectionsInv'
<1> DEFINE list == ListOf(s)
           c == send[s]
           rest == {i \in DOMAIN list : i >= c.next /\ Addressed(c.to, list[i])}
           i == CHOOSE k \in rest : \A m \in rest : k <= m
           done == [IdleSend EXCEPT !.state = "done"]
           ahead == [c EXCEPT !.next = i + 1]
<1>1. /\ registry' = registry /\ socket' = socket /\ through' = through
      /\ c.state = "sending"
      /\ Listed(registry, socket) /\ \A t \in Send : CallOf(t)
  BY DEF ConnectionsInv, Resume
<1>2. /\ Listed(list, socket) /\ Reached(list, c.next, got[s])
      /\ Awaited(list, socket, c.to, c.next, got[s], through[s])
  BY <1>1 DEF CallOf, CallInv
<1>3. c \in Call /\ c.next \in Nat /\ got[s] \in Seq(Socket) /\ got \in [Send -> Seq(Socket)]
      /\ send \in [Send -> Call]
  BY DEF ConnectionsInv, ConnectionTypes, Call
<1>4. DOMAIN list = 1 .. Len(list) /\ Len(list) \in Nat
  BY <1>2, LenProperties DEF Listed
<1>5. \/ rest = {} /\ send' = [send EXCEPT ![s] = done] /\ got' = got
      \/ /\ rest # {} /\ send' = [send EXCEPT ![s].next = i + 1]
         /\ got' = IF socket[list[i].ws] = "open"
                   THEN [got EXCEPT ![s] = Append(@, list[i].ws)] ELSE got
  <2> HIDE DEF rest, i, list, done
  <2> QED BY DEF Resume, rest, i, list, done
<1>6. ASSUME NEW t \in Send, t # s, send'[t] = send[t], got'[t] = got[t]
      PROVE  CallOf(t)'
  <2>1. ListOf(t)' = ListOf(t)
    BY <1>6, <1>1 DEF ListOf
  <2> QED BY <2>1, <1>6, <1>1 DEF CallOf
<1>7. /\ done \in Call /\ done.state = "done" /\ done.live = FALSE /\ done.list = <<>>
      /\ done.to = Everyone /\ done.next = 1
  <2>1. FALSE \in BOOLEAN /\ <<>> \in Seq(Entry)
    BY EmptySeq
  <2>2. done = [state |-> "done", to |-> Everyone, list |-> <<>>, live |-> FALSE, next |-> 1]
    <3>1. ASSUME NEW x, NEW y, NEW z
          PROVE  [[state |-> "idle", to |-> y, list |-> z, live |-> x, next |-> 1]
                    EXCEPT !.state = "done"]
                 = [state |-> "done", to |-> y, list |-> z, live |-> x, next |-> 1]
      OBVIOUS
    <3> QED BY <3>1, Zenon DEF IdleSend
  <2> HIDE DEF done
  <2>3. done \in Call
    BY <2>1, <2>2 DEF Call
  <2> QED BY <2>2, <2>3
<1> HIDE DEF list, c, rest, i, done, ahead
<1>8. CASE rest = {}
  <2>1. send' = [send EXCEPT ![s] = done] /\ got' = got
    BY <1>5, <1>8
  <2>2. send'[s] = done /\ \A t \in Send : t # s => send'[t] = send[t]
    BY <2>1, <1>3
  <2>3. Distinct(got[s]) /\ through[s] \subseteq {got[s][j] : j \in DOMAIN got[s]}
    <3>1. \A k \in 1 .. Len(list) : ~ (k >= c.next /\ Addressed(c.to, list[k]))
      BY <1>4, <1>8 DEF rest
    <3>2. Distinct(got[s]) /\ \A w \in through[s] : \E j \in DOMAIN got[s] : got[s][j] = w
      <4> DEFINE g == got[s]
                 watched == through[s]
                 next == c.next
                 to == c.to
      <4>1. /\ Listed(list, socket) /\ Reached(list, next, g) /\ next \in Nat
            /\ Awaited(list, socket, to, next, g, watched)
            /\ \A k \in 1 .. Len(list) : ~ (k >= next /\ Addressed(to, list[k]))
        BY <3>1, <1>2, <1>3
      <4> HIDE DEF g, watched, next, to
      <4>2. Distinct(g) /\ \A w \in watched : \E j \in DOMAIN g : g[j] = w
        BY <4>1, CallEnds
      <4> QED BY <4>2 DEF g, watched
    <3> QED BY <3>2
  <2>4. ListOf(s)' = <<>>
    BY <2>2, <1>7 DEF ListOf
  <2>5. Listed(<<>>, socket)
    BY EmptySeq DEF Listed
  <2>6. CallInv(<<>>, "done", Everyone, 1, socket, got[s], through[s])
    BY <2>3, <2>5 DEF CallInv
  <2>7. CallOf(s)'
    BY <2>1, <2>2, <2>4, <2>6, <1>1, <1>7 DEF CallOf
  <2>8. ConnectionTypes'
    BY <2>1, <1>1, <1>7 DEF ConnectionsInv, ConnectionTypes
  <2> QED BY <2>1, <2>2, <2>7, <2>8, <1>1, <1>6 DEF ConnectionsInv
<1>9. CASE rest # {}
  <2>1. /\ send' = [send EXCEPT ![s].next = i + 1]
        /\ got' = IF socket[list[i].ws] = "open"
                  THEN [got EXCEPT ![s] = Append(@, list[i].ws)] ELSE got
    BY <1>5, <1>9
  <2>2. i \in rest /\ \A m \in rest : i <= m
    <3>1. rest \in SUBSET Nat
      BY <1>4 DEF rest
    <3>2. PICK k \in rest : \A m \in rest : k <= m
      BY <3>1, <1>9, LeastIndex
    <3> QED BY <3>2 DEF i
  <2>3. /\ i \in 1 .. Len(list) /\ i >= c.next /\ i \in Nat
        /\ \A k \in 1 .. Len(list) : k >= c.next /\ Addressed(c.to, list[k]) => i <= k
    BY <2>2, <1>4 DEF rest
  <2>4. /\ ahead \in Call /\ ahead.state = c.state /\ ahead.to = c.to /\ ahead.next = i + 1
        /\ ahead.list = c.list /\ ahead.live = c.live
    <3>1. i + 1 \in Nat \ {0}
      BY <2>3
    <3> DEFINE n == i + 1
    <3> HIDE DEF n
    <3>2. ASSUME NEW r \in Call, n \in Nat \ {0}
          PROVE  [r EXCEPT !.next = n] \in Call
      BY <3>2 DEF Call
    <3>3. ASSUME NEW r \in Call, NEW q, q = [r EXCEPT !.next = n]
          PROVE  q.state = r.state /\ q.to = r.to /\ q.next = n /\ q.list = r.list
                 /\ q.live = r.live
      BY <3>3 DEF Call
    <3> QED BY <3>1, <3>2, <3>3, <1>3 DEF ahead, n
  <2>5. /\ send'[s] = ahead /\ send' \in [Send -> Call]
        /\ \A t \in Send : t # s => send'[t] = send[t]
    BY <2>1, <2>4, <1>3 DEF ahead, c
  <2>6. \/ socket[list[i].ws] = "open" /\ got'[s] = Append(got[s], list[i].ws)
        \/ socket[list[i].ws] # "open" /\ got'[s] = got[s]
    BY <2>1, <1>3
  <2>7. \A t \in Send : t # s => got'[t] = got[t]
    BY <2>1, <1>3
  <2>8. /\ got'[s] \in Seq(Socket) /\ Reached(list, i + 1, got'[s])
        /\ Awaited(list, socket, c.to, i + 1, got'[s], through[s])
    BY <2>3, <2>6, <1>2, <1>3, CallGoesOn
  <2>9. ListOf(s)' = list
    BY <2>4, <2>5, <1>1 DEF ListOf, list, c
  <2>10. CallInv(list, "sending", c.to, i + 1, socket, got'[s], through[s])
    BY <2>8, <1>2 DEF CallInv
  <2>11. CallOf(s)'
    BY <2>4, <2>5, <2>9, <2>10, <1>1 DEF CallOf
  <2>12. got' \in [Send -> Seq(Socket)]
    <3>1. socket[list[i].ws] = "open" => got' = [got EXCEPT ![s] = got'[s]]
      BY <2>1, <1>3
    <3>2. socket[list[i].ws] # "open" => got' = got
      BY <2>1
    <3> QED BY <3>1, <3>2, <2>8, <1>3
  <2>13. ConnectionTypes'
    BY <2>5, <2>12, <1>1 DEF ConnectionsInv, ConnectionTypes
  <2> QED BY <2>5, <2>7, <2>11, <2>13, <1>1, <1>6 DEF ConnectionsInv
<1> QED BY <1>8, <1>9

(* No step of the registry or of a call breaks the invariant.              *)
THEOREM ConnectionsInvariance == ConnectionsSpec => []ConnectionsInv
<1>1. ConnectionsInit => ConnectionsInv
  <2> SUFFICES ASSUME ConnectionsInit PROVE ConnectionsInv
    OBVIOUS
  <2>1. <<>> \in Seq(Entry) /\ <<>> \in Seq(Socket) /\ Len(<<>>) = 0
    BY EmptySeq
  <2>2. Listed(<<>>, socket)
    BY <2>1 DEF Listed
  <2>3. /\ IdleSend \in Call /\ IdleSend.state = "idle" /\ IdleSend.list = <<>>
        /\ IdleSend.live = FALSE
    BY <2>1 DEF IdleSend, Call
  <2>4. ASSUME NEW s \in Send PROVE CallOf(s)
    <3>1. send[s] = IdleSend /\ got[s] = <<>> /\ ListOf(s) = <<>>
      BY <2>3 DEF ConnectionsInit, ListOf
    <3> QED BY <3>1, <2>2, <2>3 DEF CallOf, CallInv
  <2>5. ConnectionTypes
    BY <2>1, <2>3 DEF ConnectionsInit, ConnectionTypes
  <2> QED BY <2>2, <2>4, <2>5 DEF ConnectionsInit, ConnectionsInv
<1>2. ConnectionsInv /\ [ConnectionsNext]_connectionsVars => ConnectionsInv'
  <2> SUFFICES ASSUME ConnectionsInv, [ConnectionsNext]_connectionsVars PROVE ConnectionsInv'
    OBVIOUS
  <2>1. ASSUME NEW w \in Socket, NEW p \in PlayerId, Register(p, w) PROVE ConnectionsInv'
    BY <2>1, RegisterKeeps
  <2>2. ASSUME NEW w \in Socket, PeerCloses(w) PROVE ConnectionsInv'
    BY <2>2, PeerClosesKeeps
  <2>3. ASSUME NEW w \in Socket, Deregister(w) PROVE ConnectionsInv'
    BY <2>3, DeregisterKeeps
  <2>4. ASSUME NEW s \in Send, NEW to \in PlayerId \cup {Everyone}, StartSend(s, to)
        PROVE  ConnectionsInv'
    BY <2>4, StartKeeps
  <2>5. ASSUME NEW s \in Send, Resume(s) PROVE ConnectionsInv'
    BY <2>5, ResumeKeeps
  <2>6. CASE UNCHANGED connectionsVars
    BY <2>6 DEF connectionsVars, ConnectionsInv, ConnectionTypes, CallOf, ListOf
  <2> QED BY <2>1, <2>2, <2>3, <2>4, <2>5, <2>6 DEF ConnectionsNext
<1> QED BY <1>1, <1>2, PTL DEF ConnectionsSpec

(* SentOnce, about send_to_player and broadcast_to_room: a call reaches    *)
(* every addressed connection that stays, and none twice, whoever          *)
(* registers, closes and deregisters between its awaits.                   *)
THEOREM EveryMessageSentOnce == ConnectionsSpec => []SentOnce
<1>1. ConnectionsInv => SentOnce
  <2> SUFFICES ASSUME ConnectionsInv, NEW s \in Send
               PROVE  /\ Distinct(got[s])
                      /\ send[s].state = "done" => through[s] \subseteq {got[s][i] : i \in DOMAIN got[s]}
    BY DEF SentOnce, Distinct
  <2>1. send[s].state \in {"idle", "sending", "done"}
    BY DEF ConnectionsInv, ConnectionTypes, Call
  <2>2. CallOf(s)
    BY DEF ConnectionsInv
  <2>3. Distinct(<<>>)
    BY DEF Distinct
  <2> QED BY <2>1, <2>2, <2>3 DEF CallOf, CallInv, Reached
<1> QED BY <1>1, ConnectionsInvariance, PTL

-----------------------------------------------------------------------------
(* The message limit.                                                      *)

SocketLimitSpec == SocketLimitInit /\ [][SocketLimitNext]_socketLimitVars

(* All messages let through, in order of time; the deque holds the end of  *)
(* that list, and what it no longer holds is old.                          *)
DequeInv ==
  /\ clock \in Nat
  /\ dispatched \in Seq(Nat) /\ message_timestamps \in Seq(Nat)
  /\ \A i \in 1 .. Len(dispatched) : dispatched[i] <= clock
  /\ \A i, k \in 1 .. Len(dispatched) : i <= k => dispatched[i] <= dispatched[k]
  /\ Len(message_timestamps) <= Len(dispatched)
  /\ Len(message_timestamps) <= RateLimit
  /\ \A j \in 1 .. Len(message_timestamps) :
       message_timestamps[j] = dispatched[Len(dispatched) - Len(message_timestamps) + j]
  /\ \A i \in 1 .. Len(dispatched) - Len(message_timestamps) : Old(dispatched[i])

(* The message RateLimit places before another is more than a window older.*)
Spaced ==
  \A i \in 1 .. Len(dispatched) :
    i > RateLimit => dispatched[i - RateLimit] + RateWindow < dispatched[i]

(* A dropped message found a full window.                                  *)
FullWindow(t) ==
  \E n \in Nat :
    /\ n + RateLimit <= Len(dispatched)
    /\ \A i \in 1 .. Len(dispatched) :
         dispatched[i] \in t - RateWindow .. t <=> i \in n + 1 .. n + RateLimit

SocketLimitInv ==
  /\ DequeInv
  /\ Spaced
  /\ \A t \in dropped : t \in Nat /\ t <= clock /\ FullWindow(t)

(* The loop stops at the first time that is not old.                       *)
LEMMA PoppedExists ==
  ASSUME NEW times \in Seq(Nat)
  PROVE  \E n \in 0 .. Len(times) : /\ \A i \in 1 .. n : Old(times[i])
                                    /\ n < Len(times) => ~ Old(times[n + 1])
<1> DEFINE S == {n \in 0 .. Len(times) : \A i \in 1 .. n : Old(times[i])}
<1>1. Len(times) \in Nat
  BY LenProperties
<1>2. S \in SUBSET Nat /\ 0 \in S /\ \A n \in S : n <= Len(times)
  BY <1>1
<1>3. PICK n \in S : \A k \in S : k <= n
  <2> HIDE DEF S
  <2>1. S # {}
    BY <1>2
  <2> QED BY <1>1, <1>2, <2>1, GreatestIndex
<1>4. ASSUME n < Len(times), Old(times[n + 1]) PROVE FALSE
  <2>1. n + 1 \in S
    BY <1>1, <1>3, <1>4
  <2> QED BY <2>1, <1>1, <1>3
<1> QED BY <1>3, <1>4

(* What the loop that drops old timestamps leaves is an end of all the     *)
(* messages let through: those before it are old and those in it are not.  *)
LEMMA RecentTail ==
  ASSUME DequeInv
  PROVE  \E e \in 0 .. Len(dispatched) :
           /\ Recent \in Seq(Nat) /\ Len(Recent) = Len(dispatched) - e /\ Len(Recent) <= RateLimit
           /\ \A j \in 1 .. Len(Recent) : Recent[j] = dispatched[e + j]
           /\ \A i \in 1 .. e : Old(dispatched[i])
           /\ \A i \in e + 1 .. Len(dispatched) : ~ Old(dispatched[i])
<1> USE SocketLimitAssumption DEF SocketLimitAssumption
<1> DEFINE times == message_timestamps
           Stop(n) == /\ \A i \in 1 .. n : Old(times[i])
                      /\ n < Len(times) => ~ Old(times[n + 1])
           p == CHOOSE n \in 0 .. Len(times) : Stop(n)
           L == Len(dispatched)
           e == L - Len(times) + p
<1>1. times \in Seq(Nat) /\ dispatched \in Seq(Nat) /\ Len(times) \in Nat /\ L \in Nat
  BY LenProperties DEF DequeInv
<1>2. p \in 0 .. Len(times) /\ Stop(p)
  BY <1>1, PoppedExists
<1>3. Recent = SubSeq(times, p + 1, Len(times))
  BY DEF Recent
<1> HIDE DEF p, L, times
<1>4. /\ Recent \in Seq(Nat) /\ Len(Recent) = Len(times) - p
      /\ \A j \in 1 .. Len(Recent) : Recent[j] = times[p + j]
  <2>1. \A i \in p + 1 .. Len(times) : times[i] \in Nat
    BY <1>1, <1>2, ElementOfSeq
  <2>2. /\ Recent \in Seq(Nat)
        /\ Len(Recent) = IF p + 1 <= Len(times) THEN Len(times) - (p + 1) + 1 ELSE 0
        /\ \A i \in 1 .. Len(times) - (p + 1) + 1 : Recent[i] = times[(p + 1) + i - 1]
    BY <1>1, <1>2, <1>3, <2>1, SubSeqProperties
  <2> QED BY <1>1, <1>2, <2>2
<1>5. /\ Len(times) <= L /\ Len(times) <= RateLimit
      /\ \A j \in 1 .. Len(times) : times[j] = dispatched[L - Len(times) + j]
      /\ \A i \in 1 .. L - Len(times) : Old(dispatched[i])
      /\ \A i, k \in 1 .. L : i <= k => dispatched[i] <= dispatched[k]
      /\ \A i \in 1 .. L : dispatched[i] \in Nat
      /\ clock \in Nat
  BY <1>1, ElementOfSeq DEF DequeInv, times, L
<1>6. e \in 0 .. L /\ Len(Recent) = L - e /\ Len(Recent) <= RateLimit
  BY <1>1, <1>2, <1>4, <1>5
<1>7. \A j \in 1 .. Len(Recent) : Recent[j] = dispatched[e + j]
  BY <1>1, <1>2, <1>4, <1>5
<1>8. ASSUME NEW i \in 1 .. e PROVE Old(dispatched[i])
  <2>1. CASE i <= L - Len(times)
    BY <2>1, <1>1, <1>5
  <2>2. CASE i > L - Len(times)
    <3>1. i - (L - Len(times)) \in 1 .. p
      BY <2>2, <1>1, <1>2, <1>5
    <3>2. times[i - (L - Len(times))] = dispatched[i]
      BY <3>1, <1>1, <1>2, <1>5
    <3> QED BY <3>1, <3>2, <1>2
  <2> QED BY <2>1, <2>2, <1>1, <1>2, <1>5
<1>9. ASSUME NEW i \in e + 1 .. L PROVE ~ Old(dispatched[i])
  <2>1. p < Len(times) /\ p + 1 \in 1 .. Len(times) /\ e + 1 \in 1 .. L
    BY <1>1, <1>2, <1>5
  <2>2. ~ Old(dispatched[e + 1])
    BY <2>1, <1>1, <1>2, <1>5
  <2>3. dispatched[e + 1] <= dispatched[i]
    BY <2>1, <1>1, <1>5
  <2>4. dispatched[e + 1] \in Nat /\ dispatched[i] \in Nat
    BY <2>1, <1>1, <1>5
  <2> DEFINE a == dispatched[e + 1]
             b == dispatched[i]
  <2>5. a \in Nat /\ b \in Nat /\ a <= b /\ ~ (a < clock - RateWindow)
    BY <2>2, <2>3, <2>4 DEF Old
  <2>6. SUFFICES ~ (b < clock - RateWindow)
    BY DEF Old
  <2> HIDE DEF a, b
  <2> QED BY <2>5, <1>5
<1> HIDE DEF e
<1> QED BY <1>4, <1>6, <1>7, <1>8, <1>9 DEF L

(* A message is let through if the deque, without the old, is not full,    *)
(* and dropped otherwise; both keep the invariant.                         *)
LEMMA ReceiveKeeps ==
  ASSUME SocketLimitInv, Receive
  PROVE  SocketLimitInv'
<1> USE SocketLimitAssumption DEF SocketLimitAssumption
<1> DEFINE d == dispatched
           L == Len(d)
<1>1. /\ d \in Seq(Nat) /\ L \in Nat /\ clock \in Nat /\ clock' = clock
      /\ \A i \in 1 .. L : d[i] \in Nat /\ d[i] <= clock
      /\ \A i, k \in 1 .. L : i <= k => d[i] <= d[k]
      /\ \A i \in 1 .. L : i > RateLimit => d[i - RateLimit] + RateWindow < d[i]
      /\ \A t \in dropped : t \in Nat /\ t <= clock
  BY LenProperties, ElementOfSeq DEF SocketLimitInv, DequeInv, Spaced, Receive
<1>2. PICK e \in 0 .. L :
        /\ Recent \in Seq(Nat) /\ Len(Recent) = L - e /\ Len(Recent) <= RateLimit
        /\ \A j \in 1 .. Len(Recent) : Recent[j] = d[e + j]
        /\ \A i \in 1 .. e : Old(d[i])
        /\ \A i \in e + 1 .. L : ~ Old(d[i])
  BY RecentTail DEF SocketLimitInv
<1>3. CASE Len(Recent) >= RateLimit
  <2>1. message_timestamps' = Recent /\ dispatched' = d /\ dropped' = dropped \cup {clock}
    BY <1>3 DEF Receive
  <2>2. DequeInv'
    BY <2>1, <1>1, <1>2 DEF DequeInv, Old
  <2>3. Spaced'
    BY <2>1, <1>1 DEF Spaced
  <2>4. ASSUME NEW t \in dropped PROVE FullWindow(t)'
    BY <2>1, <2>4 DEF FullWindow, SocketLimitInv
  <2>5. FullWindow(clock)'
    <3>1. e + RateLimit = L /\ e \in Nat
      <4> HIDE DEF L
      <4>1. L - e >= RateLimit /\ L - e <= RateLimit
        BY <1>2, <1>3
      <4> QED BY <4>1, <1>1, <1>2
    <3>2. ASSUME NEW i \in 1 .. L
          PROVE  d[i] \in clock - RateWindow .. clock <=> i \in e + 1 .. e + RateLimit
      BY <3>1, <1>1, <1>2 DEF Old
    <3>3. /\ e + RateLimit <= Len(dispatched')
          /\ \A i \in 1 .. Len(dispatched') :
               dispatched'[i] \in clock' - RateWindow .. clock' <=> i \in e + 1 .. e + RateLimit
      BY <3>1, <3>2, <2>1, <1>1
    <3> QED BY <3>1, <3>3 DEF FullWindow
  <2> QED BY <2>1, <2>2, <2>3, <2>4, <2>5, <1>1 DEF SocketLimitInv
<1>4. CASE ~ (Len(Recent) >= RateLimit)
  <2> DEFINE f == Append(d, clock)
             R == Append(Recent, clock)
  <2>1. message_timestamps' = R /\ dispatched' = f /\ dropped' = dropped
    BY <1>4 DEF Receive
  <2>2. /\ f \in Seq(Nat) /\ Len(f) = L + 1 /\ f[L + 1] = clock
        /\ \A i \in 1 .. L : f[i] = d[i]
    BY <1>1, AppendProperties
  <2>3. /\ R \in Seq(Nat) /\ Len(R) = L - e + 1 /\ R[L - e + 1] = clock
        /\ \A j \in 1 .. L - e : R[j] = d[e + j]
    BY <1>1, <1>2, AppendProperties
  <2> HIDE DEF f, R, L
  <2>4. DequeInv'
    <3>1. \A i \in 1 .. L + 1 : f[i] <= clock
      BY <1>1, <2>2
    <3>2. \A i, k \in 1 .. L + 1 : i <= k => f[i] <= f[k]
      BY <1>1, <2>2
    <3>3. \A j \in 1 .. L - e + 1 : R[j] = f[(L + 1) - (L - e + 1) + j]
      BY <1>1, <1>2, <2>2, <2>3
    <3>4. \A i \in 1 .. (L + 1) - (L - e + 1) : f[i] < clock - RateWindow
      BY <1>1, <1>2, <2>2 DEF Old
    <3>5. L - e + 1 <= L + 1 /\ L - e + 1 <= RateLimit
      BY <1>1, <1>2, <1>4
    <3> QED BY <1>1, <2>1, <2>2, <2>3, <3>1, <3>2, <3>3, <3>4, <3>5 DEF DequeInv, Old
  <2>5. Spaced'
    <3>1. ASSUME NEW i \in 1 .. L + 1, i > RateLimit
          PROVE  f[i - RateLimit] + RateWindow < f[i]
      <4>1. CASE i \in 1 .. L
        BY <3>1, <4>1, <1>1, <2>2
      <4>2. CASE i = L + 1
        <5>1. i - RateLimit \in 1 .. e
          BY <3>1, <4>2, <1>1, <1>2, <1>4
        <5>2. d[i - RateLimit] < clock - RateWindow /\ i - RateLimit \in 1 .. L
          BY <5>1, <1>1, <1>2 DEF Old
        <5> QED BY <5>2, <4>2, <1>1, <2>2
      <4> QED BY <4>1, <4>2, <1>1
    <3> QED BY <3>1, <2>1, <2>2 DEF Spaced
  <2>6. ASSUME NEW t \in dropped PROVE FullWindow(t)'
    <3>1. PICK n \in Nat : /\ n + RateLimit <= L
                           /\ \A i \in 1 .. L : d[i] \in t - RateWindow .. t
                                                  <=> i \in n + 1 .. n + RateLimit
      BY <2>6 DEF SocketLimitInv, FullWindow, L
    <3>2. t # clock
      <4> SUFFICES ASSUME t = clock PROVE FALSE
        OBVIOUS
      <4>1. n + 1 \in 1 .. L /\ n + 1 \in n + 1 .. n + RateLimit
        BY <3>1, <1>1
      <4>2. ~ (d[n + 1] < clock - RateWindow)
        BY <3>1, <4>1, <1>1
      <4>3. n + 1 > e
        BY <4>1, <4>2, <1>1, <1>2 DEF Old
      <4> QED BY <4>3, <3>1, <1>1, <1>2, <1>4
    <3>3. t \in Nat /\ t < clock
      BY <3>2, <1>1
    <3>4. \A i \in 1 .. L + 1 : f[i] \in t - RateWindow .. t <=> i \in n + 1 .. n + RateLimit
      <4> SUFFICES ASSUME NEW i \in 1 .. L + 1
                   PROVE  f[i] \in t - RateWindow .. t <=> i \in n + 1 .. n + RateLimit
        OBVIOUS
      <4>1. CASE i \in 1 .. L
        BY <4>1, <2>2, <3>1
      <4>2. CASE i = L + 1
        BY <4>2, <2>2, <3>1, <3>3, <1>1
      <4> QED BY <4>1, <4>2, <1>1
    <3>5. n + RateLimit <= L + 1
      BY <3>1, <1>1
    <3> QED BY <3>4, <3>5, <2>1, <2>2 DEF FullWindow
  <2> QED BY <2>1, <2>4, <2>5, <2>6, <1>1 DEF SocketLimitInv
<1> QED BY <1>3, <1>4

(* Neither the clock nor a message breaks the invariant.                   *)
LEMMA SocketLimitInvariance == SocketLimitSpec => []SocketLimitInv
<1>1. SocketLimitInit => SocketLimitInv
  <2> SUFFICES ASSUME SocketLimitInit PROVE SocketLimitInv
    OBVIOUS
  <2>1. /\ clock = 0 /\ dispatched = <<>> /\ message_timestamps = <<>> /\ dropped = {}
        /\ Len(<<>>) = 0 /\ <<>> \in Seq(Nat)
    BY EmptySeq DEF SocketLimitInit
  <2> QED BY <2>1, SocketLimitAssumption
          DEF SocketLimitInv, DequeInv, Spaced, SocketLimitAssumption
<1>2. SocketLimitInv /\ [SocketLimitNext]_socketLimitVars => SocketLimitInv'
  <2> SUFFICES ASSUME SocketLimitInv, [SocketLimitNext]_socketLimitVars PROVE SocketLimitInv'
    OBVIOUS
  <2>1. CASE Receive
    BY <2>1, ReceiveKeeps
  <2>2. CASE Elapse
    <3>1. /\ clock \in Nat /\ clock' = clock + 1 /\ RateWindow \in Nat
          /\ UNCHANGED <<message_timestamps, dispatched, dropped>>
          /\ Len(dispatched) \in Nat /\ Len(message_timestamps) \in Nat
          /\ \A i \in 1 .. Len(dispatched) : dispatched[i] \in Nat
      BY <2>2, SocketLimitAssumption, LenProperties, ElementOfSeq
      DEF Elapse, SocketLimitInv, DequeInv, SocketLimitAssumption
    <3>2. DequeInv'
      BY <3>1 DEF SocketLimitInv, DequeInv, Old
    <3>3. Spaced' /\ \A t \in dropped : FullWindow(t)'
      BY <3>1 DEF SocketLimitInv, Spaced, FullWindow
    <3> QED BY <3>1, <3>2, <3>3 DEF SocketLimitInv
  <2>3. CASE UNCHANGED socketLimitVars
    BY <2>3 DEF socketLimitVars, SocketLimitInv, DequeInv, Spaced, FullWindow, Old
  <2> QED BY <2>1, <2>2, <2>3 DEF SocketLimitNext
<1> QED BY <1>1, <1>2, PTL DEF SocketLimitSpec

(* WindowBound, about _is_rate_limited: for any limit and window, no       *)
(* stretch of one window sees more than RateLimit messages of a connection *)
(* let through, and a message is dropped only when that many were.         *)
THEOREM WindowBoundHolds == SocketLimitSpec => []WindowBound
<1>1. SocketLimitInv => WindowBound
  <2> SUFFICES ASSUME SocketLimitInv PROVE WindowBound
    OBVIOUS
  <2> USE SocketLimitAssumption DEF SocketLimitAssumption
  <2> DEFINE L == Len(dispatched)
  <2>1. /\ L \in Nat /\ clock \in Nat /\ DOMAIN dispatched = 1 .. L
        /\ \A i \in 1 .. L : dispatched[i] \in Nat
        /\ \A i, k \in 1 .. L : i <= k => dispatched[i] <= dispatched[k]
        /\ \A i \in 1 .. L : i > RateLimit => dispatched[i - RateLimit] + RateWindow < dispatched[i]
    BY LenProperties, ElementOfSeq DEF SocketLimitInv, DequeInv, Spaced
  <2> HIDE DEF L
  <2>2. ASSUME NEW t \in 0 .. clock
        PROVE  Cardinality(LetThrough(t, t + RateWindow)) <= RateLimit
    <3> DEFINE S == LetThrough(t, t + RateWindow)
    <3>1. S \in SUBSET Nat /\ \A i \in S : i \in 1 .. L /\ i <= L /\ dispatched[i] \in t .. t + RateWindow
      BY <2>1 DEF LetThrough
    <3> HIDE DEF S
    <3>2. CASE S = {}
      BY <3>2, FS_EmptySet DEF S
    <3>3. CASE S # {}
      <4>1. PICK g \in S : \A k \in S : k <= g
        BY <3>1, <3>3, <2>1, GreatestIndex
      <4>2. S \subseteq g - RateLimit + 1 .. g
        <5> SUFFICES ASSUME NEW i \in S, i <= g - RateLimit PROVE FALSE
          BY <4>1, <3>1, <2>1
        <5>1. g > RateLimit /\ g - RateLimit \in 1 .. L
          BY <3>1, <4>1, <2>1
        <5>2. dispatched[g - RateLimit] + RateWindow < dispatched[g]
          BY <5>1, <3>1, <4>1, <2>1
        <5>3. dispatched[i] <= dispatched[g - RateLimit]
          BY <5>1, <3>1, <2>1
        <5>4. dispatched[i] \in Nat /\ dispatched[g] \in Nat /\ dispatched[g - RateLimit] \in Nat
              /\ dispatched[i] >= t /\ dispatched[g] <= t + RateWindow
          BY <5>1, <3>1, <4>1, <2>1
        <5> QED BY <5>2, <5>3, <5>4
      <4>3. g \in Nat
        BY <3>1, <4>1
      <4>4. /\ IsFiniteSet(g - RateLimit + 1 .. g)
            /\ Cardinality(g - RateLimit + 1 .. g) = RateLimit
        BY <4>3, FS_Interval
      <4>5. Cardinality(S) <= RateLimit
        BY <4>2, <4>4, FS_Subset
      <4> QED BY <4>5 DEF S
    <3> QED BY <3>2, <3>3
  <2>3. ASSUME NEW t \in dropped
        PROVE  Cardinality(LetThrough(t - RateWindow, t)) = RateLimit
    <3>1. PICK n \in Nat : /\ n + RateLimit <= L
                           /\ \A i \in 1 .. L : dispatched[i] \in t - RateWindow .. t
                                                  <=> i \in n + 1 .. n + RateLimit
      BY <2>3 DEF SocketLimitInv, FullWindow, L
    <3>2. LetThrough(t - RateWindow, t) = n + 1 .. n + RateLimit
      BY <3>1, <2>1 DEF LetThrough
    <3>3. Cardinality(n + 1 .. n + RateLimit) = RateLimit
      BY FS_Interval
    <3> QED BY <3>2, <3>3
  <2> QED BY <2>2, <2>3 DEF WindowBound
<1> QED BY <1>1, SocketLimitInvariance, PTL

-----------------------------------------------------------------------------
(* The session in Redis.                                                   *)

RoomSessionSpec == RoomSessionInit /\ [][RoomSessionNext]_roomSessionVars

MoveRecord == [player_id : Conn, pawn_id : Nat]

Document ==
  [last_roll : [value : Value, player_id : Conn] \cup {Unset},
   phase     : {"selecting", "rolling", Unset},
   moves     : Seq(MoveRecord)]

(* The moves of one connection, in the order of its calls.                 *)
InOrder(moves) ==
  \A i, k \in DOMAIN moves :
    i < k /\ moves[i].player_id = moves[k].player_id => moves[i].pawn_id < moves[k].pawn_id

(* A document that may be stored: of no connection a move that it has not  *)
(* made yet.                                                               *)
Sound(d, made) ==
  /\ d \in Document
  /\ InOrder(d.moves)
  /\ \A i \in DOMAIN d.moves : d.moves[i].pawn_id <= made[d.moves[i].player_id]
  /\ d.phase = "selecting" => d.last_roll # Unset

(* What a call has read has no move of that call.                          *)
CallOK(c) ==
  \/ call[c] = NoCall
  \/ /\ \/ call[c] \in [op : {"roll"}, value : Value, state : Document]
        \/ call[c] \in [op : {"select_pawn"}, state : Document]
     /\ Sound(call[c].state, calls)
     /\ \A i \in DOMAIN call[c].state.moves :
          call[c].state.moves[i].player_id = c => call[c].state.moves[i].pawn_id < calls[c]

SessionDocInv ==
  /\ calls \in [Conn -> Nat] /\ DOMAIN call = Conn
  /\ Sound(document, calls)
  /\ \A c \in Conn : CallOK(c)

(* Later calls do not make a document unsound.                             *)
LEMMA SoundLater ==
  ASSUME NEW d, NEW made \in [Conn -> Nat], NEW later \in [Conn -> Nat],
         \A c \in Conn : made[c] <= later[c], Sound(d, made)
  PROVE  Sound(d, later)
<1> SUFFICES ASSUME NEW i \in DOMAIN d.moves
             PROVE  d.moves[i].pawn_id <= later[d.moves[i].player_id]
  BY DEF Sound
<1>1. d.moves \in Seq(MoveRecord)
  BY DEF Sound, Document
<1>2. d.moves[i] \in MoveRecord
  BY <1>1
<1>3. d.moves[i].pawn_id \in Nat /\ d.moves[i].player_id \in Conn
  BY <1>2 DEF MoveRecord
<1>4. d.moves[i].pawn_id <= made[d.moves[i].player_id]
  BY DEF Sound
<1> QED BY <1>3, <1>4

(* The document is sound before the first call.                            *)
LEMMA SessionDocInit == RoomSessionInit => SessionDocInv
<1> SUFFICES ASSUME RoomSessionInit PROVE SessionDocInv
  OBVIOUS
<1>1. Sound(document, calls)
  <2>1. document \in Document
    BY EmptySeq DEF RoomSessionInit, Document
  <2> QED
    BY <2>1, RoomSessionAssumption DEF RoomSessionInit, Sound, InOrder, RoomSessionAssumption
<1> QED
  BY <1>1 DEF RoomSessionInit, SessionDocInv, CallOK

(* Every step of a call, with what it read before its await, keeps the     *)
(* stored document sound.                                                  *)
LEMMA SessionDocStep == SessionDocInv /\ [RoomSessionNext]_roomSessionVars => SessionDocInv'
<1> SUFFICES ASSUME SessionDocInv, [RoomSessionNext]_roomSessionVars PROVE SessionDocInv'
  OBVIOUS
<1> USE RoomSessionAssumption DEF RoomSessionAssumption
<1>1. ASSUME NEW c \in Conn, GetState(c) PROVE SessionDocInv'
  <2> USE <1>1
  <2>1. /\ call[c] = NoCall /\ calls' = [calls EXCEPT ![c] = @ + 1] /\ document' = document
        /\ calls' \in [Conn -> Nat]
        /\ \A e \in Conn : calls[e] <= calls'[e] /\ (e # c => calls'[e] = calls[e])
        /\ calls'[c] = calls[c] + 1 /\ calls[c] \in Nat
    BY DEF GetState, SessionDocInv
  <2>2. PICK k : /\ call' = [call EXCEPT ![c] = k]
                 /\ \/ \E v \in Value : k = [op |-> "roll", value |-> v, state |-> document]
                    \/ k = [op |-> "select_pawn", state |-> document]
    BY DEF GetState
  <2>3. Sound(document', calls')
    BY <2>1, SoundLater DEF SessionDocInv
  <2>4. ASSUME NEW e \in Conn, e # c PROVE CallOK(e)'
    <3>1. call'[e] = call[e] /\ CallOK(e)
      BY <2>2, <2>4 DEF SessionDocInv
    <3>2. CASE call[e] = NoCall
      BY <3>1, <3>2 DEF CallOK
    <3>3. CASE call[e] # NoCall
      <4>1. Sound(call[e].state, calls) /\ calls \in [Conn -> Nat]
        BY <3>1, <3>3 DEF CallOK, SessionDocInv
      <4>2. Sound(call[e].state, calls')
        BY <4>1, <2>1, SoundLater
      <4> QED BY <3>1, <3>3, <4>2, <2>1, <2>4 DEF CallOK
    <3> QED BY <3>2, <3>3
  <2>5. CallOK(c)'
    <3>1. call'[c] = k /\ k.state = document /\ document \in Document
      BY <2>2 DEF SessionDocInv, Sound
    <3>2. \/ k \in [op : {"roll"}, value : Value, state : Document]
          \/ k \in [op : {"select_pawn"}, state : Document]
      BY <2>2, <3>1
    <3>3. \A i \in DOMAIN document.moves :
            document.moves[i].player_id = c => document.moves[i].pawn_id < calls'[c]
      <4> SUFFICES ASSUME NEW i \in DOMAIN document.moves, document.moves[i].player_id = c
                   PROVE  document.moves[i].pawn_id < calls'[c]
        OBVIOUS
      <4>1. document.moves[i] \in MoveRecord
        BY <3>1 DEF Document
      <4>2. document.moves[i].pawn_id <= calls[c] /\ document.moves[i].pawn_id \in Nat
        BY <4>1 DEF SessionDocInv, Sound, MoveRecord
      <4> QED BY <4>2, <2>1
    <3> QED BY <3>1, <3>2, <3>3, <2>1, <2>3 DEF CallOK
  <2> QED
    BY <2>1, <2>2, <2>3, <2>4, <2>5 DEF SessionDocInv
<1>2. ASSUME NEW c \in Conn, call[c].op # "none", call' = [call EXCEPT ![c] = NoCall],
             calls' = calls, Sound(document', calls)
      PROVE  SessionDocInv'
  BY <1>2 DEF SessionDocInv, CallOK
<1>3. ASSUME NEW c \in Conn, Roll(c) PROVE SessionDocInv'
  <2> DEFINE d == call[c].state
             r == [value |-> call[c].value, player_id |-> c]
  <2>1. /\ call[c] \in [op : {"roll"}, value : Value, state : Document] /\ Sound(d, calls)
        /\ document' = [d EXCEPT !.last_roll = r, !.phase = "selecting"]
        /\ d \in Document
    BY <1>3 DEF Roll, SessionDocInv, CallOK, NoCall
  <2>2. r \in [value : Value, player_id : Conn]
    BY <2>1
  <2>3. /\ document' \in Document /\ document'.last_roll = r /\ document'.moves = d.moves
    <3> HIDE DEF r
    <3> QED BY <2>1, <2>2 DEF Document
  <2>4. r # Unset
    BY <2>2
  <2>5. Sound(document', calls)
    <3> HIDE DEF r, d
    <3> QED BY <2>1, <2>3, <2>4 DEF Sound
  <2> QED
    BY <1>2, <1>3, <2>5 DEF Roll
<1>4. ASSUME NEW c \in Conn, SelectPawn(c) PROVE SessionDocInv'
  <2> DEFINE d == call[c].state
             s == d.moves
             x == ThisMove(c)
  <2>1. /\ call[c] \in [op : {"select_pawn"}, state : Document] /\ Sound(d, calls)
        /\ document' = [d EXCEPT !.moves = Append(@, x), !.phase = "rolling"]
        /\ \A i \in DOMAIN s : s[i].player_id = c => s[i].pawn_id < calls[c]
        /\ d \in Document
    BY <1>4 DEF SelectPawn, SessionDocInv, CallOK, NoCall
  <2>2. x \in MoveRecord /\ x.player_id = c /\ x.pawn_id = calls[c] /\ calls[c] \in Nat
    BY DEF ThisMove, MoveRecord, SessionDocInv
  <2>3. s \in Seq(MoveRecord)
    BY <2>1 DEF Document
  <2> DEFINE t == Append(s, x)
  <2> HIDE DEF x, s, d
  <2>4. /\ t \in Seq(MoveRecord) /\ DOMAIN t = 1 .. Len(s) + 1 /\ DOMAIN s = 1 .. Len(s)
        /\ Len(s) \in Nat
        /\ \A i \in DOMAIN s : t[i] = s[i] /\ t[Len(s) + 1] = x
        /\ t[Len(s) + 1] = x
    BY <2>2, <2>3, AppendProperties
  <2> HIDE DEF t
  <2>5. \A i \in DOMAIN s : s[i] \in MoveRecord
    BY <2>3
  <2>6. InOrder(t)
    <3> SUFFICES ASSUME NEW i \in DOMAIN t, NEW k \in DOMAIN t, i < k, t[i].player_id = t[k].player_id
                 PROVE  t[i].pawn_id < t[k].pawn_id
      BY DEF InOrder
    <3>1. i \in DOMAIN s
      BY <2>4
    <3>2. CASE k \in DOMAIN s
      BY <3>1, <3>2, <2>1, <2>4 DEF Sound, InOrder, s
    <3>3. CASE k = Len(s) + 1
      BY <3>1, <3>3, <2>1, <2>2, <2>4
    <3> QED BY <3>2, <3>3, <2>4
  <2>7. \A i \in DOMAIN t : t[i].pawn_id <= calls[t[i].player_id]
    BY <2>1, <2>2, <2>4 DEF Sound, s
  <2>8. /\ document' \in Document /\ document'.moves = t /\ document'.phase = "rolling"
    BY <2>1, <2>4 DEF Document, t, s
  <2>9. Sound(document', calls)
    BY <2>6, <2>7, <2>8 DEF Sound
  <2> QED
    BY <1>2, <1>4, <2>9 DEF SelectPawn
<1>5. CASE UNCHANGED roomSessionVars
  BY <1>5 DEF roomSessionVars, SessionDocInv, CallOK
<1> QED
  BY <1>1, <1>3, <1>4, <1>5 DEF RoomSessionNext

(* MovesInOrder, about get_state, roll and select_pawn: although           *)
(* overlapping calls overwrite each other's documents, the moves that are  *)
(* stored are stored once and, of one connection, in the order they were   *)
(* made; and a document that waits for a pawn has a roll.                  *)
THEOREM MovesStayInOrder == RoomSessionSpec => []MovesInOrder
<1>1. SessionDocInv => MovesInOrder
  BY DEF SessionDocInv, Sound, InOrder, MovesInOrder
<1> QED BY <1>1, SessionDocInit, SessionDocStep, PTL DEF RoomSessionSpec

-----------------------------------------------------------------------------
(* The AI player.                                                          *)

AISpec == AIInit /\ [][AINext]_aiVars

AITypeOK ==
  /\ board \in [Player -> [Pawn -> PathIndex]]
  /\ \/ turn.state \in {"none", "thinking", "error"}
     \/ turn.state = "done" /\ turn.move \in AIMoves

(* The factors of a legal move that count for a medium opponent.           *)
LEMMA MediumFactors ==
  ASSUME board \in [Player -> [Pawn -> PathIndex]], NEW m \in AIMoves
  PROVE  /\ CaptureScore(m) = IF m.is_capture THEN 2400 ELSE 0
         /\ ProgressScore(m) \in 0 .. 2400 /\ ReleaseScore(m) \in 0 .. 2400
         /\ ReleaseScore(m) = 0 \/ ProgressScore(m) = 0
<1>1. PICK n \in LegalMoves(AIIndex, board[AIIndex], roll_value) : m = LegalMove(n)
  BY DEF AIMoves
<1>2. n.pawn_index \in Pawn
  BY <1>1 DEF LegalMoves
<1>3. m.from_path_index = board[AIIndex][n.pawn_index]
  BY <1>1, Zenon DEF LegalMove
<1>4. m.from_path_index \in 0 .. 49
  BY <1>2, <1>3, AIAssumption DEF PathIndex, WIN_PATH_INDEX
<1>5. m.from_path_index # 49
  <2>1. board[AIIndex][n.pawn_index] # WinPathIndex
    BY <1>1 DEF LegalMoves, CanMove
  <2> QED BY <2>1, <1>3, AIAssumption DEF WIN_PATH_INDEX
<1>6. Unit = 2400 /\ Unit \div (WIN_PATH_INDEX - 1) = 50
  BY DEF Unit, WIN_PATH_INDEX
<1>7. ProgressScore(m) = IF m.is_release \/ m.from_path_index <= 0 THEN 0
                         ELSE 2400 - m.from_path_index * 50
  BY <1>6 DEF ProgressScore
<1>8. ProgressScore(m) \in 0 .. 2400
  BY <1>4, <1>5, <1>7
<1>9. ReleaseScore(m) = IF m.is_release THEN 2400 ELSE 0
  BY <1>6 DEF ReleaseScore
<1> QED BY <1>6, <1>7, <1>8, <1>9 DEF CaptureScore

(* No other factor outweighs a capture.                                    *)
LEMMA CaptureOutweighs ==
  ASSUME board \in [Player -> [Pawn -> PathIndex]], persona.strategy_weights = <<>>,
         NEW m \in AIMoves, m.is_capture, NEW n \in AIMoves, ~ n.is_capture
  PROVE  ~ (MediumScore(m) <= MediumScore(n))
<1>1. /\ MergeWeights("medium").capture = 20
      /\ MergeWeights("medium").progress = 15
      /\ MergeWeights("medium").release = 12
  <2>1. DefaultWeights("medium") = [capture |-> 20, progress |-> 15, release |-> 12]
    BY DEF DefaultWeights
  <2>2. DOMAIN persona.strategy_weights = {}
    OBVIOUS
  <2> QED BY <2>1, <2>2 DEF MergeWeights
<1>2. /\ MediumScore(m) = 20 * CaptureScore(m) + 15 * ProgressScore(m) + 12 * ReleaseScore(m)
      /\ MediumScore(n) = 20 * CaptureScore(n) + 15 * ProgressScore(n) + 12 * ReleaseScore(n)
  BY <1>1 DEF MediumScore
<1>3. /\ CaptureScore(m) = 2400 /\ ProgressScore(m) \in 0 .. 2400 /\ ReleaseScore(m) \in 0 .. 2400
      /\ CaptureScore(n) = 0 /\ ProgressScore(n) \in 0 .. 2400 /\ ReleaseScore(n) \in 0 .. 2400
      /\ ReleaseScore(n) = 0 \/ ProgressScore(n) = 0
  BY MediumFactors
<1>4. PICK p \in 0 .. 2400 : ProgressScore(m) = p
  BY <1>3
<1>5. PICK r \in 0 .. 2400 : ReleaseScore(m) = r
  BY <1>3
<1>6. PICK q \in 0 .. 2400 : ProgressScore(n) = q
  BY <1>3
<1>7. PICK t \in 0 .. 2400 : ReleaseScore(n) = t
  BY <1>3
<1>8. q = 0 \/ t = 0
  BY <1>3, <1>6, <1>7
<1>9. MediumScore(m) = 20 * 2400 + 15 * p + 12 * r
  BY <1>2, <1>3, <1>4, <1>5
<1>10. MediumScore(n) = 20 * 0 + 15 * q + 12 * t
  BY <1>2, <1>3, <1>6, <1>7
<1> QED BY <1>8, <1>9, <1>10

AIInv == AITypeOK /\ AnswerFits

(* No turn has been asked for at first.                                    *)
LEMMA AIInitial == AIInit => AIInv
<1> SUFFICES ASSUME AIInit PROVE AIInv
  OBVIOUS
<1>1. board \in [Player -> [Pawn -> PathIndex]]
  BY AIAssumption DEF AIInit
<1> QED BY <1>1 DEF AIInit, AIInv, AITypeOK, NoTurn, AnswerFits

(* The AI's turn, the session's changes and the commit keep the invariant. *)
LEMMA AIStepKeeps == AIInv /\ [AINext]_aiVars => AIInv'
<1> SUFFICES ASSUME AIInv, [AINext]_aiVars PROVE AIInv'
  OBVIOUS
<1> USE DEF AIInv
<1>1. CASE ExecuteAITurn
  BY <1>1 DEF ExecuteAITurn, AITypeOK, AnswerFits, NoTurn
<1>2. CASE SessionChanges
  BY <1>2 DEF SessionChanges, AITypeOK, AnswerFits
<1>3. CASE CommitMove
  <2>1. /\ UNCHANGED <<board, roll_value, on_turn, persona>>
        /\ \/ turn' = [state |-> "error"]
           \/ \E m \in SelectMove : turn' = [state |-> "done", move |-> m]
    BY <1>3 DEF CommitMove
  <2>2. CASE turn' = [state |-> "error"]
    BY <2>1, <2>2 DEF AITypeOK, AnswerFits
  <2>3. ASSUME NEW m \in SelectMove, turn' = [state |-> "done", move |-> m] PROVE AIInv'
    <3>1. m \in AIMoves
      BY DEF SelectMove
    <3>2. AIMoves' = AIMoves
      BY <2>1 DEF AIMoves, LegalMove
    <3>3. turn'.state = "done" /\ turn'.move = m
      BY <2>3
    <3>4. ASSUME persona.difficulty_level = "medium", persona.strategy_weights = <<>>,
                 NEW n \in AIMoves, n.is_capture
          PROVE  m.is_capture
      <4>1. MediumScore(n) <= MediumScore(m)
        BY <3>4 DEF SelectMove
      <4> QED BY <4>1, <3>1, <3>4, CaptureOutweighs DEF AITypeOK
    <3> QED BY <2>1, <3>1, <3>2, <3>3, <3>4 DEF AITypeOK, AnswerFits
  <2> QED BY <2>1, <2>2, <2>3
<1>4. CASE UNCHANGED aiVars
  <2>1. UNCHANGED <<board, turn, persona>> /\ AIMoves' = AIMoves
    BY <1>4 DEF aiVars, AIMoves, LegalMove
  <2> QED BY <2>1 DEF AITypeOK, AnswerFits
<1> QED BY <1>1, <1>2, <1>3, <1>4 DEF AINext

(* AnswerFits, about execute_ai_turn: the move answered after the sleep is *)
(* one the session allows at that moment, and a medium opponent with the   *)
(* default weights takes a pawn whenever it can, in any position and for   *)
(* all rolls.                                                              *)
THEOREM AIAnswerFits == AISpec => []AnswerFits
<1>1. AIInv => AnswerFits
  BY DEF AIInv
<1> QED BY <1>1, AIInitial, AIStepKeeps, PTL DEF AISpec

-----------------------------------------------------------------------------
(* The parts together.                                                     *)

(* A behaviour of the process is a behaviour of each part.                 *)
LEMMA PartsFollowed ==
  Spec => RoomsSpec /\ ConnectionsSpec /\ SocketLimitSpec /\ RoomSessionSpec /\ AISpec
<1>1. Init => RoomsInit /\ ConnectionsInit /\ SocketLimitInit /\ RoomSessionInit /\ AIInit
  BY DEF Init
<1>2. [Next]_vars => [RoomsNext]_roomsVars
  BY DEF Next, vars, RoomStep, ConnectionStep, LimitStep, SessionStep, AIStep
<1>3. [Next]_vars => [ConnectionsNext]_connectionsVars
  BY DEF Next, vars, RoomStep, ConnectionStep, LimitStep, SessionStep, AIStep
<1>4. [Next]_vars => [SocketLimitNext]_socketLimitVars
  BY DEF Next, vars, RoomStep, ConnectionStep, LimitStep, SessionStep, AIStep
<1>5. [Next]_vars => [RoomSessionNext]_roomSessionVars
  BY DEF Next, vars, RoomStep, ConnectionStep, LimitStep, SessionStep, AIStep
<1>6. [Next]_vars => [AINext]_aiVars
  BY DEF Next, vars, RoomStep, ConnectionStep, LimitStep, SessionStep, AIStep
<1> QED BY <1>1, <1>2, <1>3, <1>4, <1>5, <1>6, PTL
        DEF Spec, RoomsSpec, ConnectionsSpec, SocketLimitSpec, RoomSessionSpec, AISpec

(* What the server does for a room keeps the promises of all its parts:    *)
(* rosters, broadcasts, message limit, session and AI player.              *)
THEOREM OnlinePlaySafe ==
  Spec => [](RosterConsistent /\ SentOnce /\ WindowBound /\ MovesInOrder /\ AnswerFits)
BY PartsFollowed, RosterStaysConsistent, EveryMessageSentOnce, WindowBoundHolds,
   MovesStayInOrder, AIAnswerFits, PTL

=============================================================================
