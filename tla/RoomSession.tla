---------------------------- MODULE RoomSession ----------------------------
(***************************************************************************)
(* The game state of one room in Redis, as the connections of the room     *)
(* change it through server/app/services/game_session.py.  Each call reads *)
(* the whole document, awaits, and writes the whole document back, and     *)
(* nothing makes the two steps one: calls of other connections, on this    *)
(* task or another, come in between.                                       *)
(***************************************************************************)
EXTENDS Naturals, Sequences

CONSTANTS
  Conn,             \* the connections; each awaits its call before the next
  Value,            \* the roll values the properties tell apart
  MaxCalls,         \* bound: calls of a connection
  Unset             \* a key the document does not have

ASSUME RoomSessionAssumption ==
  /\ MaxCalls \in Nat
  /\ Unset # "selecting" /\ Unset \notin [value : Value, player_id : Conn]

VARIABLES
  document,         \* room:{id}:state
  call,             \* what each connection's call has read and will write
  calls             \* the number of calls each connection has made

roomSessionVars == <<document, call, calls>>

NoCall == [op |-> "none"]

RoomSessionInit ==
  /\ document = [last_roll |-> Unset, phase |-> Unset, moves |-> <<>>]
  /\ call = [c \in Conn |-> NoCall]
  /\ calls = [c \in Conn |-> 0]

(* get_state, the first half of roll and select_pawn.  Neither the turn    *)
(* nor the phase is looked at.                                             *)
GetState(c) ==
  /\ call[c] = NoCall
  /\ calls[c] < MaxCalls
  /\ calls' = [calls EXCEPT ![c] = @ + 1]
  /\ \/ \E v \in Value : call' = [call EXCEPT ![c] =
          [op |-> "roll", value |-> v, state |-> document]]
     \/ call' = [call EXCEPT ![c] = [op |-> "select_pawn", state |-> document]]
  /\ UNCHANGED document

(* The rest of roll. *)
Roll(c) ==
  /\ call[c].op = "roll"
  /\ document' = [call[c].state EXCEPT !.last_roll = [value |-> call[c].value, player_id |-> c],
                                       !.phase = "selecting"]
  /\ call' = [call EXCEPT ![c] = NoCall]
  /\ UNCHANGED calls

(* A move, named by the call that made it. *)
ThisMove(c) == [player_id |-> c, pawn_id |-> calls[c]]

(* Mutant of SelectPawn: the moves read are added to those stored now. *)
SelectPawnMerging(c) ==
  /\ call[c].op = "select_pawn"
  /\ document' = [document EXCEPT !.moves = Append(@ \o call[c].state.moves, ThisMove(c)),
                                  !.phase = "rolling"]
  /\ call' = [call EXCEPT ![c] = NoCall]
  /\ UNCHANGED calls

(* The rest of select_pawn. *)
SelectPawn(c) ==
  /\ call[c].op = "select_pawn"
  /\ document' = [call[c].state EXCEPT !.moves = Append(@, ThisMove(c)),
                                       !.phase = "rolling"]
  /\ call' = [call EXCEPT ![c] = NoCall]
  /\ UNCHANGED calls

RoomSessionNext == \E c \in Conn : GetState(c) \/ Roll(c) \/ SelectPawn(c)

(***************************************************************************)
(* What survives of the moves when calls overlap.  Moves can be lost, and  *)
(* a lost move can come back with the document of a slower call.  But      *)
(* those that are stored are stored once and, of one connection, in the    *)
(* order in which they were made; and a document that waits for a pawn has *)
(* the roll it waits for.                                                  *)
(***************************************************************************)
MovesInOrder ==
  /\ \A i, k \in DOMAIN document.moves :
       LET a == document.moves[i]  b == document.moves[k]
       IN i < k /\ a.player_id = b.player_id => a.pawn_id < b.pawn_id
  /\ document.phase = "selecting" => document.last_roll # Unset

=============================================================================
