---------------------------- MODULE StateMachine ----------------------------
(***************************************************************************)
(* The server-side game session, server/app/game/state_machine.py.  A turn *)
(* is a protocol of up to three calls: apply_roll offers the legal moves,  *)
(* apply_move executes one of them and computes the result, confirm_move   *)
(* applies that result.  A call in the wrong state, by the wrong player or *)
(* for a pawn without a move raises GameError before anything is assigned, *)
(* so it is a stuttering step here.                                        *)
(***************************************************************************)
EXTENDS Moves

CONSTANT None       \* Python's None

VARIABLES
  pawn_positions,   \* pawn_positions[player][pawn]: path index
  current_player,
  state,            \* GameState
  last_roll,
  winner,
  legal_moves,
  pending_result    \* _pending_result, what confirm_move will apply

vars == <<pawn_positions, current_player, state, last_roll, winner,
          legal_moves, pending_result>>

GameState  == {"WAITING", "ROLLING", "SELECTING", "MOVING", "GAME_OVER"}
MoveResult == [captured : BOOLEAN, winner : Player \cup {None}, extra_turn : BOOLEAN]

ASSUME NoneAssumption == None \notin Player \cup RollValues \cup MoveResult

TypeOK ==
  /\ pawn_positions \in [Player -> [Pawn -> PathIndex]]
  /\ current_player \in Player
  /\ state \in GameState
  /\ last_roll \in RollValues \cup {None}
  /\ winner \in Player \cup {None}
  /\ legal_moves \in SUBSET Move
  /\ pending_result \in MoveResult \cup {None}

Init ==
  /\ pawn_positions = [p \in Player |-> [j \in Pawn |-> 0]]
  /\ current_player = 0
  /\ state = "WAITING"
  /\ last_roll = None
  /\ winner = None
  /\ legal_moves = {}
  /\ pending_result = None

-----------------------------------------------------------------------------

(* start_game *)
StartGame ==
  /\ state = "WAITING"
  /\ state' = "ROLLING"
  /\ UNCHANGED <<pawn_positions, current_player, last_roll, winner,
                 legal_moves, pending_result>>

(* _advance_turn *)
AdvanceTurn ==
  /\ current_player' = NextPlayer(current_player)
  /\ state' = "ROLLING"

(* Mutant of ApplyRoll: without a legal move the player just rolls again.  *)
ApplyRollKeepsTurn(caller, roll) ==
  /\ state = "ROLLING"
  /\ caller \in {None, current_player}
  /\ last_roll' = roll
  /\ LET moves == LegalMoves(current_player, pawn_positions[current_player], roll)
     IN \/ moves = {} /\ UNCHANGED <<state, legal_moves>>
        \/ moves # {} /\ legal_moves' = moves /\ state' = "SELECTING"
  /\ UNCHANGED <<pawn_positions, current_player, winner, pending_result>>

(* apply_roll: caller is the optional player_index. *)
ApplyRoll(caller, roll) ==
  /\ state = "ROLLING"
  /\ caller \in {None, current_player}
  /\ last_roll' = roll
  /\ LET moves == LegalMoves(current_player, pawn_positions[current_player], roll)
     IN \/ /\ moves = {}
           /\ AdvanceTurn
           /\ UNCHANGED legal_moves
        \/ /\ moves # {}
           /\ legal_moves' = moves
           /\ state' = "SELECTING"
           /\ UNCHANGED current_player
  /\ UNCHANGED <<pawn_positions, winner, pending_result>>

(* The loop of _resolve_capture stops at the first victim it meets. *)
FirstOf(victims) ==
  CHOOSE v \in victims : \A w \in victims :
    v[1] < w[1] \/ (v[1] = w[1] /\ v[2] <= w[2])

(* Mutant of Victims: no square is safe. *)
VictimsAnywhere(attacker, positions, i) == EnemiesOn(attacker, positions, Paths[attacker][i])

(* The pawns that _resolve_capture may send home. *)
Victims(attacker, positions, i) ==
  IF Paths[attacker][i] \in SafeSquares THEN {}
  ELSE EnemiesOn(attacker, positions, Paths[attacker][i])

(* The positions that _resolve_capture leaves. *)
ResolveCapture(attacker, positions, i) ==
  LET victims == Victims(attacker, positions, i)
  IN IF victims = {} THEN positions
     ELSE [positions EXCEPT ![FirstOf(victims)[1]][FirstOf(victims)[2]] = 0]

(* _check_win *)
CheckWin(p, positions) == \A j \in Pawn : positions[p][j] = WinPathIndex

(* apply_move *)
ApplyMove(p, j) ==
  /\ state = "SELECTING"
  /\ p = current_player
  /\ \E move \in legal_moves :
       LET to       == move.to_path_index
           moved    == [pawn_positions EXCEPT ![p][j] = to]
           captured == Victims(p, moved, to) # {}
       IN /\ move.pawn_index = j
          /\ pawn_positions' = ResolveCapture(p, moved, to)
          /\ pending_result' =
               [captured   |-> captured,
                winner     |-> IF CheckWin(p, pawn_positions') THEN p ELSE None,
                extra_turn |-> last_roll \in ExtraTurnValues \/ captured]
  /\ legal_moves' = {}
  /\ state' = "MOVING"
  /\ UNCHANGED <<current_player, last_roll, winner>>

(* Mutant of ConfirmMove: the extra turn is looked at before the winner.   *)
ConfirmMoveExtraFirst ==
  /\ state = "MOVING"
  /\ pending_result' = None
  /\ \/ /\ pending_result.extra_turn
        /\ state' = "ROLLING"
        /\ UNCHANGED <<current_player, winner>>
     \/ /\ ~ pending_result.extra_turn /\ pending_result.winner # None
        /\ winner' = pending_result.winner
        /\ state' = "GAME_OVER"
        /\ UNCHANGED current_player
     \/ /\ ~ pending_result.extra_turn /\ pending_result.winner = None
        /\ AdvanceTurn
        /\ UNCHANGED winner
  /\ UNCHANGED <<pawn_positions, last_roll, legal_moves>>

(* confirm_move: the winner takes precedence over the extra turn. *)
ConfirmMove ==
  /\ state = "MOVING"
  /\ pending_result # None
  /\ pending_result' = None
  /\ \/ /\ pending_result.winner # None
        /\ winner' = pending_result.winner
        /\ state' = "GAME_OVER"
        /\ UNCHANGED current_player
     \/ /\ pending_result.winner = None /\ pending_result.extra_turn
        /\ state' = "ROLLING"
        /\ UNCHANGED <<current_player, winner>>
     \/ /\ pending_result.winner = None /\ ~ pending_result.extra_turn
        /\ AdvanceTurn
        /\ UNCHANGED winner
  /\ UNCHANGED <<pawn_positions, last_roll, legal_moves>>

(* A finished session accepts no call: every deadlock elsewhere is real. *)
Finished == state = "GAME_OVER" /\ UNCHANGED vars

Next ==
  \/ StartGame
  \/ \E caller \in Player \cup {None}, roll \in RollValues : ApplyRoll(caller, roll)
  \/ \E p \in Player, j \in Pawn : ApplyMove(p, j)
  \/ ConfirmMove
  \/ Finished

(* The session is driven from outside; the fairness says only that its     *)
(* callers keep making some call it accepts, never which one or which roll.*)
Spec == Init /\ [][Next]_vars /\ WF_vars(Next)

-----------------------------------------------------------------------------

(* At most one pawn, of whatever player, is in play on a square that is    *)
(* not safe.  compute_legal_moves checks friends and _resolve_capture      *)
(* removes one enemy, the first it finds: only together, and only if it    *)
(* held before, do they keep a square from holding two pawns.              *)
SoleOccupant ==
  \A p, q \in Player : \A j, k \in Pawn :
    LET i == pawn_positions[p][j]
        m == pawn_positions[q][k]
    IN /\ InPlay(i) /\ InPlay(m)
       /\ Paths[p][i] = Paths[q][m] /\ Paths[p][i] \notin SafeSquares
       => p = q /\ j = k

(* A player with every pawn in the centre is declared: by the pending      *)
(* result until confirm_move, by winner afterwards, and nobody is declared *)
(* without it.  apply_move detects the win one call before confirm_move    *)
(* ends the game, so the session must not lose it in between.              *)
WinDeclared ==
  \A p \in Player :
    CheckWin(p, pawn_positions) <=>
      \/ state = "MOVING" /\ pending_result.winner = p
      \/ state = "GAME_OVER" /\ winner = p

(* The game cannot run into a position with no way on: whoever is to roll, *)
(* some roll gives a legal move.  apply_roll passes the turn in silence    *)
(* when there is none, so four blocked players would pass for ever.        *)
NoStalemate ==
  state = "ROLLING" =>
    \E roll \in RollValues :
      LegalMoves(current_player, pawn_positions[current_player], roll) # {}

(* Extra turns end: however the cowries fall, every player is on turn      *)
(* again and again unless the game ends.  A throw that earns a turn must   *)
(* move a pawn, and a pawn has only so many squares ahead of it.           *)
TurnRotates ==
  \A p \in Player : []<>(current_player = p \/ state = "GAME_OVER")

(* The session implements Race: apply_move is the whole turn, and what     *)
(* confirm_move does is already decided by the pending result.  Nobody is  *)
(* ever barred.                                                            *)
DecidedTurn ==
  IF /\ state = "MOVING"
     /\ pending_result.winner = None /\ ~ pending_result.extra_turn
  THEN NextPlayer(current_player) ELSE current_player

DecidedWinner == IF state = "MOVING" THEN pending_result.winner ELSE winner

R == INSTANCE Race WITH pawns <- pawn_positions, turn <- DecidedTurn,
                        winner <- DecidedWinner, barred <- {},
                        Gate <- WinPathIndex, StartBarred <- {}

RaceSpec == R!Spec

=============================================================================
