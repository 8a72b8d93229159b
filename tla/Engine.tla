------------------------------- MODULE Engine -------------------------------
(***************************************************************************)
(* The second rules engine of the server, server/app/game/engine.py.  It   *)
(* has no phases: apply_move advances a pawn, captures, declares the win   *)
(* and hands over the turn in one call.  It differs from StateMachine in   *)
(* two rules: a player may enter the inner path only after a capture, and  *)
(* a roll that moves nothing still earns its extra turn.                   *)
(*                                                                         *)
(* apply_move validates nothing; its caller does ("Receives validated      *)
(* player actions").  The caller here asks get_possible_moves for the roll *)
(* and picks one of its pawns; when the list is empty it passes the only   *)
(* way the interface offers, by applying a pawn that will not move.        *)
(***************************************************************************)
EXTENDS Board

CONSTANTS
  None,             \* Python's None
  Threshold         \* INNER_PATH_THRESHOLD

ASSUME EngineAssumption == None \notin Player /\ Threshold \in PathIndex

(* What the tables of engine.py give the search for enemies, which takes   *)
(* pawns at home for pawns on the board: no path leads over another's home *)
(* square.                                                                 *)
ASSUME HomesAssumption ==
  \A p, q \in Player : p # q => \A i \in PathIndex : Paths[p][i] # Paths[q][0]

VARIABLES
  pawns,            \* pawns[color][pawn_id]: path_index
  current_player,
  kills_made,       \* kills_made[player]: has captured at least once
  game_over,
  winner

vars == <<pawns, current_player, kills_made, game_over, winner>>

TypeOK ==
  /\ pawns \in [Player -> [Pawn -> PathIndex]]
  /\ current_player \in Player
  /\ kills_made \in [Player -> BOOLEAN]
  /\ game_over \in BOOLEAN
  /\ winner \in Player \cup {None}

Init ==
  /\ pawns = [p \in Player |-> [j \in Pawn |-> 0]]
  /\ current_player = 0
  /\ kills_made = [p \in Player |-> FALSE]
  /\ game_over = FALSE
  /\ winner = None

-----------------------------------------------------------------------------

(* Mutant of Stays: the last square before the gate is behind it. *)
StaysEarly(k, roll, kill_made) ==
  \/ k = 0 /\ roll \notin ReleaseValues
  \/ k + roll >= Threshold /\ ~ kill_made
  \/ k + roll > WinPathIndex

(* Mutant of Stays: no gate. *)
StaysUngated(k, roll, kill_made) ==
  \/ k = 0 /\ roll \notin ReleaseValues
  \/ k + roll > WinPathIndex

(* compute_new_path_index: the three rules that keep a pawn where it is.   *)
Stays(k, roll, kill_made) ==
  \/ k = 0 /\ roll \notin ReleaseValues
  \/ k + roll > Threshold /\ ~ kill_made
  \/ k + roll > WinPathIndex

NewPathIndex(k, roll, kill_made) ==
  IF Stays(k, roll, kill_made) THEN k ELSE k + roll

Destination(j, roll) ==
  NewPathIndex(pawns[current_player][j], roll, kills_made[current_player])

(* Mutant of FriendlyPositions: every pawn on the board blocks. *)
OccupiedPositions == {Paths[v[1]][pawns[v[1]][v[2]]] : v \in Player \X Pawn}

(* get_possible_moves: friendly_positions holds every pawn of the player,  *)
(* those at home and in the centre included.                               *)
FriendlyPositions ==
  {Paths[current_player][pawns[current_player][j]] : j \in Pawn}

(* Mutant of PossibleMoves: friends may stack anywhere. *)
PossibleMovesStacking(roll) ==
  {j \in Pawn : /\ pawns[current_player][j] # WinPathIndex
                /\ Destination(j, roll) # pawns[current_player][j]}

(* The pawns get_possible_moves lists. *)
PossibleMoves(roll) ==
  {j \in Pawn :
     /\ pawns[current_player][j] # WinPathIndex
     /\ Destination(j, roll) # pawns[current_player][j]
     /\ LET square == Paths[current_player][Destination(j, roll)]
        IN square \in SafeSquares \/ square \notin FriendlyPositions}

(* Mutant of EnemiesAt: the colour of the pawn is not looked at. *)
PawnsAt(square) == {v \in Player \X Pawn : Paths[v[1]][pawns[v[1]][v[2]]] = square}

(* The enemies on a square, wherever their own path puts them: this search *)
(* does not exclude pawns at home or in the centre.                        *)
EnemiesAt(square) ==
  {v \in Player \X Pawn : v[1] # current_player /\ Paths[v[1]][pawns[v[1]][v[2]]] = square}

FirstOf(victims) ==
  CHOOSE v \in victims : \A w \in victims :
    v[1] < w[1] \/ (v[1] = w[1] /\ v[2] <= w[2])

(* Mutant of ApplyMove: a pawn that stays keeps the turn. *)
ApplyMoveUntilMoved(j, roll) ==
  LET p       == current_player
      to      == Destination(j, roll)
      struck  == IF Paths[p][to] \in SafeSquares THEN {} ELSE EnemiesAt(Paths[p][to])
      moved   == [pawns EXCEPT ![p][j] = to]
      victim  == FirstOf(struck)
  IN /\ pawns' = IF struck = {} THEN moved
                 ELSE [moved EXCEPT ![victim[1]][victim[2]] = 0]
     /\ kills_made' = [kills_made EXCEPT ![p] = @ \/ struck # {}]
     /\ LET won == \A k \in Pawn : pawns'[p][k] = WinPathIndex
        IN /\ game_over' = (game_over \/ won)
           /\ winner' = IF won THEN p ELSE winner
           /\ current_player' =
                IF roll \in ExtraTurnValues \/ struck # {} \/ won \/ to = pawns[p][j]
                  THEN p ELSE NextPlayer(p)

(* GameSession.apply_move *)
ApplyMove(j, roll) ==
  LET p       == current_player
      to      == Destination(j, roll)
      struck  == IF Paths[p][to] \in SafeSquares THEN {} ELSE EnemiesAt(Paths[p][to])
      moved   == [pawns EXCEPT ![p][j] = to]
      victim  == FirstOf(struck)
  IN /\ pawns' = IF struck = {} THEN moved
                 ELSE [moved EXCEPT ![victim[1]][victim[2]] = 0]
     /\ kills_made' = [kills_made EXCEPT ![p] = @ \/ struck # {}]
     /\ LET won == \A k \in Pawn : pawns'[p][k] = WinPathIndex
        IN /\ game_over' = (game_over \/ won)
           /\ winner' = IF won THEN p ELSE winner
           /\ current_player' =
                IF roll \in ExtraTurnValues \/ struck # {} \/ won THEN p ELSE NextPlayer(p)

(* The caller's part: a listed pawn, or a pawn that stays when none is.    *)
Immobile(roll) ==
  {j \in Pawn : Destination(j, roll) = pawns[current_player][j]}

Applied(roll) == IF PossibleMoves(roll) # {} THEN PossibleMoves(roll) ELSE Immobile(roll)

Play(roll) == \E j \in Applied(roll) : ApplyMove(j, roll)

Next == \E roll \in RollValues : Play(roll)

(* roll_cowries draws from SystemRandom: every value keeps coming up.      *)
Fairness == \A roll \in RollValues : WF_vars(Play(roll))

Spec == Init /\ [][Next]_vars /\ Fairness

-----------------------------------------------------------------------------

(* As for StateMachine, a square that is not safe holds at most one pawn   *)
(* in play, although friends are checked by get_possible_moves, enemies by *)
(* apply_move, and a pass goes through apply_move unchecked.               *)
SoleOccupant ==
  \A p, q \in Player : \A j, k \in Pawn :
    LET i == pawns[p][j]
        m == pawns[q][k]
    IN /\ InPlay(i) /\ InPlay(m)
       /\ Paths[p][i] = Paths[q][m] /\ Paths[p][i] \notin SafeSquares
       => p = q /\ j = k

(* An empty list never leaves the caller without a move to make: there is  *)
(* a pawn that stays, so the turn can be passed without stepping on a      *)
(* friend.  The interface has no other way to pass.                        *)
PassPossible ==
  \A roll \in RollValues : PossibleMoves(roll) = {} => Immobile(roll) # {}

(* The kill rule can pin a player for good: no roll moves any pawn.  That  *)
(* happens to nobody who has captured, and only with the front pawn on the *)
(* last square before the inner path.                                      *)
PinnedOnlyAtGate ==
  ~ game_over /\ (\A roll \in RollValues : PossibleMoves(roll) = {}) =>
    /\ ~ kills_made[current_player]
    /\ \E j \in Pawn : pawns[current_player][j] = Threshold

(* Every player is on turn again and again: a pinned player who keeps      *)
(* throwing extra turns holds the turn until the cowries fall otherwise.   *)
TurnRotates == \A p \in Player : []<>(current_player = p \/ game_over)

(* Nobody wins without a capture, whatever rolls come: the centre is       *)
(* beyond the gate, and kills_made is only ever set by sending somebody    *)
(* home.                                                                   *)
WinNeedsKill == winner # None => kills_made[winner] /\ game_over

(* The engine implements Race as well, one call being a whole turn.  A     *)
(* pass that keeps the turn is a stuttering step.                          *)
R == INSTANCE Race WITH turn <- current_player, Gate <- Threshold,
                        barred <- {p \in Player : ~ kills_made[p]}, StartBarred <- Player

RaceSpec == R!Spec

=============================================================================
