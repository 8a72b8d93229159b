------------------------ MODULE StateMachine_proofs ------------------------
(***************************************************************************)
(* Proofs about the server-side game session, for every board, number of   *)
(* players and number of pawns that meet BoardAssumption.                  *)
(***************************************************************************)
EXTENDS StateMachine, Board_proofs

Positions == [Player -> [Pawn -> PathIndex]]

-----------------------------------------------------------------------------
(* Facts about the operators.                                              *)

(* The moves on offer are for pawns of the player, and go forward.         *)
LEMMA LegalMovesType ==
  ASSUME NEW p \in Player, NEW own \in [Pawn -> PathIndex], NEW roll \in RollValues
  PROVE  LegalMoves(p, own, roll) \in SUBSET Move
  <1>1. roll \in Nat
    BY BoardAssumption
  <1>2. ASSUME NEW j \in Pawn, CanMove(p, own, j, roll)
        PROVE  own[j] + roll \in PathIndex
    BY <1>1, <1>2, BoardAssumption DEF CanMove, PathIndex
  <1>. QED
    BY <1>2 DEF LegalMoves, Move

(* Capturing keeps the positions well formed, whomever it sends home.      *)
LEMMA ResolveCaptureType ==
  ASSUME NEW p \in Player, NEW positions \in Positions, NEW i \in PathIndex
  PROVE  ResolveCapture(p, positions, i) \in Positions
  <1>1. 0 \in PathIndex
    BY BoardAssumption DEF PathIndex
  <1>. QED
    BY <1>1 DEF ResolveCapture, Positions

(* The session's fields keep their types through every sequence of calls,  *)
(* for every board and every number of players and pawns: no call leaves a *)
(* pawn off its path, an unknown player on turn or a malformed result.     *)
THEOREM TypeCorrect == Spec => []TypeOK
  <1>1. Init => TypeOK
    BY BoardAssumption, PlayerNat DEF Init, TypeOK, GameState, PathIndex
  <1>2. TypeOK /\ [Next]_vars => TypeOK'
    <2> SUFFICES ASSUME TypeOK, [Next]_vars PROVE TypeOK'
      OBVIOUS
    <2> USE DEF TypeOK, GameState
    <2>1. CASE StartGame
      BY <2>1 DEF StartGame
    <2>2. ASSUME NEW caller \in Player \cup {None}, NEW roll \in RollValues,
                 ApplyRoll(caller, roll)
          PROVE  TypeOK'
      <3>1. pawn_positions[current_player] \in [Pawn -> PathIndex]
        OBVIOUS
      <3>. QED
        BY <2>2, <3>1, LegalMovesType, NextPlayerType DEF ApplyRoll, AdvanceTurn
    <2>3. ASSUME NEW p \in Player, NEW j \in Pawn, ApplyMove(p, j)
          PROVE  TypeOK'
      <3>1. PICK move \in legal_moves :
              LET to == move.to_path_index
                  moved == [pawn_positions EXCEPT ![p][j] = to]
              IN /\ pawn_positions' = ResolveCapture(p, moved, to)
                 /\ pending_result' =
                      [captured   |-> Victims(p, moved, to) # {},
                       winner     |-> IF CheckWin(p, pawn_positions') THEN p ELSE None,
                       extra_turn |-> last_roll \in ExtraTurnValues \/ Victims(p, moved, to) # {}]
        BY <2>3 DEF ApplyMove
      <3>2. move.to_path_index \in PathIndex
        BY DEF Move
      <3>3. [pawn_positions EXCEPT ![p][j] = move.to_path_index] \in Positions
        BY <3>2 DEF Positions
      <3>4. pawn_positions' \in Positions
        BY <3>1, <3>2, <3>3, ResolveCaptureType
      <3>5. pending_result' \in MoveResult
        BY <3>1 DEF MoveResult
      <3>. QED
        BY <2>3, <3>4, <3>5 DEF ApplyMove, Positions
    <2>4. CASE ConfirmMove
      BY <2>4, NextPlayerType DEF ConfirmMove, AdvanceTurn, MoveResult
    <2>5. CASE Finished
      BY <2>5 DEF Finished, vars
    <2>6. CASE UNCHANGED vars
      BY <2>6 DEF vars
    <2>. QED
      BY <2>1, <2>2, <2>3, <2>4, <2>5, <2>6 DEF Next
  <1>. QED
    BY <1>1, <1>2, PTL DEF Spec

-----------------------------------------------------------------------------
(* The inductive invariant.  SoleOccupant and WinDeclared are not          *)
(* inductive by themselves: apply_move trusts the moves computed by an     *)
(* earlier call and confirm_move the result of an earlier call, so what    *)
(* those variables hold in each state has to be known.                     *)

PhaseInv ==
  /\ state = "SELECTING" =>
       /\ last_roll \in RollValues
       /\ legal_moves = LegalMoves(current_player, pawn_positions[current_player], last_roll)
       /\ legal_moves # {}
  /\ pending_result \in MoveResult <=> state = "MOVING"
  /\ state = "MOVING" => pending_result.winner \in {None, current_player}
  /\ state # "GAME_OVER" => winner = None
  /\ state = "GAME_OVER" => winner \in Player

IInv == TypeOK /\ PhaseInv /\ SoleOccupant /\ WinDeclared

(* FirstOf picks the only victim when there is one.                        *)
LEMMA FirstOfSingle ==
  ASSUME NEW victims \in SUBSET (Player \X Pawn), NEW v \in victims,
         \A w \in victims : w = v
  PROVE  FirstOf(victims) = v
  <1>1. v[1] \in Nat /\ v[2] \in Nat
    BY PlayerNat
  <1>2. \A w \in victims : v[1] < w[1] \/ (v[1] = w[1] /\ v[2] <= w[2])
    BY <1>1
  <1>. QED
    BY <1>2 DEF FirstOf

(* When no two enemies share a square, _resolve_capture sends home exactly *)
(* the enemies on the destination: its first match is the only one.        *)
LEMMA ResolveCaptureExact ==
  ASSUME NEW p \in Player, NEW positions \in Positions, NEW i \in PathIndex,
         \A v, w \in Victims(p, positions, i) : v = w
  PROVE  ResolveCapture(p, positions, i) =
           [q \in Player |-> [k \in Pawn |->
              IF <<q, k>> \in Victims(p, positions, i) THEN 0 ELSE positions[q][k]]]
  <1> DEFINE V == Victims(p, positions, i)
  <1>0. V \in SUBSET (Player \X Pawn)
    BY DEF Victims, EnemiesOn
  <1>1. CASE V = {}
    BY <1>1 DEF ResolveCapture, Positions
  <1>2. ASSUME NEW v \in V PROVE FirstOf(V) = v /\ V = {v} /\ v = <<v[1], v[2]>>
    BY <1>0, FirstOfSingle
  <1>3. ASSUME NEW v \in V
        PROVE  [positions EXCEPT ![v[1]][v[2]] = 0] =
                 [q \in Player |-> [k \in Pawn |->
                    IF <<q, k>> \in V THEN 0 ELSE positions[q][k]]]
    <2>1. v[1] \in Player /\ v[2] \in Pawn
      BY <1>0
    <2>2. \A q, k : <<q, k>> \in V <=> q = v[1] /\ k = v[2]
      BY <1>2
    <2>. QED
      BY <2>1, <2>2 DEF Positions
  <1>. QED
    BY <1>1, <1>2, <1>3 DEF ResolveCapture

(* The whole effect of apply_move: the pawn chosen advances by the roll,   *)
(* the only enemy on its new square goes home, nobody else moves.          *)
Effect(p, j, roll) ==
  LET to     == pawn_positions[p][j] + roll
      struck == Victims(p, pawn_positions, to)
  IN /\ roll \in RollValues
     /\ to \in PathIndex /\ to # 0
     /\ CanMove(p, pawn_positions[p], j, roll)
     /\ \A v, w \in struck : v = w
     /\ pawn_positions' =
          [q \in Player |-> [k \in Pawn |->
             IF q = p /\ k = j THEN to
             ELSE IF <<q, k>> \in struck THEN 0 ELSE pawn_positions[q][k]]]
     /\ pending_result' =
          [captured   |-> struck # {},
           winner     |-> IF CheckWin(p, pawn_positions') THEN p ELSE None,
           extra_turn |-> roll \in ExtraTurnValues \/ struck # {}]

LEMMA ApplyMoveEffect ==
  ASSUME IInv, NEW p \in Player, NEW j \in Pawn, ApplyMove(p, j)
  PROVE  Effect(p, j, last_roll)
  <1> DEFINE own == pawn_positions[p]
             to  == own[j] + last_roll
             moved == [pawn_positions EXCEPT ![p][j] = to]
             struck == Victims(p, pawn_positions, to)
  <1>1. /\ p = current_player /\ state = "SELECTING" /\ last_roll \in RollValues
        /\ legal_moves = LegalMoves(p, own, last_roll)
        /\ last_roll \in Nat \ {0}
    BY BoardAssumption DEF IInv, PhaseInv, ApplyMove
  <1>2. own \in [Pawn -> PathIndex] /\ pawn_positions \in Positions
    BY DEF IInv, TypeOK, Positions
  <1>3. PICK move \in legal_moves :
          LET too == move.to_path_index
              movedd == [pawn_positions EXCEPT ![p][j] = too]
          IN /\ move.pawn_index = j
             /\ pawn_positions' = ResolveCapture(p, movedd, too)
             /\ pending_result' =
                  [captured   |-> Victims(p, movedd, too) # {},
                   winner     |-> IF CheckWin(p, pawn_positions') THEN p ELSE None,
                   extra_turn |-> last_roll \in ExtraTurnValues
                                  \/ Victims(p, movedd, too) # {}]
    BY DEF ApplyMove
  <1>4. PICK k \in Pawn : /\ CanMove(p, own, k, last_roll)
                          /\ move = [pawn_index |-> k, to_path_index |-> own[k] + last_roll]
    BY <1>1 DEF LegalMoves
  <1>5. k = j /\ move.to_path_index = to /\ CanMove(p, own, j, last_roll)
    BY <1>3, <1>4
  <1>6. to \in PathIndex /\ to # 0
    BY <1>1, <1>2, <1>5, BoardAssumption DEF CanMove, PathIndex
  <1>7. Victims(p, moved, to) = struck
    <2>1. \A q \in Player, l \in Pawn : q # p => moved[q][l] = pawn_positions[q][l]
      BY <1>2 DEF Positions
    <2>2. \A v \in Player \X Pawn : v[1] # p => moved[v[1]][v[2]] = pawn_positions[v[1]][v[2]]
      BY <2>1
    <2>3. EnemiesOn(p, moved, Paths[p][to]) = EnemiesOn(p, pawn_positions, Paths[p][to])
      BY <2>2 DEF EnemiesOn
    <2>. QED
      BY <2>3 DEF Victims
  <1>8. \A v, w \in struck : v = w
    <2> SUFFICES ASSUME NEW v \in struck, NEW w \in struck PROVE v = w
      OBVIOUS
    <2>1. /\ v \in Player \X Pawn /\ w \in Player \X Pawn
          /\ InPlay(pawn_positions[v[1]][v[2]]) /\ InPlay(pawn_positions[w[1]][w[2]])
          /\ Paths[v[1]][pawn_positions[v[1]][v[2]]] = Paths[p][to]
          /\ Paths[w[1]][pawn_positions[w[1]][w[2]]] = Paths[p][to]
          /\ Paths[p][to] \notin SafeSquares
      BY DEF Victims, EnemiesOn
    <2>2. v[1] = w[1] /\ v[2] = w[2]
      BY <2>1 DEF IInv, SoleOccupant
    <2>. QED
      BY <2>1, <2>2
  <1>9. moved \in Positions
    BY <1>2, <1>6 DEF Positions
  <1>10. ResolveCapture(p, moved, to) =
           [q \in Player |-> [l \in Pawn |->
              IF <<q, l>> \in struck THEN 0 ELSE moved[q][l]]]
    <2>1. \A v, w \in Victims(p, moved, to) : v = w
      BY <1>7, <1>8
    <2> HIDE DEF moved, to, struck
    <2>2. ResolveCapture(p, moved, to) =
            [q \in Player |-> [l \in Pawn |->
               IF <<q, l>> \in Victims(p, moved, to) THEN 0 ELSE moved[q][l]]]
      BY <2>1, <1>6, <1>9, ResolveCaptureExact
    <2>. QED
      BY <2>2, <1>7
  <1>11. \A l : <<p, l>> \notin struck
    BY DEF Victims, EnemiesOn
  <1>12. pawn_positions' =
           [q \in Player |-> [l \in Pawn |->
              IF q = p /\ l = j THEN to
              ELSE IF <<q, l>> \in struck THEN 0 ELSE pawn_positions[q][l]]]
    <2>1. \A q \in Player, l \in Pawn :
            moved[q][l] = IF q = p /\ l = j THEN to ELSE pawn_positions[q][l]
      BY <1>2 DEF Positions
    <2>2. pawn_positions' = ResolveCapture(p, moved, to)
      BY <1>3, <1>5
    <2> HIDE DEF moved, to, struck
    <2>3. \A q \in Player, l \in Pawn :
            (IF <<q, l>> \in struck THEN 0 ELSE moved[q][l]) =
            (IF q = p /\ l = j THEN to
             ELSE IF <<q, l>> \in struck THEN 0 ELSE pawn_positions[q][l])
      BY <1>11, <2>1
    <2>. QED
      BY <1>10, <2>2, <2>3
  <1>. QED
    BY <1>1, <1>3, <1>5, <1>6, <1>7, <1>8, <1>12 DEF Effect

-----------------------------------------------------------------------------
(* The inductive step, by action.                                          *)

(* A step of apply_move keeps squares that are not safe single: the friend *)
(* was excluded when the moves were computed, the enemy is sent home.      *)
LEMMA ApplyMoveSole ==
  ASSUME IInv, NEW p \in Player, NEW j \in Pawn, ApplyMove(p, j)
  PROVE  SoleOccupant'
  <1> DEFINE to == pawn_positions[p][j] + last_roll
             struck == Victims(p, pawn_positions, to)
  <1>1. Effect(p, j, last_roll)
    BY ApplyMoveEffect
  <1>2. pawn_positions \in Positions
    BY DEF IInv, TypeOK, Positions
  <1>3. /\ pawn_positions'[p][j] = to
        /\ \A q \in Player, k \in Pawn : ~ (q = p /\ k = j) =>
              pawn_positions'[q][k] =
                IF <<q, k>> \in struck THEN 0 ELSE pawn_positions[q][k]
    BY <1>1 DEF Effect
  (* Nobody who is still in play shares the square the pawn moved to. *)
  <1>4. ASSUME NEW q \in Player, NEW k \in Pawn, ~ (q = p /\ k = j),
               InPlay(pawn_positions'[q][k]), InPlay(to),
               Paths[q][pawn_positions'[q][k]] = Paths[p][to],
               Paths[p][to] \notin SafeSquares
        PROVE  FALSE
    <2>1. <<q, k>> \notin struck /\ pawn_positions'[q][k] = pawn_positions[q][k]
      BY <1>3, <1>4 DEF InPlay
    <2>2. CASE q = p
      BY <2>1, <2>2, <1>1, <1>4 DEF Effect, CanMove, FriendOn
    <2>3. CASE q # p
      BY <2>1, <2>3, <1>4 DEF Victims, EnemiesOn
    <2>. QED
      BY <2>2, <2>3
  (* A pawn in play that did not move stands where it stood. *)
  <1>5. \A q \in Player, k \in Pawn :
          ~ (q = p /\ k = j) /\ InPlay(pawn_positions'[q][k])
            => pawn_positions'[q][k] = pawn_positions[q][k]
    BY <1>3 DEF InPlay
  <1> SUFFICES ASSUME NEW q \in Player, NEW r \in Player, NEW k \in Pawn, NEW l \in Pawn,
                      InPlay(pawn_positions'[q][k]), InPlay(pawn_positions'[r][l]),
                      Paths[q][pawn_positions'[q][k]] = Paths[r][pawn_positions'[r][l]],
                      Paths[q][pawn_positions'[q][k]] \notin SafeSquares
               PROVE  q = r /\ k = l
    BY DEF SoleOccupant
  <1>6. CASE q = p /\ k = j
    BY <1>3, <1>4, <1>6
  <1>7. CASE r = p /\ l = j
    BY <1>3, <1>4, <1>7
  <1>8. CASE ~ (q = p /\ k = j) /\ ~ (r = p /\ l = j)
    BY <1>5, <1>8 DEF IInv, SoleOccupant
  <1>. QED
    BY <1>6, <1>7, <1>8

(* A step of apply_move declares its player exactly if that player now has *)
(* every pawn in the centre; capturing takes nobody's pawns out of it.     *)
LEMMA ApplyMoveWin ==
  ASSUME IInv, NEW p \in Player, NEW j \in Pawn, ApplyMove(p, j)
  PROVE  WinDeclared'
  <1> DEFINE struck == Victims(p, pawn_positions, pawn_positions[p][j] + last_roll)
  <1>1. Effect(p, j, last_roll) /\ state = "SELECTING" /\ state' = "MOVING"
    BY ApplyMoveEffect DEF ApplyMove
  <1>2. pending_result'.winner = IF CheckWin(p, pawn_positions') THEN p ELSE None
    BY <1>1 DEF Effect
  <1>3. CheckWin(p, pawn_positions') <=> pending_result'.winner = p
    BY <1>2, NoneAssumption
  <1>4. ASSUME NEW q \in Player, q # p
        PROVE  ~ CheckWin(q, pawn_positions') /\ pending_result'.winner # q
    <2>1. PICK k \in Pawn : pawn_positions[q][k] # WinPathIndex
      BY <1>1 DEF IInv, WinDeclared, CheckWin
    <2>2. pawn_positions'[q][k] \in {0, pawn_positions[q][k]}
      BY <1>1, <1>4 DEF Effect
    <2>3. pawn_positions'[q][k] # WinPathIndex
      BY <2>1, <2>2, BoardAssumption
    <2>. QED
      BY <1>2, <1>4, <2>3, NoneAssumption DEF CheckWin
  <1>. QED
    BY <1>1, <1>3, <1>4 DEF WinDeclared

(* A step of apply_move leaves a result for confirm_move and no move on    *)
(* offer.                                                                  *)
LEMMA ApplyMovePhase ==
  ASSUME IInv, NEW p \in Player, NEW j \in Pawn, ApplyMove(p, j)
  PROVE  PhaseInv'
  <1>1. Effect(p, j, last_roll)
    BY ApplyMoveEffect
  <1>2. pending_result' \in MoveResult /\ pending_result'.winner \in {None, p}
    BY <1>1 DEF Effect, MoveResult
  <1>. QED
    BY <1>2 DEF ApplyMove, IInv, PhaseInv

(* The inductive invariant of the session: what each phase says of the     *)
(* roll, the moves on offer and the pending result, with the two facts     *)
(* about the board that the rules need and preserve.                       *)
THEOREM Invariance == Spec => []IInv
  <1>1. Init => IInv
    <2> SUFFICES ASSUME Init PROVE IInv
      OBVIOUS
    <2>1. TypeOK
      BY BoardAssumption, PlayerNat DEF Init, TypeOK, GameState, PathIndex
    <2>2. PhaseInv
      BY NoneAssumption DEF Init, PhaseInv
    <2>3. SoleOccupant
      BY DEF Init, SoleOccupant, InPlay
    <2>4. WinDeclared
      BY PlayerNat, BoardAssumption DEF Init, WinDeclared, CheckWin
    <2>. QED
      BY <2>1, <2>2, <2>3, <2>4 DEF IInv
  <1>2. TypeOK' /\ IInv /\ [Next]_vars => IInv'
    <2> SUFFICES ASSUME TypeOK', IInv, [Next]_vars
                 PROVE  PhaseInv' /\ SoleOccupant' /\ WinDeclared'
      BY DEF IInv
    <2>1. CASE StartGame
      BY <2>1 DEF StartGame, IInv, PhaseInv, SoleOccupant, WinDeclared, CheckWin
    <2>2. ASSUME NEW caller \in Player \cup {None}, NEW roll \in RollValues,
                 ApplyRoll(caller, roll)
          PROVE  PhaseInv' /\ SoleOccupant' /\ WinDeclared'
      <3>1. PhaseInv'
        BY <2>2 DEF ApplyRoll, AdvanceTurn, IInv, PhaseInv
      <3>2. SoleOccupant'
        BY <2>2 DEF ApplyRoll, IInv, SoleOccupant
      <3>3. WinDeclared'
        BY <2>2 DEF ApplyRoll, AdvanceTurn, IInv, WinDeclared, CheckWin
      <3>. QED
        BY <3>1, <3>2, <3>3
    <2>3. ASSUME NEW p \in Player, NEW j \in Pawn, ApplyMove(p, j)
          PROVE  PhaseInv' /\ SoleOccupant' /\ WinDeclared'
      BY <2>3, ApplyMovePhase, ApplyMoveSole, ApplyMoveWin
    <2>4. CASE ConfirmMove
      <3>1. PhaseInv'
        BY <2>4, NoneAssumption DEF ConfirmMove, AdvanceTurn, IInv, TypeOK, PhaseInv
      <3>2. SoleOccupant'
        BY <2>4 DEF ConfirmMove, IInv, SoleOccupant
      <3>3. WinDeclared'
        BY <2>4, NoneAssumption
           DEF ConfirmMove, AdvanceTurn, IInv, PhaseInv, WinDeclared, CheckWin
      <3>. QED
        BY <3>1, <3>2, <3>3
    <2>5. CASE UNCHANGED vars
      BY <2>5 DEF vars, IInv, PhaseInv, SoleOccupant, WinDeclared, CheckWin
    <2>. QED
      BY <2>1, <2>2, <2>3, <2>4, <2>5 DEF Next, Finished
  <1>. QED
    BY <1>1, <1>2, TypeCorrect, PTL DEF Spec

(* A square that is not safe never holds two pawns in play, although       *)
(* _resolve_capture removes only the first enemy that it finds.            *)
THEOREM SquaresHoldOnePawn == Spec => []SoleOccupant
  BY Invariance, PTL DEF IInv

(* A player has every pawn in the centre exactly if the session says so, by *)
(* the pending result and after confirm_move by winner: confirm_move cannot *)
(* lose a win that apply_move detected.                                    *)
THEOREM WinsAreDeclared == Spec => []WinDeclared
  BY Invariance, PTL DEF IInv

-----------------------------------------------------------------------------
(* No stalemate: the pawn in front can always take a roll of one.          *)

(* While a pawn of p is not in the centre, the one in front can advance by *)
(* one: no friend is ahead of it, and a roll of one releases from home.    *)
LEMMA FrontPawnMoves ==
  ASSUME TypeOK, NEW p \in Player, ~ CheckWin(p, pawn_positions)
  PROVE  LegalMoves(p, pawn_positions[p], 1) # {}
  <1> DEFINE own == pawn_positions[p]
             S == {own[j] : j \in {k \in Pawn : own[k] # WinPathIndex}}
  <1>1. own \in [Pawn -> PathIndex]
    BY DEF TypeOK
  <1>2. S \in SUBSET Nat /\ S # {} /\ \A i \in S : i <= WinPathIndex
    BY <1>1, BoardAssumption DEF CheckWin, PathIndex
  <1>3. PICK i \in S : \A k \in S : k <= i
    BY <1>2, GreatestIndex, BoardAssumption
  <1>4. PICK j \in Pawn : own[j] = i /\ own[j] # WinPathIndex
    OBVIOUS
  <1>5. own[j] + 1 \in PathIndex
    BY <1>1, <1>4, BoardAssumption DEF PathIndex
  <1>6. ~ FriendOn(p, own, j, own[j] + 1)
    <2> SUFFICES ASSUME NEW k \in Pawn \ {j}, InPlay(own[k]),
                        Paths[p][own[k]] = Paths[p][own[j] + 1]
                 PROVE  FALSE
      BY DEF FriendOn
    <2>1. own[k] = own[j] + 1
      BY <1>1, <1>5, BoardAssumption
    <2>2. own[k] <= i
      BY <1>3 DEF InPlay
    <2>. QED
      BY <2>1, <2>2, <1>1, <1>4 DEF PathIndex
  <1>7. CanMove(p, own, j, 1)
    BY <1>4, <1>5, <1>6, BoardAssumption DEF CanMove, PathIndex
  <1>. QED
    BY <1>7 DEF LegalMoves

(* apply_roll, which passes the turn when there is no move, never finds a  *)
(* player to whom no roll at all would give one.                           *)
THEOREM NeverStalemate == Spec => []NoStalemate
  <1>1. IInv => NoStalemate
    <2> SUFFICES ASSUME IInv, state = "ROLLING"
                 PROVE  LegalMoves(current_player, pawn_positions[current_player], 1) # {}
      BY BoardAssumption DEF NoStalemate
    <2>1. ~ CheckWin(current_player, pawn_positions) /\ TypeOK /\ current_player \in Player
      BY DEF IInv, WinDeclared, TypeOK
    <2>. QED
      BY <2>1, FrontPawnMoves
  <1>. QED
    BY <1>1, Invariance, PTL

-----------------------------------------------------------------------------
(* The session implements Race.                                            *)

(* Race's notion of a free pawn is the move generator's.                   *)
LEMMA FreeIsCanMove ==
  ASSUME TypeOK, NEW p \in Player, NEW j \in Pawn, NEW roll \in RollValues
  PROVE  R!Free(p, j, roll) <=> CanMove(p, pawn_positions[p], j, roll)
  <1>1. pawn_positions[p][j] \in Nat /\ roll \in Nat \ {0} /\ WinPathIndex \in Nat
    BY BoardAssumption DEF TypeOK, PathIndex
  <1>2. pawn_positions[p][j] + roll <= WinPathIndex => pawn_positions[p][j] # WinPathIndex
    BY <1>1
  <1>3. R!Held(p, j, pawn_positions[p][j] + roll)
          <=> FriendOn(p, pawn_positions[p], j, pawn_positions[p][j] + roll)
    BY DEF R!Held, FriendOn, InPlay, Pawn, R!Pawn
  <1>. QED
    BY <1>2, <1>3 DEF R!Free, CanMove

(* Race strikes the pawns that _resolve_capture may send home.             *)
LEMMA StruckIsVictims ==
  ASSUME NEW p \in Player, NEW i \in PathIndex
  PROVE  R!Struck(p, i) = Victims(p, pawn_positions, i)
  BY DEF R!Struck, R!EnemiesOn, R!InPlay, R!Player, R!Pawn,
         Victims, EnemiesOn, InPlay, Player, Pawn

(* apply_roll is a pass of Race when it finds no move and a stuttering step *)
(* when it offers some.                                                    *)
LEMMA RollRefines ==
  ASSUME IInv, NEW caller \in Player \cup {None}, NEW roll \in RollValues,
         ApplyRoll(caller, roll)
  PROVE  R!Next \/ UNCHANGED R!vars
  <1> DEFINE moves == LegalMoves(current_player, pawn_positions[current_player], roll)
  <1>1. /\ state = "ROLLING" /\ winner = None /\ TypeOK /\ current_player \in Player
        /\ state' \in {"ROLLING", "SELECTING"}
        /\ UNCHANGED <<pawn_positions, winner>>
    BY DEF ApplyRoll, AdvanceTurn, IInv, PhaseInv, TypeOK
  <1>2. CASE moves = {}
    <2>1. \A j \in Pawn : ~ R!Free(current_player, j, roll)
      BY <1>1, <1>2, FreeIsCanMove DEF LegalMoves
    <2>2. current_player' = NextPlayer(current_player) /\ state' = "ROLLING"
      BY <1>2 DEF ApplyRoll, AdvanceTurn
    <2>3. R!Pass(current_player, roll)
      BY <1>1, <2>1, <2>2 DEF R!Pass, DecidedTurn, DecidedWinner,
                              R!NextPlayer, NextPlayer, R!Pawn, Pawn
    <2>. QED
      BY <1>1, <2>3 DEF R!Next, R!Player, Player
  <1>3. CASE moves # {}
    BY <1>1, <1>3 DEF ApplyRoll, R!vars, DecidedTurn, DecidedWinner
  <1>. QED
    BY <1>2, <1>3

(* apply_move is a whole turn of Race: the pawn, the capture, the winner and *)
(* the next player are decided there.                                      *)
LEMMA MoveRefines ==
  ASSUME IInv, NEW p \in Player, NEW j \in Pawn, ApplyMove(p, j)
  PROVE  R!Advance(p, j, last_roll)
  <1> DEFINE to == pawn_positions[p][j] + last_roll
             struck == Victims(p, pawn_positions, to)
  <1>1. /\ p = current_player /\ state = "SELECTING" /\ state' = "MOVING"
        /\ winner = None /\ UNCHANGED current_player /\ TypeOK
    BY DEF ApplyMove, IInv, PhaseInv
  <1>2. Effect(p, j, last_roll)
    BY ApplyMoveEffect
  <1>3. /\ last_roll \in RollValues /\ to \in PathIndex
        /\ CanMove(p, pawn_positions[p], j, last_roll)
        /\ \A v, w \in struck : v = w
    BY <1>2 DEF Effect
  <1>4. R!Free(p, j, last_roll)
    BY <1>1, <1>3, FreeIsCanMove
  <1>5. R!Struck(p, to) = struck
    BY <1>3, StruckIsVictims
  <1>6. pawn_positions' =
          [q \in Player |-> [k \in Pawn |->
             IF <<q, k>> = <<p, j>> THEN to
             ELSE IF <<q, k>> \in struck THEN 0 ELSE pawn_positions[q][k]]]
    BY <1>2 DEF Effect
  <1>7. /\ DecidedWinner' = IF CheckWin(p, pawn_positions') THEN p ELSE None
        /\ DecidedTurn' = IF struck # {} \/ last_roll \in ExtraTurnValues \/ DecidedWinner' = p
                            THEN p ELSE NextPlayer(p)
    BY <1>1, <1>2, NoneAssumption DEF Effect, DecidedTurn, DecidedWinner
  <1>8. DecidedWinner = None /\ DecidedTurn = p
    BY <1>1 DEF DecidedWinner, DecidedTurn
  <1> HIDE DEF to, struck
  <1>. QED
    BY <1>3, <1>4, <1>5, <1>6, <1>7, <1>8
       DEF R!Advance, CheckWin, R!Player, R!Pawn, Player, Pawn, R!NextPlayer, NextPlayer, to

(* confirm_move carries out what is already decided: Race stutters.        *)
LEMMA ConfirmRefines ==
  ASSUME IInv, ConfirmMove
  PROVE  UNCHANGED R!vars
  BY NoneAssumption DEF ConfirmMove, AdvanceTurn, IInv, PhaseInv, R!vars,
                        DecidedTurn, DecidedWinner

(* The three-call protocol of the session implements Race: every run of it *)
(* is a sequence of whole turns, one pawn or a pass each, with exactly one *)
(* pawn struck at a time, and nothing after the win.                       *)
THEOREM ImplementsRace == Spec => RaceSpec
  <1>1. Init => R!Init
    BY DEF Init, R!Init, DecidedTurn, DecidedWinner, R!Player, R!Pawn, Player, Pawn
  <1>2. IInv /\ [Next]_vars => [R!Next]_(R!vars)
    <2> SUFFICES ASSUME IInv, [Next]_vars PROVE R!Next \/ UNCHANGED R!vars
      OBVIOUS
    <2>1. CASE StartGame
      BY <2>1 DEF StartGame, R!vars, DecidedTurn, DecidedWinner
    <2>2. ASSUME NEW caller \in Player \cup {None}, NEW roll \in RollValues,
                 ApplyRoll(caller, roll)
          PROVE  R!Next \/ UNCHANGED R!vars
      BY <2>2, RollRefines
    <2>3. ASSUME NEW p \in Player, NEW j \in Pawn, ApplyMove(p, j)
          PROVE  R!Next
      <3>1. R!Advance(p, j, last_roll) /\ last_roll \in RollValues
        BY <2>3, MoveRefines, ApplyMoveEffect DEF Effect
      <3>. QED
        BY <3>1 DEF R!Next, R!Player, R!Pawn, Player, Pawn
    <2>4. CASE ConfirmMove
      BY <2>4, ConfirmRefines
    <2>5. CASE UNCHANGED vars
      BY <2>5 DEF vars, R!vars, DecidedTurn, DecidedWinner
    <2>. QED
      BY <2>1, <2>2, <2>3, <2>4, <2>5 DEF Next, Finished
  <1>. QED
    BY <1>1, <1>2, Invariance, PTL DEF Spec, RaceSpec, R!Spec

=============================================================================
