--------------------------- MODULE Engine_proofs ---------------------------
(***************************************************************************)
(* Proofs about the two programs that play by the kill rule: the second    *)
(* rules engine with the caller that trusts its move list, and the pygame  *)
(* window; for every board, number of players and number of pawns that     *)
(* meet the assumptions of Board, Engine and Pygame.  The last section is  *)
(* about both on the real board.                                           *)
(***************************************************************************)
EXTENDS MCRealBoard, Board_proofs

Positions == [Player -> [Pawn -> PathIndex]]

(* The square the pawn will stand on, and the enemies apply_move finds     *)
(* there.                                                                  *)
Target(j, roll) == Paths[current_player][Destination(j, roll)]

Struck(j, roll) == IF Target(j, roll) \in SafeSquares THEN {} ELSE EnemiesAt(Target(j, roll))

HasFinished(p, positions) == \A j \in Pawn : positions[p][j] = WinPathIndex

-----------------------------------------------------------------------------
(* The inductive invariant.  SoleOccupant is not inductive by itself:      *)
(* apply_move removes the first enemy it finds, which must be the only one *)
(* on the square; so the search must not find pawns at home.  The gate is  *)
(* an invariant of the positions, and the winner is known only together    *)
(* with the player who stays on turn.                                      *)

GateHolds ==
  \A p \in Player, j \in Pawn : pawns[p][j] > Threshold => kills_made[p]

WinnerKnown ==
  /\ \A p \in Player : HasFinished(p, pawns) <=> winner = p
  /\ game_over <=> winner # None
  /\ winner # None => current_player = winner

IInv == TypeOK /\ SoleOccupant /\ GateHolds /\ WinnerKnown

-----------------------------------------------------------------------------
(* Facts about the operators.                                              *)

(* compute_new_path_index keeps the pawn or advances it by the roll, and   *)
(* then the release, the gate and the exact count are respected.           *)
LEMMA DestinationIs ==
  ASSUME TypeOK, NEW j \in Pawn, NEW roll \in RollValues
  PROVE  LET k == pawns[current_player][j]
         IN /\ Destination(j, roll) \in PathIndex
            /\ \/ Destination(j, roll) = k
               \/ /\ Destination(j, roll) = k + roll /\ k + roll <= WinPathIndex
                  /\ k = 0 => roll \in ReleaseValues
                  /\ k + roll > Threshold => kills_made[current_player]
            /\ Destination(j, roll) # k <=> ~ Stays(k, roll, kills_made[current_player])
  <1> DEFINE k == pawns[current_player][j]
  <1>1. k \in PathIndex /\ k \in Nat /\ WinPathIndex \in Nat /\ roll \in Nat \ {0}
    BY BoardAssumption DEF TypeOK, PathIndex
  <1>2. CASE Stays(k, roll, kills_made[current_player])
    BY <1>1, <1>2 DEF Destination, NewPathIndex
  <1>3. CASE ~ Stays(k, roll, kills_made[current_player])
    <2>1. /\ k + roll <= WinPathIndex /\ (k = 0 => roll \in ReleaseValues)
          /\ k + roll > Threshold => kills_made[current_player]
      BY <1>1, <1>3 DEF Stays
    <2>2. Destination(j, roll) = k + roll
      BY <1>3 DEF Destination, NewPathIndex
    <2>3. k + roll # k /\ k + roll \in PathIndex
      BY <1>1, <2>1 DEF PathIndex
    <2>. QED
      BY <1>3, <2>1, <2>2, <2>3
  <1>. QED
    BY <1>2, <1>3

(* The search finds only pawns in play, and at most one: whoever is at     *)
(* home stands on a square no other path visits, the centre is safe, and   *)
(* no two pawns in play share an unsafe square.                            *)
LEMMA StruckSingle ==
  ASSUME IInv, NEW j \in Pawn, NEW roll \in RollValues
  PROVE  /\ \A v \in Struck(j, roll) :
              /\ v \in Player \X Pawn /\ v[1] # current_player
              /\ InPlay(pawns[v[1]][v[2]])
              /\ Paths[v[1]][pawns[v[1]][v[2]]] = Target(j, roll)
              /\ Target(j, roll) \notin SafeSquares
         /\ \A v, w \in Struck(j, roll) : v = w
  <1>1. TypeOK /\ current_player \in Player /\ Destination(j, roll) \in PathIndex
    BY DestinationIs DEF IInv, TypeOK
  <1>2. ASSUME NEW v \in Struck(j, roll)
        PROVE  /\ v \in Player \X Pawn /\ v[1] # current_player
               /\ InPlay(pawns[v[1]][v[2]])
               /\ Paths[v[1]][pawns[v[1]][v[2]]] = Target(j, roll)
               /\ Target(j, roll) \notin SafeSquares
    <2>1. /\ v \in Player \X Pawn /\ v[1] # current_player
          /\ Paths[v[1]][pawns[v[1]][v[2]]] = Target(j, roll)
          /\ Target(j, roll) \notin SafeSquares
      BY DEF Struck, EnemiesAt
    <2>2. v[1] \in Player /\ v[2] \in Pawn
      BY <2>1
    <2>3. pawns[v[1]][v[2]] # 0
      BY <1>1, <2>1, <2>2, HomesAssumption DEF Target
    <2>4. pawns[v[1]][v[2]] # WinPathIndex
      BY <2>1, <2>2, BoardAssumption
    <2>. QED
      BY <2>1, <2>3, <2>4 DEF InPlay
  <1>3. ASSUME NEW v \in Struck(j, roll), NEW w \in Struck(j, roll) PROVE v = w
    <2>1. v \in Player \X Pawn /\ w \in Player \X Pawn
      BY <1>2
    <2>2. v[1] = w[1] /\ v[2] = w[2]
      BY <1>2, <1>3, <2>1 DEF IInv, SoleOccupant
    <2>. QED
      BY <2>1, <2>2
  <1>. QED
    BY <1>2, <1>3

(* FirstOf picks the only victim when there is one.                        *)
LEMMA FirstOfOnly ==
  ASSUME NEW victims \in SUBSET (Player \X Pawn), NEW v \in victims,
         \A w \in victims : w = v
  PROVE  FirstOf(victims) = v
  <1>1. v[1] \in Nat /\ v[2] \in Nat
    BY PlayerNat
  <1>2. \A w \in victims : v[1] < w[1] \/ (v[1] = w[1] /\ v[2] <= w[2])
    BY <1>1
  <1>. QED
    BY <1>2 DEF FirstOf

(* A pawn that stays strikes nobody: it already stands on the square.      *)
LEMMA StayingStrikesNobody ==
  ASSUME IInv, NEW j \in Pawn, NEW roll \in RollValues,
         Destination(j, roll) = pawns[current_player][j]
  PROVE  Struck(j, roll) = {}
  <1>1. SUFFICES ASSUME NEW v \in Struck(j, roll) PROVE FALSE
    OBVIOUS
  <1> DEFINE p == current_player
             k == pawns[p][j]
             q == v[1]
             m == pawns[v[1]][v[2]]
  <1>2. /\ p \in Player /\ k \in PathIndex /\ q \in Player /\ v[2] \in Pawn /\ q # p
        /\ m \in PathIndex /\ InPlay(m) /\ Paths[q][m] = Paths[p][k]
        /\ Paths[p][k] \notin SafeSquares
    BY StruckSingle DEF IInv, TypeOK, Target
  <1>3. k # 0
    BY <1>2, HomesAssumption
  <1>4. k # WinPathIndex
    BY <1>2, BoardAssumption
  <1>5. q = p
    BY <1>2, <1>3, <1>4 DEF IInv, SoleOccupant, InPlay
  <1>. QED
    BY <1>2, <1>5

-----------------------------------------------------------------------------
(* The whole effect of apply_move as the caller uses it: the pawn goes to  *)
(* its destination, the only enemy there goes home, nobody else moves; and *)
(* a pawn that moves was listed, so no friend stands on the square.        *)
Effect(j, roll) ==
  LET p  == current_player
      to == Destination(j, roll)
  IN /\ pawns' = [q \in Player |-> [k \in Pawn |->
                     IF <<q, k>> = <<p, j>> THEN to
                     ELSE IF <<q, k>> \in Struck(j, roll) THEN 0 ELSE pawns[q][k]]]
     /\ kills_made' = [kills_made EXCEPT ![p] = @ \/ Struck(j, roll) # {}]
     /\ game_over' = (game_over \/ HasFinished(p, pawns'))
     /\ winner' = IF HasFinished(p, pawns') THEN p ELSE winner
     /\ current_player' =
          IF roll \in ExtraTurnValues \/ Struck(j, roll) # {} \/ HasFinished(p, pawns')
            THEN p ELSE NextPlayer(p)

(* What the caller's choice guarantees. *)
Chosen(j, roll) ==
  \/ j \in PossibleMoves(roll)
  \/ PossibleMoves(roll) = {} /\ Destination(j, roll) = pawns[current_player][j]

(* A call of apply_move moves one chosen pawn, with the effect written     *)
(* above.                                                                  *)
LEMMA PlayEffect ==
  ASSUME IInv, NEW roll \in RollValues, Play(roll)
  PROVE  \E j \in Pawn : Chosen(j, roll) /\ Effect(j, roll)
  <1>1. PICK j \in Applied(roll) : ApplyMove(j, roll)
    BY DEF Play
  <1>2. j \in Pawn /\ Chosen(j, roll)
    BY DEF Applied, PossibleMoves, Immobile, Chosen
  <1> DEFINE p == current_player
             to == Destination(j, roll)
             struck == Struck(j, roll)
             moved == [pawns EXCEPT ![p][j] = to]
  <1>3. /\ pawns' = IF struck = {} THEN moved
                    ELSE [moved EXCEPT ![FirstOf(struck)[1]][FirstOf(struck)[2]] = 0]
        /\ kills_made' = [kills_made EXCEPT ![p] = @ \/ struck # {}]
        /\ game_over' = (game_over \/ \A k \in Pawn : pawns'[p][k] = WinPathIndex)
        /\ winner' = IF \A k \in Pawn : pawns'[p][k] = WinPathIndex THEN p ELSE winner
        /\ current_player' =
             IF roll \in ExtraTurnValues \/ struck # {}
                \/ \A k \in Pawn : pawns'[p][k] = WinPathIndex
               THEN p ELSE NextPlayer(p)
    BY <1>1 DEF ApplyMove, Struck, Target
  <1>4. /\ pawns \in Positions /\ p \in Player /\ to \in PathIndex
        /\ struck \in SUBSET (Player \X Pawn)
        /\ \A v, w \in struck : v = w
        /\ \A v \in struck : v[1] # p
    BY <1>2, DestinationIs, StruckSingle DEF IInv, TypeOK, Positions
  <1>5. \A q \in Player, k \in Pawn :
          moved[q][k] = IF <<q, k>> = <<p, j>> THEN to ELSE pawns[q][k]
    BY <1>2, <1>4 DEF Positions
  <1>6. moved \in Positions
    BY <1>2, <1>4 DEF Positions
  <1> HIDE DEF to, struck, moved
  <1>7. pawns' = [q \in Player |-> [k \in Pawn |->
                    IF <<q, k>> = <<p, j>> THEN to
                    ELSE IF <<q, k>> \in struck THEN 0 ELSE pawns[q][k]]]
    <2>1. CASE struck = {}
      <3>1. pawns' = moved
        BY <1>3, <2>1
      <3>2. moved = [q \in Player |-> [k \in Pawn |-> moved[q][k]]]
        BY <1>6 DEF Positions
      <3>. QED
        BY <3>1, <3>2, <1>5, <2>1
    <2>2. ASSUME NEW v \in struck
          PROVE  pawns' = [q \in Player |-> [k \in Pawn |->
                    IF <<q, k>> = <<p, j>> THEN to
                    ELSE IF <<q, k>> \in struck THEN 0 ELSE pawns[q][k]]]
      <3>1. FirstOf(struck) = v /\ v = <<v[1], v[2]>> /\ v[1] \in Player /\ v[2] \in Pawn
        BY <1>4, FirstOfOnly
      <3>2. pawns' = [moved EXCEPT ![v[1]][v[2]] = 0]
        BY <1>3, <2>2, <3>1
      <3>3. \A q, k : <<q, k>> \in struck <=> q = v[1] /\ k = v[2]
        BY <1>4, <3>1
      <3>4. ASSUME NEW q \in Player, NEW k \in Pawn
            PROVE  pawns'[q][k] = IF <<q, k>> = <<p, j>> THEN to
                                  ELSE IF <<q, k>> \in struck THEN 0 ELSE pawns[q][k]
        <4>1. pawns'[q][k] = IF q = v[1] /\ k = v[2] THEN 0 ELSE moved[q][k]
          BY <1>6, <3>1, <3>2 DEF Positions
        <4>2. v[1] # p
          BY <1>4
        <4>. QED
          BY <4>1, <4>2, <3>3, <1>5
      <3>5. pawns' = [q \in Player |-> [k \in Pawn |-> pawns'[q][k]]]
        BY <1>6, <3>1, <3>2 DEF Positions
      <3>. QED
        BY <3>4, <3>5
    <2>. QED
      BY <2>1, <2>2
  <1>. QED
    BY <1>2, <1>3, <1>7 DEF Effect, HasFinished, to, struck

(* The engine's fields keep their types.                                   *)
LEMMA EffectType ==
  ASSUME IInv, NEW roll \in RollValues, NEW j \in Pawn, Effect(j, roll)
  PROVE  TypeOK'
  <1>1. current_player \in Player /\ 0 \in PathIndex /\ Destination(j, roll) \in PathIndex
    BY DestinationIs, BoardAssumption DEF IInv, TypeOK, PathIndex
  <1>2. pawns' \in [Player -> [Pawn -> PathIndex]]
    BY <1>1 DEF Effect, IInv, TypeOK
  <1>3. kills_made' \in [Player -> BOOLEAN] /\ game_over' \in BOOLEAN
    BY <1>1 DEF Effect, IInv, TypeOK
  <1>. QED
    BY <1>1, <1>2, <1>3, NextPlayerType DEF Effect, IInv, TypeOK

(* Where the pawns are after the step.                                     *)
LEMMA EffectAt ==
  ASSUME IInv, NEW roll \in RollValues, NEW j \in Pawn, Effect(j, roll)
  PROVE  /\ current_player \in Player
         /\ pawns'[current_player][j] = Destination(j, roll)
         /\ \A q \in Player, k \in Pawn : <<q, k>> # <<current_player, j>> =>
               pawns'[q][k] = IF <<q, k>> \in Struck(j, roll) THEN 0 ELSE pawns[q][k]
  BY DEF Effect, IInv, TypeOK

(* Squares that are not safe stay single: the friend was excluded by the   *)
(* move list, the enemy is sent home, and a pass moves nobody.             *)
LEMMA EffectSole ==
  ASSUME IInv, NEW roll \in RollValues, NEW j \in Pawn, Chosen(j, roll), Effect(j, roll)
  PROVE  SoleOccupant'
  <1> DEFINE p == current_player
             to == Destination(j, roll)
  <1>2. \A q \in Player, k \in Pawn :
          <<q, k>> # <<p, j>> /\ InPlay(pawns'[q][k]) =>
             pawns'[q][k] = pawns[q][k] /\ <<q, k>> \notin Struck(j, roll)
    BY EffectAt DEF InPlay
  (* Nobody who is still in play shares the square the pawn went to. *)
  <1>3. ASSUME NEW q \in Player, NEW k \in Pawn, <<q, k>> # <<p, j>>,
               InPlay(pawns'[q][k]), InPlay(to),
               Paths[q][pawns'[q][k]] = Paths[p][to], Paths[p][to] \notin SafeSquares
        PROVE  FALSE
    <2>1. pawns'[q][k] = pawns[q][k] /\ <<q, k>> \notin Struck(j, roll)
      BY <1>2, <1>3
    <2>2. CASE q # p
      BY <2>1, <2>2, <1>3 DEF Struck, Target, EnemiesAt
    <2>3. CASE q = p /\ to = pawns[p][j]
      <3>1. k # j /\ InPlay(pawns[p][j]) /\ InPlay(pawns[p][k])
            /\ Paths[p][pawns[p][k]] = Paths[p][pawns[p][j]] /\ p \in Player
        BY <2>1, <2>3, <1>3
      <3>. QED
        BY <3>1, <2>3, <1>3 DEF IInv, SoleOccupant
    <2>4. CASE q = p /\ to # pawns[p][j]
      BY <2>1, <2>4, <1>3 DEF Chosen, PossibleMoves, FriendlyPositions
    <2>. QED
      BY <2>2, <2>3, <2>4
  <1> SUFFICES ASSUME NEW q \in Player, NEW r \in Player, NEW k \in Pawn, NEW l \in Pawn,
                      InPlay(pawns'[q][k]), InPlay(pawns'[r][l]),
                      Paths[q][pawns'[q][k]] = Paths[r][pawns'[r][l]],
                      Paths[q][pawns'[q][k]] \notin SafeSquares
               PROVE  q = r /\ k = l
    BY DEF SoleOccupant
  <1>4. pawns'[p][j] = to /\ p \in Player
    BY EffectAt
  <1>5. CASE <<q, k>> = <<p, j>>
    BY <1>3, <1>4, <1>5
  <1>6. CASE <<r, l>> = <<p, j>>
    BY <1>3, <1>4, <1>6
  <1>7. CASE <<q, k>> # <<p, j>> /\ <<r, l>> # <<p, j>>
    <2>1. pawns'[q][k] = pawns[q][k] /\ pawns'[r][l] = pawns[r][l]
      BY <1>2, <1>7
    <2>. QED
      BY <2>1 DEF IInv, SoleOccupant
  <1>. QED
    BY <1>5, <1>6, <1>7

(* The gate holds: a pawn goes beyond it only with the player's right of   *)
(* way, which no step takes back.                                          *)
LEMMA EffectGate ==
  ASSUME IInv, NEW roll \in RollValues, NEW j \in Pawn, Effect(j, roll)
  PROVE  GateHolds'
  <1>1. TypeOK /\ current_player \in Player /\ Threshold \in Nat
    BY EngineAssumption, BoardAssumption DEF IInv, TypeOK, PathIndex
  <1>2. \A q \in Player : kills_made[q] => kills_made'[q]
    BY <1>1 DEF Effect, TypeOK
  <1> SUFFICES ASSUME NEW q \in Player, NEW k \in Pawn, pawns'[q][k] > Threshold
               PROVE  kills_made'[q]
    BY DEF GateHolds
  <1>3. CASE <<q, k>> = <<current_player, j>>
    <2>1. pawns'[q][k] = Destination(j, roll)
      BY <1>3, EffectAt
    <2>2. CASE Destination(j, roll) = pawns[q][k]
      BY <2>1, <2>2, <1>2 DEF IInv, GateHolds
    <2>3. CASE Destination(j, roll) # pawns[q][k]
      BY <2>1, <2>3, <1>1, <1>2, <1>3, DestinationIs
    <2>. QED
      BY <2>2, <2>3
  <1>4. CASE <<q, k>> # <<current_player, j>>
    <2>1. pawns'[q][k] \in {0, pawns[q][k]}
      BY <1>4, EffectAt
    <2>2. pawns'[q][k] = pawns[q][k]
      BY <2>1, <1>1
    <2>. QED
      BY <2>2, <1>2 DEF IInv, GateHolds
  <1>. QED
    BY <1>3, <1>4

(* The winner is the player who has finished, and stays on turn: capturing *)
(* takes nobody out of the centre, and only the player on turn finishes.   *)
LEMMA EffectWinner ==
  ASSUME IInv, NEW roll \in RollValues, NEW j \in Pawn, Effect(j, roll)
  PROVE  WinnerKnown'
  <1> DEFINE p == current_player
  <1>1. TypeOK /\ p \in Player /\ None \notin Player
    BY EngineAssumption DEF IInv, TypeOK
  <1>2. ASSUME NEW q \in Player, q # p
        PROVE  HasFinished(q, pawns') <=> HasFinished(q, pawns)
    <2>1. ASSUME NEW k \in Pawn
          PROVE  pawns'[q][k] = WinPathIndex <=> pawns[q][k] = WinPathIndex
      <3>1. pawns'[q][k] = IF <<q, k>> \in Struck(j, roll) THEN 0 ELSE pawns[q][k]
        BY <1>2, EffectAt
      <3>2. <<q, k>> \in Struck(j, roll) => pawns[q][k] # WinPathIndex
        BY StruckSingle DEF InPlay
      <3>. QED
        BY <3>1, <3>2, BoardAssumption
    <2>. QED
      BY <2>1 DEF HasFinished
  <1>3. HasFinished(p, pawns) => HasFinished(p, pawns') /\ winner = p
    <2>1. ASSUME HasFinished(p, pawns), NEW k \in Pawn PROVE pawns'[p][k] = WinPathIndex
      <3>1. Destination(j, roll) = pawns[p][j]
        BY <2>1, <1>1, DestinationIs, BoardAssumption DEF HasFinished, PathIndex
      <3>2. pawns[p][k] = WinPathIndex /\ <<p, k>> \notin Struck(j, roll)
        BY <2>1, <1>1, StruckSingle DEF HasFinished
      <3>. QED
        BY <3>1, <3>2, EffectAt
    <2>2. HasFinished(p, pawns) => winner = p
      BY <1>1 DEF IInv, WinnerKnown
    <2>. QED
      BY <2>1, <2>2 DEF HasFinished
  <1>4. /\ game_over' = (game_over \/ HasFinished(p, pawns'))
        /\ winner' = IF HasFinished(p, pawns') THEN p ELSE winner
        /\ current_player' = IF roll \in ExtraTurnValues \/ Struck(j, roll) # {}
                                \/ HasFinished(p, pawns') THEN p ELSE NextPlayer(p)
    BY DEF Effect
  <1>5. winner # None => winner = p /\ HasFinished(p, pawns)
    BY <1>1 DEF IInv, WinnerKnown
  <1> HIDE DEF p
  <1>6. CASE HasFinished(p, pawns')
    <2>1. winner' = p /\ game_over' /\ current_player' = p
      BY <1>4, <1>6, <1>1 DEF IInv, TypeOK
    <2>2. \A q \in Player : q # p => winner # q
      BY <1>5, <1>1
    <2>3. \A q \in Player : q # p => ~ HasFinished(q, pawns')
      BY <1>2, <2>2 DEF IInv, WinnerKnown
    <2>. QED
      BY <1>1, <1>6, <2>1, <2>3 DEF WinnerKnown
  <1>7. CASE ~ HasFinished(p, pawns')
    <2>1. winner = None /\ winner' = None /\ (game_over' <=> game_over)
      BY <1>1, <1>3, <1>4, <1>5, <1>7 DEF IInv, TypeOK
    <2>2. ~ game_over' /\ \A q \in Player : ~ HasFinished(q, pawns)
      BY <1>1, <2>1 DEF IInv, WinnerKnown
    <2>3. \A q \in Player : ~ HasFinished(q, pawns')
      BY <1>2, <1>7, <2>2
    <2>. QED
      BY <1>1, <2>1, <2>2, <2>3 DEF WinnerKnown
  <1>. QED
    BY <1>6, <1>7

-----------------------------------------------------------------------------
(* The theorems.                                                           *)

(* The inductive invariant holds however the caller chooses and whatever   *)
(* is rolled: types, single squares, the gate, and who has won.            *)
LEMMA SafeSteps == Init /\ [][Next]_vars => []IInv
  <1>1. Init => IInv
    <2> SUFFICES ASSUME Init PROVE IInv
      OBVIOUS
    <2>1. TypeOK
      <3>1. 0 \in PathIndex /\ 0 \in Player
        BY PlayerNat, BoardAssumption DEF PathIndex
      <3>. QED
        BY <3>1 DEF Init, TypeOK
    <2>2. SoleOccupant
      BY DEF Init, SoleOccupant, InPlay
    <2>3. \A p \in Player, j \in Pawn : pawns[p][j] = 0
      BY DEF Init
    <2>4. GateHolds
      BY <2>3, EngineAssumption, BoardAssumption DEF GateHolds, PathIndex
    <2>5. \A p \in Player : ~ HasFinished(p, pawns)
      BY <2>3, PlayerNat, BoardAssumption DEF HasFinished
    <2>6. WinnerKnown
      BY <2>5, EngineAssumption DEF Init, WinnerKnown
    <2>. QED
      BY <2>1, <2>2, <2>4, <2>6 DEF IInv
  <1>2. IInv /\ [Next]_vars => IInv'
    <2> SUFFICES ASSUME IInv, [Next]_vars PROVE IInv'
      OBVIOUS
    <2>1. ASSUME NEW roll \in RollValues, Play(roll) PROVE IInv'
      <3>1. PICK j \in Pawn : Chosen(j, roll) /\ Effect(j, roll)
        BY <2>1, PlayEffect
      <3>. QED
        BY <3>1, EffectType, EffectSole, EffectGate, EffectWinner DEF IInv
    <2>2. CASE UNCHANGED vars
      BY <2>2 DEF vars, IInv, TypeOK, SoleOccupant, GateHolds, WinnerKnown, HasFinished
    <2>. QED
      BY <2>1, <2>2 DEF Next
  <1>. QED
    BY <1>1, <1>2, PTL

(* The same for the caller that is sure to get every roll.                 *)
THEOREM Invariance == Spec => []IInv
  BY SafeSteps, PTL DEF Spec

(* Every field keeps its type, for every board and every sequence of rolls. *)
THEOREM TypeCorrect == Spec => []TypeOK
  BY Invariance, PTL DEF IInv

(* No square that is not safe ever holds two pawns in play, although       *)
(* apply_move checks no friend and removes only the first enemy it finds.  *)
THEOREM SquaresHoldOnePawn == Spec => []SoleOccupant
  BY Invariance, PTL DEF IInv

(* Where the gate lies before the centre, nobody wins without a capture.   *)
THEOREM WinsNeedAKill ==
  ASSUME Threshold < WinPathIndex
  PROVE  Spec => []WinNeedsKill
  <1>1. IInv => WinNeedsKill
    <2> SUFFICES ASSUME IInv, winner # None
                 PROVE  kills_made[winner] /\ game_over
      BY DEF WinNeedsKill
    <2>1. winner \in Player /\ game_over /\ HasFinished(winner, pawns)
      BY DEF IInv, TypeOK, WinnerKnown
    <2>2. pawns[winner][0] = WinPathIndex /\ 0 \in Pawn
      BY <2>1, PlayerNat DEF HasFinished
    <2>. QED
      BY <2>1, <2>2 DEF IInv, GateHolds
  <1>. QED
    BY <1>1, Invariance, PTL

-----------------------------------------------------------------------------
(* Passing and pinned players: arguments about the pawn in front.          *)

(* Of the pawns that are not in the centre one is in front.                *)
LEMMA FrontPawn ==
  ASSUME TypeOK, ~ HasFinished(current_player, pawns)
  PROVE  LET own == pawns[current_player]
         IN \E j \in Pawn : /\ own[j] # WinPathIndex
                            /\ \A k \in Pawn : own[k] # WinPathIndex => own[k] <= own[j]
  <1> DEFINE own == pawns[current_player]
             S == {own[j] : j \in {k \in Pawn : own[k] # WinPathIndex}}
  <1>1. own \in [Pawn -> PathIndex]
    BY DEF TypeOK
  <1>2. S \in SUBSET Nat /\ S # {} /\ \A i \in S : i <= WinPathIndex
    BY <1>1, BoardAssumption DEF HasFinished, PathIndex
  <1>3. PICK i \in S : \A k \in S : k <= i
    BY <1>2, GreatestIndex, BoardAssumption
  <1>. QED
    BY <1>3

(* A pawn that would move and is not listed has a friend on its square,    *)
(* further on than itself and not yet in the centre.                       *)
LEMMA NotListed ==
  ASSUME TypeOK, NEW j \in Pawn, NEW roll \in RollValues, j \notin PossibleMoves(roll),
         Destination(j, roll) # pawns[current_player][j]
  PROVE  \E k \in Pawn : /\ pawns[current_player][k] # WinPathIndex
                         /\ pawns[current_player][k] > pawns[current_player][j]
  <1> DEFINE p == current_player
             to == Destination(j, roll)
  <1>1. /\ p \in Player /\ pawns[p] \in [Pawn -> PathIndex] /\ to \in PathIndex
        /\ roll \in Nat \ {0} /\ to = pawns[p][j] + roll /\ to <= WinPathIndex
    BY DestinationIs, BoardAssumption DEF TypeOK
  <1>2. pawns[p][j] \in Nat /\ pawns[p][j] # WinPathIndex /\ to > pawns[p][j]
    BY <1>1, BoardAssumption DEF PathIndex
  <1>3. Paths[p][to] \notin SafeSquares /\ Paths[p][to] \in FriendlyPositions
    BY <1>1, <1>2 DEF PossibleMoves
  <1>4. PICK k \in Pawn : Paths[p][pawns[p][k]] = Paths[p][to]
    BY <1>3 DEF FriendlyPositions
  <1>5. pawns[p][k] = to /\ to # WinPathIndex
    BY <1>1, <1>3, <1>4, BoardAssumption
  <1>. QED
    BY <1>2, <1>5

(* The caller is never left without a way to pass: of pawns that would all *)
(* move, the one in front can be listed.                                   *)
THEOREM PassingIsPossible == Spec => []PassPossible
  <1>1. IInv => PassPossible
    <2> SUFFICES ASSUME IInv, NEW roll \in RollValues,
                        PossibleMoves(roll) = {}, Immobile(roll) = {}
                 PROVE  FALSE
      BY DEF PassPossible
    <2>1. TypeOK /\ pawns[current_player] \in [Pawn -> PathIndex] /\ roll \in Nat \ {0}
      BY BoardAssumption DEF IInv, TypeOK
    <2>2. \A j \in Pawn : Destination(j, roll) # pawns[current_player][j]
      BY DEF Immobile
    <2>3. \A j \in Pawn : pawns[current_player][j] # WinPathIndex
      BY <2>1, <2>2, DestinationIs, BoardAssumption DEF PathIndex
    <2>4. ~ HasFinished(current_player, pawns)
      BY <2>3, PlayerNat DEF HasFinished
    <2>5. PICK j \in Pawn :
             \A k \in Pawn : pawns[current_player][k] # WinPathIndex =>
                pawns[current_player][k] <= pawns[current_player][j]
      BY <2>1, <2>4, FrontPawn
    <2>6. PICK k \in Pawn : /\ pawns[current_player][k] # WinPathIndex
                           /\ pawns[current_player][k] > pawns[current_player][j]
      BY <2>1, <2>2, NotListed
    <2>. QED
      BY <2>1, <2>5, <2>6 DEF PathIndex
  <1>. QED
    BY <1>1, Invariance, PTL

(* Only a player without a capture can be pinned, and only with a pawn at  *)
(* the gate: by a roll of one the pawn in front could go anywhere else.    *)
THEOREM PinnedAtTheGate == Spec => []PinnedOnlyAtGate
  <1>1. IInv => PinnedOnlyAtGate
    <2> SUFFICES ASSUME IInv, ~ game_over, PossibleMoves(1) = {}
                 PROVE  /\ ~ kills_made[current_player]
                        /\ \E j \in Pawn : pawns[current_player][j] = Threshold
      BY BoardAssumption DEF PinnedOnlyAtGate
    <2> DEFINE own == pawns[current_player]
    <2>1. /\ TypeOK /\ current_player \in Player /\ own \in [Pawn -> PathIndex]
          /\ 1 \in RollValues /\ 1 \in ReleaseValues
          /\ Threshold \in Nat /\ WinPathIndex \in Nat
      BY BoardAssumption, EngineAssumption DEF IInv, TypeOK, PathIndex
    <2>2. ~ HasFinished(current_player, pawns)
      BY <2>1, EngineAssumption DEF IInv, WinnerKnown
    <2>3. PICK j \in Pawn :
             /\ own[j] # WinPathIndex
             /\ \A k \in Pawn : own[k] # WinPathIndex => own[k] <= own[j]
      BY <2>1, <2>2, FrontPawn
    <2>4. own[j] \in Nat /\ own[j] + 1 <= WinPathIndex
      BY <2>1, <2>3 DEF PathIndex
    <2>5. Destination(j, 1) = own[j]
      <3>1. SUFFICES ASSUME Destination(j, 1) # own[j] PROVE FALSE
        OBVIOUS
      <3>2. PICK k \in Pawn : own[k] # WinPathIndex /\ own[k] > own[j]
        BY <2>1, <3>1, NotListed
      <3>. QED
        BY <2>1, <2>3, <3>2 DEF PathIndex
    <2>6. Stays(own[j], 1, kills_made[current_player])
      BY <2>1, <2>5, DestinationIs
    <2>7. own[j] + 1 > Threshold /\ ~ kills_made[current_player]
      BY <2>1, <2>4, <2>6 DEF Stays
    <2>8. ~ (own[j] > Threshold)
      BY <2>1, <2>7 DEF IInv, GateHolds
    <2>. QED
      BY <2>1, <2>4, <2>7, <2>8
  <1>. QED
    BY <1>1, Invariance, PTL

-----------------------------------------------------------------------------
(* The engine implements Race.                                             *)

(* Race's free pawns are the listed ones: the wide set of friendly squares *)
(* of get_possible_moves excludes nothing more.                            *)
LEMMA FreeIsListed ==
  ASSUME TypeOK, NEW j \in Pawn, NEW roll \in RollValues
  PROVE  R!Free(current_player, j, roll) <=> j \in PossibleMoves(roll)
  <1> DEFINE p == current_player
             k == pawns[p][j]
             to == Destination(j, roll)
  <1>1. /\ p \in Player /\ pawns[p] \in [Pawn -> PathIndex] /\ k \in Nat
        /\ roll \in Nat \ {0} /\ WinPathIndex \in Nat
        /\ Threshold \in Nat
    BY BoardAssumption, EngineAssumption DEF TypeOK, PathIndex
  <1>2. CASE Stays(k, roll, kills_made[p])
    <2>1. j \notin PossibleMoves(roll)
      BY <1>2, DestinationIs DEF PossibleMoves
    <2>2. ~ R!Free(p, j, roll)
      BY <1>1, <1>2 DEF R!Free, Stays
    <2>. QED
      BY <2>1, <2>2
  <1>3. CASE ~ Stays(k, roll, kills_made[p])
    <2>1. /\ to = k + roll /\ to \in PathIndex /\ to # k /\ k # WinPathIndex
          /\ k + roll <= WinPathIndex
          /\ (k = 0 => roll \in ReleaseValues)
          /\ (k + roll > Threshold => p \notin {q \in Player : ~ kills_made[q]})
      BY <1>1, <1>3, DestinationIs
    <2>2. Paths[p][to] \notin SafeSquares =>
            (Paths[p][to] \in FriendlyPositions <=> R!Held(p, j, to))
      <3>1. SUFFICES ASSUME Paths[p][to] \notin SafeSquares
                     PROVE  Paths[p][to] \in FriendlyPositions <=> R!Held(p, j, to)
        OBVIOUS
      <3>2. to # 0 /\ to # WinPathIndex
        BY <1>1, <2>1, <3>1, BoardAssumption
      <3>3. \A l \in Pawn : Paths[p][pawns[p][l]] = Paths[p][to] =>
              pawns[p][l] = to /\ l # j
        BY <1>1, <2>1, BoardAssumption
      <3>. QED
        BY <3>2, <3>3 DEF FriendlyPositions, R!Held, R!Pawn, Pawn
    <2>3. j \in PossibleMoves(roll) <=>
            (Paths[p][to] \in SafeSquares \/ Paths[p][to] \notin FriendlyPositions)
      BY <2>1 DEF PossibleMoves
    <2>4. R!Free(p, j, roll) <=>
            (Paths[p][to] \in SafeSquares \/ ~ R!Held(p, j, to))
      BY <2>1 DEF R!Free
    <2>. QED
      BY <2>2, <2>3, <2>4
  <1>. QED
    BY <1>2, <1>3

(* A listed pawn's turn is an advance of Race, a pass is one of Race or    *)
(* changes nothing.                                                        *)
LEMMA PlayRefines ==
  ASSUME IInv, NEW roll \in RollValues, Play(roll)
  PROVE  R!Next \/ UNCHANGED R!vars
  <1> DEFINE p == current_player
  <1>1. PICK j \in Pawn : Chosen(j, roll) /\ Effect(j, roll)
    BY PlayEffect
  <1> DEFINE to == Destination(j, roll)
             struck == Struck(j, roll)
  <1>2. TypeOK /\ p \in Player /\ None \notin Player
    BY EngineAssumption DEF IInv, TypeOK
  <1>3. {q \in Player : ~ kills_made'[q]} =
          IF struck # {} THEN {q \in Player : ~ kills_made[q]} \ {p}
          ELSE {q \in Player : ~ kills_made[q]}
    BY <1>1, <1>2 DEF Effect, TypeOK
  <1>4. CASE j \in PossibleMoves(roll)
    <2>1. R!Free(p, j, roll) /\ to # pawns[p][j] /\ pawns[p][j] # WinPathIndex
      BY <1>2, <1>4, FreeIsListed DEF PossibleMoves
    <2>2. to = pawns[p][j] + roll
      BY <1>2, <2>1, DestinationIs
    <2>3. winner = None
      <3>1. ~ HasFinished(p, pawns)
        BY <2>1 DEF HasFinished
      <3>. QED
        BY <1>2, <3>1 DEF IInv, WinnerKnown, TypeOK
    <2>4. R!Struck(p, to) = struck
      <3>1. CASE Paths[p][to] \in SafeSquares
        BY <3>1 DEF Struck, Target, R!Struck
      <3>2. CASE Paths[p][to] \notin SafeSquares
        <4>1. struck = {v \in Player \X Pawn :
                          v[1] # p /\ Paths[v[1]][pawns[v[1]][v[2]]] = Paths[p][to]}
          BY <3>2 DEF Struck, Target, EnemiesAt
        <4>2. R!Struck(p, to) =
                {v \in Player \X Pawn :
                   v[1] # p /\ InPlay(pawns[v[1]][v[2]])
                   /\ Paths[v[1]][pawns[v[1]][v[2]]] = Paths[p][to]}
          BY <3>2 DEF R!Struck, R!EnemiesOn, R!InPlay, R!Player, R!Pawn, InPlay, Player, Pawn
        <4>3. \A v \in struck : InPlay(pawns[v[1]][v[2]])
          BY StruckSingle
        <4>. QED
          BY <4>1, <4>2, <4>3
      <3>. QED
        BY <3>1, <3>2
    <2>5. \A v, w \in struck : v = w
      BY StruckSingle
    <2>6. /\ pawns' = [q \in Player |-> [k \in Pawn |->
                         IF <<q, k>> = <<p, j>> THEN to
                         ELSE IF <<q, k>> \in struck THEN 0 ELSE pawns[q][k]]]
          /\ winner' = IF \A k \in Pawn : pawns'[p][k] = WinPathIndex THEN p ELSE None
          /\ current_player' =
               IF roll \in ExtraTurnValues \/ struck # {} \/ HasFinished(p, pawns')
                 THEN p ELSE NextPlayer(p)
      BY <1>1, <2>3 DEF Effect, HasFinished
    <2>7. winner' = p <=> HasFinished(p, pawns')
      BY <1>2, <2>6 DEF HasFinished
    <2> HIDE DEF to, struck, p
    <2>8. current_player' = IF struck # {} \/ roll \in ExtraTurnValues \/ winner' = p
                              THEN p ELSE NextPlayer(p)
      BY <2>6, <2>7
    <2>9. R!Advance(p, j, roll)
      BY <1>3, <2>1, <2>2, <2>3, <2>4, <2>5, <2>6, <2>8
         DEF R!Advance, R!Player, R!Pawn, Player, Pawn, R!NextPlayer, NextPlayer, p
    <2>. QED
      BY <1>2, <2>9 DEF R!Next, R!Player, R!Pawn, Player, Pawn
  <1>5. CASE PossibleMoves(roll) = {} /\ to = pawns[p][j]
    <2>1. struck = {}
      BY <1>5, StayingStrikesNobody
    <2>2. pawns' = pawns
      <3>1. ASSUME NEW q \in Player, NEW k \in Pawn
            PROVE  pawns'[q][k] = pawns[q][k]
        <4>1. CASE <<q, k>> = <<p, j>>
          <5>1. q = p /\ k = j
            BY <4>1
          <5>2. pawns'[p][j] = to
            BY <1>1, <1>2, EffectAt
          <5>. QED
            BY <5>1, <5>2, <1>5
        <4>2. CASE <<q, k>> # <<p, j>>
          <5>1. pawns'[q][k] = IF <<q, k>> \in struck THEN 0 ELSE pawns[q][k]
            BY <1>1, <1>2, <4>2, EffectAt
          <5>. QED
            BY <5>1, <2>1
        <4>. QED
          BY <4>1, <4>2
      <3>2. pawns \in Positions /\ pawns' \in Positions
        BY <1>1, <1>2, EffectType DEF TypeOK, Positions
      <3>. QED
        BY <3>1, <3>2 DEF Positions
    <2>3. UNCHANGED {q \in Player : ~ kills_made[q]}
      BY <1>3, <2>1
    <2>4. /\ winner' = IF HasFinished(p, pawns) THEN p ELSE winner
          /\ current_player' = IF roll \in ExtraTurnValues \/ HasFinished(p, pawns)
                                 THEN p ELSE NextPlayer(p)
      BY <1>1, <2>1, <2>2 DEF Effect
    <2>5. HasFinished(p, pawns) <=> winner = p
      BY <1>2 DEF IInv, WinnerKnown
    <2>6. winner' = winner
      BY <2>4, <2>5
    <2>7. CASE roll \in ExtraTurnValues \/ winner # None
      <3>1. current_player' = p
        BY <2>4, <2>5, <2>7 DEF IInv, WinnerKnown
      <3>. QED
        BY <2>2, <2>3, <2>6, <3>1 DEF R!vars
    <2>8. CASE roll \notin ExtraTurnValues /\ winner = None
      <3>1. \A k \in Pawn : ~ R!Free(p, k, roll)
        BY <1>2, <1>5, FreeIsListed
      <3>2. current_player' = NextPlayer(p)
        BY <1>2, <2>4, <2>5, <2>8
      <3>3. R!Pass(p, roll)
        BY <2>2, <2>3, <2>6, <2>8, <3>1, <3>2
           DEF R!Pass, R!NextPlayer, NextPlayer, R!Pawn, Pawn
      <3>. QED
        BY <1>2, <3>3 DEF R!Next, R!Player, Player
    <2>. QED
      BY <2>7, <2>8
  <1>. QED
    BY <1>1, <1>4, <1>5 DEF Chosen

(* Race is followed whichever rolls the caller gets.                       *)
LEMMA RaceSteps == Init /\ [][Next]_vars => RaceSpec
  <1>1. Init => R!Init
    BY DEF Init, R!Init, R!Player, R!Pawn, Player, Pawn
  <1>2. IInv /\ [Next]_vars => [R!Next]_(R!vars)
    <2> SUFFICES ASSUME IInv, [Next]_vars PROVE R!Next \/ UNCHANGED R!vars
      OBVIOUS
    <2>1. CASE Next
      BY <2>1, PlayRefines DEF Next
    <2>2. CASE UNCHANGED vars
      BY <2>2 DEF vars, R!vars
    <2>. QED
      BY <2>1, <2>2
  <1>. QED
    BY <1>1, <1>2, SafeSteps, PTL DEF RaceSpec, R!Spec

(* The engine, with the caller that trusts its list, implements Race with  *)
(* the gate: whole turns, at most one pawn struck although the search also *)
(* looks at pawns at home, and nothing after the win.                      *)
THEOREM ImplementsRace == Spec => RaceSpec
  BY RaceSteps, PTL DEF Spec

-----------------------------------------------------------------------------
(* The pygame window.  Nothing is needed of its flags and of the list of   *)
(* movable pawns, so the loop over the dice stays closed: only a click on  *)
(* a pawn moves one.                                                       *)

(* Every pawn has a position, and the overview names pawns. *)
ShapeOK ==
  /\ DOMAIN at = Player /\ \A c \in Player : DOMAIN at[c] = Pawn
  /\ DOMAIN kill = Player
  /\ \A sq \in DOMAIN board_overview : board_overview[sq] \in Player \X Pawn

(* Why a capture leaves nothing behind: on a safe square the struck pawn   *)
(* would go home and stay in the overview.                                 *)
SafeUnlisted == DOMAIN board_overview \cap SafeSquares = {}

PInv == ShapeOK /\ SafeUnlisted /\ OverviewTruthful /\ InnerNeedsKill

-----------------------------------------------------------------------------

(* What a click on a pawn leaves in the two records of who stands where.   *)
LEMMA ClickEffect ==
  ASSUME PInv, NEW p \in Player \X Pawn, PawnClick(p)
  PROVE  /\ at'[p[1]][p[2]] = NewIndex(p)
         /\ \A c \in Player, j \in Pawn : <<c, j>> # p =>
              at'[c][j] = at[c][j] \/ (at'[c][j] = 0 /\ c # p[1]
                 /\ \E sq \in DOMAIN board_overview :
                      sq = Paths[p[1]][NewIndex(p)] /\ board_overview[sq] = <<c, j>>)
         /\ \A sq \in DOMAIN board_overview' :
              \/ sq = Paths[p[1]][NewIndex(p)] /\ board_overview'[sq] = p /\ sq \notin SafeSquares
              \/ /\ sq \in DOMAIN board_overview /\ sq # Tup(p)
                 /\ board_overview'[sq] = board_overview[sq]
                 /\ sq # Paths[p[1]][NewIndex(p)] \/ sq \in SafeSquares
         /\ ShapeOK'
  <1> DEFINE new == Paths[p[1]][NewIndex(p)]
             struck == new \in DOMAIN Lifted(p) /\ Lifted(p)[new][1] # p[1]
             enemy == Lifted(p)[new]
             moved == [at EXCEPT ![p[1]][p[2]] = NewIndex(p)]
  <1>1. p[1] \in Player /\ p[2] \in Pawn /\ p = <<p[1], p[2]>>
    OBVIOUS
  <1>2. /\ at' = IF struck THEN [moved EXCEPT ![enemy[1]][enemy[2]] = 0] ELSE moved
        /\ kill' = [kill EXCEPT ![p[1]] = @ \/ struck]
        /\ board_overview' = IF new \in SafeSquares THEN Lifted(p)
                             ELSE [sq \in DOMAIN Lifted(p) \cup {new} |->
                                     IF sq = new THEN p ELSE Lifted(p)[sq]]
    BY DEF PawnClick
  <1>3. /\ DOMAIN Lifted(p) = DOMAIN board_overview \ {Tup(p)}
        /\ \A sq \in DOMAIN Lifted(p) : Lifted(p)[sq] = board_overview[sq]
    BY DEF Lifted
  <1>4. /\ DOMAIN moved = Player /\ \A c \in Player : DOMAIN moved[c] = Pawn
        /\ moved[p[1]][p[2]] = NewIndex(p)
        /\ \A c \in Player, j \in Pawn : <<c, j>> # p => moved[c][j] = at[c][j]
    BY <1>1 DEF PInv, ShapeOK
  <1>5. struck => /\ enemy[1] \in Player /\ enemy[2] \in Pawn /\ enemy[1] # p[1]
                  /\ new \in DOMAIN board_overview /\ board_overview[new] = enemy
                  /\ enemy = <<enemy[1], enemy[2]>>
    BY <1>3 DEF PInv, ShapeOK
  <1>6. /\ DOMAIN at' = Player /\ \A c \in Player : DOMAIN at'[c] = Pawn
        /\ at'[p[1]][p[2]] = NewIndex(p)
        /\ \A c \in Player, j \in Pawn : <<c, j>> # p =>
              at'[c][j] = at[c][j] \/ (at'[c][j] = 0 /\ c # p[1] /\ struck /\ enemy = <<c, j>>)
    <2> HIDE DEF moved, enemy, struck, new
    <2>1. CASE struck
      BY <1>1, <1>2, <1>4, <1>5, <2>1
    <2>2. CASE ~ struck
      BY <1>1, <1>2, <1>4, <2>2
    <2>. QED
      BY <2>1, <2>2
  <1>7. \A sq \in DOMAIN board_overview' :
              \/ sq = new /\ board_overview'[sq] = p /\ sq \notin SafeSquares
              \/ /\ sq \in DOMAIN Lifted(p) /\ board_overview'[sq] = Lifted(p)[sq]
                 /\ sq # new \/ sq \in SafeSquares
    <2> HIDE DEF new
    <2>1. CASE new \in SafeSquares
      BY <1>2, <2>1
    <2>2. CASE new \notin SafeSquares
      BY <1>2, <2>2
    <2>. QED
      BY <2>1, <2>2
  <1>8. DOMAIN kill' = Player
    BY <1>2 DEF PInv, ShapeOK
  <1>9. \A sq \in DOMAIN board_overview' : board_overview'[sq] \in Player \X Pawn
    BY <1>3, <1>7 DEF PInv, ShapeOK
  <1>10. ShapeOK'
    BY <1>6, <1>8, <1>9 DEF ShapeOK
  <1>. QED
    BY <1>3, <1>5, <1>6, <1>7, <1>10

(* The overview follows the pawn that moved and forgets the one sent home: *)
(* by truthfulness that one is named at the square of the capture only,    *)
(* and the mover has just taken that square over.                          *)
LEMMA ClickTruthful ==
  ASSUME PInv, NEW p \in Player \X Pawn, PawnClick(p)
  PROVE  SafeUnlisted' /\ OverviewTruthful'
  <1> DEFINE new == Paths[p[1]][NewIndex(p)]
  <1>1. SafeUnlisted'
    BY ClickEffect DEF PInv, SafeUnlisted
  <1>2. ASSUME NEW sq \in DOMAIN board_overview'
        PROVE  Paths[board_overview'[sq][1]][at'[board_overview'[sq][1]][board_overview'[sq][2]]] = sq
    <2>1. CASE sq = new /\ board_overview'[sq] = p
      BY <2>1, ClickEffect
    <2>2. CASE /\ sq \in DOMAIN board_overview /\ sq # Tup(p)
               /\ board_overview'[sq] = board_overview[sq]
               /\ sq # new \/ sq \in SafeSquares
      <3> DEFINE v == board_overview[sq]
      <3>1. v \in Player \X Pawn /\ Tup(v) = sq
        BY <2>2 DEF PInv, ShapeOK, OverviewTruthful
      <3>2. v[1] \in Player /\ v[2] \in Pawn /\ v = <<v[1], v[2]>> /\ v # p
        BY <2>2, <3>1
      <3>3. sq # new
        BY <2>2 DEF PInv, SafeUnlisted
      <3>4. at'[v[1]][v[2]] = at[v[1]][v[2]]
        <4>1. SUFFICES ASSUME NEW s \in DOMAIN board_overview, s = new, board_overview[s] = v
                       PROVE  FALSE
          BY <3>2, ClickEffect
        <4>2. Tup(v) = s
          BY <4>1 DEF PInv, OverviewTruthful
        <4>. QED
          BY <3>1, <3>3, <4>1, <4>2
      <3>. QED
        BY <2>2, <3>1, <3>4 DEF Tup
    <2>. QED
      BY <2>1, <2>2, ClickEffect
  <1>. QED
    BY <1>1, <1>2 DEF OverviewTruthful, Tup

(* A pawn passes LastOuter with the flag of its own color, whoever's list  *)
(* it was on.                                                              *)
LEMMA ClickInner ==
  ASSUME PInv, NEW p \in Player \X Pawn, PawnClick(p)
  PROVE  InnerNeedsKill'
  <1>1. p[1] \in Player /\ p[2] \in Pawn /\ p = <<p[1], p[2]>>
    OBVIOUS
  <1>2. \A c \in Player : kill[c] => kill'[c]
    BY <1>1 DEF PawnClick, PInv, ShapeOK
  <1>3. ~ (0 > LastOuter)
    BY PygameAssumption DEF PathIndex
  <1>4. NewIndex(p) > LastOuter => kill[p[1]]
    BY <1>1 DEF NewIndex, MoveIndex, PInv, InnerNeedsKill
  <1> SUFFICES ASSUME NEW c \in Player, NEW j \in Pawn, at'[c][j] > LastOuter
               PROVE  kill'[c]
    BY DEF InnerNeedsKill
  <1>5. CASE <<c, j>> = p
    BY <1>1, <1>2, <1>4, <1>5, ClickEffect
  <1>6. CASE <<c, j>> # p
    <2>1. at'[c][j] = at[c][j]
      BY <1>3, <1>6, ClickEffect
    <2>. QED
      BY <1>2, <2>1 DEF PInv, InnerNeedsKill
  <1>. QED
    BY <1>5, <1>6

-----------------------------------------------------------------------------

(* PInv holds in every state: the turn, the dice and the other clicks      *)
(* change no pawn.                                                         *)
THEOREM PygameInvariance == PygameSpec => []PInv
  <1>1. PygameInit => PInv
    <2> SUFFICES ASSUME PygameInit PROVE PInv
      OBVIOUS
    <2>1. ShapeOK /\ SafeUnlisted /\ OverviewTruthful
      BY DEF PygameInit, ShapeOK, SafeUnlisted, OverviewTruthful
    <2>2. InnerNeedsKill
      BY PygameAssumption DEF PygameInit, InnerNeedsKill, PathIndex
    <2>. QED
      BY <2>1, <2>2 DEF PInv
  <1>2. PInv /\ [PygameNext]_pygameVars => PInv'
    <2> SUFFICES ASSUME PInv, [PygameNext]_pygameVars PROVE PInv'
      OBVIOUS
    <2>1. ASSUME UNCHANGED pawnVars PROVE PInv'
      BY <2>1 DEF pawnVars, PInv, ShapeOK, SafeUnlisted, OverviewTruthful, InnerNeedsKill, Tup
    <2>2. CASE PassTurn \/ OtherClick \/ \E n \in RollValues : RollClick(n)
      BY <2>1, <2>2 DEF PassTurn, OtherClick, RollClick
    <2>3. CASE \E p \in Player \X Pawn : PawnClick(p)
      BY <2>3, ClickEffect, ClickTruthful, ClickInner DEF PInv
    <2>4. CASE UNCHANGED pygameVars
      BY <2>1, <2>4 DEF pygameVars, pawnVars
    <2>. QED
      BY <2>2, <2>3, <2>4 DEF PygameNext
  <1>. QED
    BY <1>1, <1>2, PTL DEF PygameSpec

(* No square of board_overview names a pawn that stands elsewhere, so the  *)
(* pawn sent home is always one that was met, in helper.py's checkEnemy.   *)
THEOREM OverviewStaysTruthful == PygameSpec => []OverviewTruthful
  BY PygameInvariance, PTL DEF PInv

(* No pawn is beyond LastOuter before its color has captured, although     *)
(* possibleMoves() asked for the player on turn.                           *)
THEOREM InnerPathIsEarned == PygameSpec => []InnerNeedsKill
  BY PygameInvariance, PTL DEF PInv


-----------------------------------------------------------------------------
(* The real board.                                                         *)

(* A behaviour there is a behaviour of the engine and one of the window.   *)
LEMMA ProgramsFollowed == RealSpec => (Init /\ [][Next]_vars) /\ PygameSpec
  <1>1. RealInit => Init /\ PygameInit
    BY DEF RealInit
  <1>2. [EngineStep \/ PygameStep]_<<followed, vars, pygameVars>> => [Next]_vars
    BY DEF EngineStep, PygameStep
  <1>3. [EngineStep \/ PygameStep]_<<followed, vars, pygameVars>> => [PygameNext]_pygameVars
    BY DEF EngineStep, PygameStep
  <1>. QED
    BY <1>1, <1>2, <1>3, PTL DEF RealSpec, PygameSpec

(* OuterUntilKill: with the tables of board.py the gate, an index in       *)
(* engine.py, keeps every player without a capture out of the inner        *)
(* squares, whatever the number of players and pawns.                      *)
THEOREM OuterSquaresUntilKill == RealSpec => []OuterUntilKill
  <1>1. IInv => OuterUntilKill
    <2> SUFFICES ASSUME IInv, NEW p \in Player, NEW j \in Pawn, ~ kills_made[p]
                 PROVE  ~ Inner(Paths[p][pawns[p][j]])
      BY DEF OuterUntilKill
    <2> DEFINE i == pawns[p][j]
    <2>1. i \in 0 .. WIN_PATH_INDEX /\ ~ (i > 24)
      BY RealBoardAssumption DEF IInv, TypeOK, GateHolds, PathIndex
    <2>2. p \in 0 .. 3 /\ Paths = PATHS
      BY RealBoardAssumption
    <2> HIDE DEF i
    <2>3. ~ Inner(PATHS[p][i])
      BY <2>1, <2>2, TablesAssumption
    <2>. QED
      BY <2>2, <2>3 DEF i
  <1>. QED
    BY <1>1, ProgramsFollowed, SafeSteps, PTL

(* What is played on the real board: the engine implements Race and keeps  *)
(* to the outer squares until a capture, and the window's overview stays   *)
(* truthful and its inner path earned.                                     *)
THEOREM RealBoardSafe ==
  RealSpec => RaceSpec /\ [](OuterUntilKill /\ OverviewTruthful /\ InnerNeedsKill)
  <1>1. RealSpec => RaceSpec
    BY ProgramsFollowed, RaceSteps, PTL
  <1>2. RealSpec => [](OverviewTruthful /\ InnerNeedsKill)
    BY ProgramsFollowed, OverviewStaysTruthful, InnerPathIsEarned, PTL
  <1>. QED
    BY <1>1, <1>2, OuterSquaresUntilKill, PTL

=============================================================================
