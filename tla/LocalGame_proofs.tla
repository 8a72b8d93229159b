-------------------------- MODULE LocalGame_proofs --------------------------
(***************************************************************************)
(* Proofs about the game in the browser.  The engine's functions keep the  *)
(* state sound (Good); what a timer or a click has queued in one rendered  *)
(* state is still right in the state it is applied to (Fits).              *)
(***************************************************************************)
EXTENDS LocalGame, FiniteSetTheorems, TLAPS

-----------------------------------------------------------------------------
(* The inductive invariant.                                                *)

OnPath(g, v) == g.pawns[v[1]][v[2]] \in 0 .. PathLength

Square(g, v) == Paths[v[1]][g.pawns[v[1]][v[2]]]

(* The pawns of a player that have left the board.                         *)
Home(g, p) == {j \in Pawn : g.pawns[p][j] = PathLength + 1}

(* OneOwner, of a state. *)
Owned(g) ==
  \A p, q \in Player : \A j, k \in Pawn :
    /\ OnPath(g, <<p, j>>) /\ OnPath(g, <<q, k>>)
    /\ Square(g, <<p, j>>) = Square(g, <<q, k>>) /\ Square(g, <<p, j>>) \notin SafeSquares
    => p = q

(* MovingHasMove, of a state. *)
Movable(g) ==
  g.phase = "moving" =>
    /\ ValidMoves(g) # {}
    /\ g.selected # None => \E m \in ValidMoves(g) : m.pawn = g.selected

(* FinishedCounted, of a state. *)
Counted(g) ==
  /\ \A p \in Player : g.finished[p] = Cardinality(Home(g, p))
  /\ \A p \in Player : g.finished[p] = PawnsPerPlayer <=> g.phase = "gameover" /\ g.winner = p
  /\ g.phase = "gameover" => g.winner = g.current

Good(g) == g \in GameState /\ Owned(g) /\ Movable(g) /\ Counted(g)

(* What an AI player's timer does in the state it was set in.              *)
Fits(u, g) ==
  \/ u = None
  \/ IsAI(g.current) /\ g.phase = "rolling" /\ u = [kind |-> "roll"]
  \/ IsAI(g.current) /\ g.phase = "moving" /\ \E m \in ValidMoves(g) : u = MoveUpdate(m)

(* React has rendered the state every waiting update was made for.         *)
GameInv == Good(game) /\ Fits(timer, game) /\ Fits(pending, game)

-----------------------------------------------------------------------------
(* Moves.                                                                  *)

(* What the assumption says of the constants, in the form the proofs use.  *)
LEMMA Numbers ==
  /\ NumPlayers \in Nat /\ NumPlayers > 1 /\ Player = 0 .. NumPlayers - 1 /\ 0 \in Player
  /\ PawnsPerPlayer \in Nat /\ PawnsPerPlayer > 0 /\ Pawn = 0 .. PawnsPerPlayer - 1
  /\ MaxConsecutiveGraces \in Nat /\ MaxConsecutiveGraces > 0
  /\ PathLength \in Nat /\ PathLength > 0 /\ PathIndex = -1 .. PathLength + 1
  /\ RollValues \subseteq Nat \ {0}
  /\ None \notin RollValues /\ None \notin Player /\ None \notin Player \X Pawn
BY LocalGameAssumption DEF LocalGameAssumption, Player, Pawn, PathIndex

(* There are finitely many pawns to look for.                              *)
LEMMA PawnsFinite ==
  /\ IsFiniteSet(Pawn) /\ Cardinality(Pawn) = PawnsPerPlayer
  /\ IsFiniteSet(Player \X Pawn)
<1>1. IsFiniteSet(Pawn) /\ IsFiniteSet(Player)
  BY Numbers, FS_Interval
<1>2. Cardinality(Pawn) = PawnsPerPlayer
  BY Numbers, FS_Interval
<1>3. IsFiniteSet(Player \X Pawn)
  BY <1>1, FS_Product
<1> QED BY <1>1, <1>2, <1>3

(* A valid move: by a pawn of the player on turn that has not left the     *)
(* board, to a square of its path that no pair of enemies blocks.          *)
LEMMA ValidMove ==
  ASSUME NEW g \in GameState, NEW m \in ValidMoves(g)
  PROVE  \E j \in Pawn :
           /\ m = [pawn |-> <<g.current, j>>, target |-> m.target]
           /\ m.pawn = <<g.current, j>> /\ m.target \in 0 .. PathLength
           /\ g.pawns[g.current][j] \in -1 .. PathLength
           /\ g.dice \in RollValues
           /\ Cardinality(EnemiesOn(g, Paths[g.current][m.target])) < 2
<1>1. /\ g.current \in Player /\ g.dice \in RollValues \cup {None}
      /\ \A j \in Pawn : g.pawns[g.current][j] \in PathIndex
  BY DEF GameState
<1>2. g.dice # None
  BY DEF ValidMoves
<1>3. PICK j \in Pawn : /\ CanMove(g, j)
                        /\ m = [pawn |-> <<g.current, j>>,
                                target |-> Target(g.pawns[g.current][j], g.dice)]
  BY <1>2 DEF ValidMoves
<1> DEFINE i == g.pawns[g.current][j]
<1>4. /\ i \in PathIndex /\ i <= PathLength /\ g.dice \in Nat \ {0}
      /\ Target(i, g.dice) <= PathLength
      /\ Cardinality(EnemiesOn(g, Paths[g.current][Target(i, g.dice)])) < 2
  BY <1>1, <1>2, <1>3, Numbers DEF CanMove
<1>5. i \in -1 .. PathLength /\ Target(i, g.dice) \in 0 .. PathLength
  BY <1>4, Numbers DEF Target
<1>6. m.pawn = <<g.current, j>> /\ m.target = Target(i, g.dice)
  BY <1>3
<1> QED BY <1>1, <1>2, <1>3, <1>4, <1>5, <1>6

(* advanceTurn changes only whose turn it is, the phase and the count of   *)
(* graces.                                                                 *)
LEMMA TurnPasses ==
  ASSUME NEW g \in GameState
  PROVE  /\ AdvanceTurn(g) \in GameState
         /\ AdvanceTurn(g).phase = "rolling"
         /\ AdvanceTurn(g).pawns = g.pawns /\ AdvanceTurn(g).finished = g.finished
         /\ AdvanceTurn(g).winner = g.winner
<1>1. (g.current + 1) % NumPlayers \in Player
  <2>1. g.current \in Nat
    BY Numbers DEF GameState
  <2> QED BY <2>1, Numbers
<1> HIDE DEF Player
<1> DEFINE n == (g.current + 1) % NumPlayers
<1> HIDE DEF n
<1>2. AdvanceTurn(g) = [g EXCEPT !.current = n, !.phase = "rolling",
                                 !.dice = None, !.selected = None]
  BY DEF AdvanceTurn, n
<1>3. n \in Player
  BY <1>1 DEF n
<1> QED BY <1>2, <1>3 DEF GameState

(* Owned and Counted speak of the pawns, the counts and the end only.      *)
LEMMA SamePawns ==
  ASSUME NEW g, NEW h, Owned(g), h.pawns = g.pawns
  PROVE  Owned(h) /\ \A p \in Player : Home(h, p) = Home(g, p)
<1>1. \A v : (OnPath(h, v) <=> OnPath(g, v)) /\ Square(h, v) = Square(g, v)
  BY DEF OnPath, Square
<1>2. Owned(h)
  BY <1>1 DEF Owned
<1> QED BY <1>2 DEF Home

(* performRoll keeps the state sound and moves no pawn.                    *)
LEMMA RollKeeps ==
  ASSUME NEW g, Good(g), g.phase = "rolling", NEW roll \in RollValues
  PROVE  Good(PerformRoll(g, roll)) /\ PerformRoll(g, roll).pawns = g.pawns
<1> DEFINE next == [g EXCEPT !.dice = roll, !.phase = "moving", !.selected = None]
           moves == ValidMoves(next)
           h == PerformRoll(g, roll)
<1>1. g \in GameState /\ Owned(g) /\ Counted(g)
  BY DEF Good
<1>2. /\ next \in GameState /\ next.pawns = g.pawns /\ next.finished = g.finished
      /\ next.phase = "moving" /\ next.selected = None /\ next.winner = g.winner
  BY <1>1 DEF GameState
<1>3. h = IF moves = {} THEN AdvanceTurn([next EXCEPT !.graces = 0])
          ELSE IF Cardinality(moves) = 1
            THEN [next EXCEPT !.selected = (CHOOSE m \in moves : TRUE).pawn]
            ELSE next
  BY DEF PerformRoll
<1> HIDE DEF next, h
<1>4. /\ h \in GameState /\ h.pawns = g.pawns /\ h.finished = g.finished /\ h.phase # "gameover"
      /\ Movable(h)
  <2>1. CASE moves = {}
    <3> DEFINE reset == [next EXCEPT !.graces = 0]
    <3>1. reset \in GameState /\ reset.pawns = g.pawns /\ reset.finished = g.finished
      <4>1. 0 \in 0 .. MaxConsecutiveGraces - 1
        BY Numbers
      <4> QED BY <1>2, <4>1 DEF GameState
    <3>2. h = AdvanceTurn(reset)
      BY <2>1, <1>3
    <3> HIDE DEF reset
    <3> QED BY <3>1, <3>2, TurnPasses DEF Movable
  <2>2. CASE moves # {} /\ Cardinality(moves) = 1
    <3> DEFINE c == CHOOSE m \in moves : TRUE
               s == c.pawn
    <3>1. c \in moves
      BY <2>2
    <3>2. s \in Player \X Pawn
      <4>1. next.current \in Player
        BY <1>2 DEF GameState
      <4> QED BY <3>1, <4>1, <1>2, ValidMove
    <3>3. h = [next EXCEPT !.selected = s]
      BY <2>2, <1>3
    <3> HIDE DEF c, s, moves
    <3>4. /\ h \in GameState /\ h.pawns = g.pawns /\ h.finished = g.finished
          /\ h.phase = "moving" /\ h.selected = s
          /\ h.current = next.current /\ h.dice = next.dice /\ h.pawns = next.pawns
      BY <3>2, <3>3, <1>2 DEF GameState
    <3>5. ValidMoves(h) = moves
      BY <3>4 DEF ValidMoves, CanMove, EnemiesOn, moves
    <3> QED BY <3>1, <3>4, <3>5, <2>2 DEF Movable, s
  <2>3. CASE moves # {} /\ Cardinality(moves) # 1
    BY <2>3, <1>2, <1>3 DEF Movable
  <2> QED BY <2>1, <2>2, <2>3
<1>5. Owned(h) /\ \A p \in Player : Home(h, p) = Home(g, p)
  BY <1>1, <1>4, SamePawns
<1>6. Counted(h)
  BY <1>1, <1>4, <1>5 DEF Counted
<1> QED BY <1>4, <1>5, <1>6 DEF Good, h

(* The choice of a pawn that can move keeps the state sound.               *)
LEMMA SelectKeeps ==
  ASSUME NEW g, Good(g), g.phase = "moving", NEW m \in ValidMoves(g)
  PROVE  /\ Good([g EXCEPT !.selected = m.pawn])
         /\ [g EXCEPT !.selected = m.pawn].pawns = g.pawns
<1> DEFINE s == m.pawn
           h == [g EXCEPT !.selected = s]
<1>1. g \in GameState /\ Owned(g) /\ Counted(g)
  BY DEF Good
<1>2. s \in Player \X Pawn
  <2>1. g.current \in Player
    BY <1>1 DEF GameState
  <2> QED BY <2>1, <1>1, ValidMove
<1> HIDE DEF s
<1>3. /\ h \in GameState /\ h.pawns = g.pawns /\ h.finished = g.finished
      /\ h.phase = "moving" /\ h.selected = s /\ h.current = g.current /\ h.dice = g.dice
  BY <1>1, <1>2 DEF GameState
<1> HIDE DEF h
<1>4. ValidMoves(h) = ValidMoves(g)
  BY <1>3 DEF ValidMoves, CanMove, EnemiesOn
<1>5. Movable(h)
  BY <1>3, <1>4 DEF Movable, s
<1>6. Owned(h) /\ \A p \in Player : Home(h, p) = Home(g, p)
  BY <1>1, <1>3, SamePawns
<1>7. Counted(h)
  BY <1>1, <1>3, <1>6 DEF Counted
<1> QED BY <1>3, <1>5, <1>6, <1>7 DEF Good, h, s

-----------------------------------------------------------------------------
(* executeMove.                                                            *)

(* The pawns after a valid move: it takes the mover out of the pawns that  *)
(* have not left the board only at the centre, and no other pawn.          *)
LEMMA PawnsAfterMove ==
  ASSUME NEW g, Good(g), NEW m \in ValidMoves(g), NEW h, h.pawns = PawnsAfter(g, m.pawn, m.target)
  PROVE  /\ h.pawns \in [Player -> [Pawn -> PathIndex]]
         /\ Owned(h)
         /\ \A p \in Player : p # g.current => Home(h, p) = Home(g, p)
         /\ m.target # PathLength => Home(h, g.current) = Home(g, g.current)
         /\ m.target = PathLength =>
              \E j \in Pawn \ Home(g, g.current) : Home(h, g.current) = Home(g, g.current) \cup {j}
<1> DEFINE p == g.current
           t == m.target
           final == IF t = PathLength THEN PathLength + 1 ELSE t
           sq == Paths[p][t]
           captured == Captured(g, sq)
<1>1. g \in GameState /\ Owned(g) /\ p \in Player
      /\ \A q \in Player, k \in Pawn : g.pawns[q][k] \in PathIndex
  BY DEF Good, GameState
<1>2. PICK j \in Pawn : /\ m.pawn = <<p, j>> /\ t \in 0 .. PathLength
                        /\ g.pawns[p][j] \in -1 .. PathLength
                        /\ Cardinality(EnemiesOn(g, sq)) < 2
  BY <1>1, ValidMove
<1>3. /\ captured \subseteq EnemiesOn(g, sq) /\ (sq \in SafeSquares => captured = {})
      /\ \A v \in EnemiesOn(g, sq) : /\ v \in Player \X Pawn /\ v[1] # p
                                     /\ g.pawns[v[1]][v[2]] \in 0 .. PathLength
  BY DEF Captured, EnemiesOn
<1>4. h.pawns = [q \in Player |-> [k \in Pawn |->
                   IF <<q, k>> = <<p, j>> THEN final
                   ELSE IF <<q, k>> \in captured THEN -1 ELSE g.pawns[q][k]]]
  BY <1>2 DEF PawnsAfter
<1> HIDE DEF p, t, final, sq, captured
<1>5. ASSUME NEW q \in Player, NEW k \in Pawn
      PROVE  h.pawns[q][k] = IF <<q, k>> = <<p, j>> THEN final
                             ELSE IF <<q, k>> \in captured THEN -1 ELSE g.pawns[q][k]
  BY <1>4
<1>6. /\ t \in 0 .. PathLength /\ final \in 0 .. PathLength + 1
      /\ (t # PathLength => final = t) /\ (t = PathLength => final = PathLength + 1)
      /\ -1 \in PathIndex /\ final \in PathIndex /\ -1 # PathLength + 1
  BY <1>2, Numbers DEF final
<1>7. h.pawns \in [Player -> [Pawn -> PathIndex]]
  BY <1>1, <1>4, <1>6
<1>8. ASSUME NEW q \in Player, NEW k \in Pawn, <<q, k>> # <<p, j>>
      PROVE  h.pawns[q][k] = PathLength + 1 <=> g.pawns[q][k] = PathLength + 1
  <2>1. CASE <<q, k>> \in captured
    <3>1. g.pawns[q][k] \in 0 .. PathLength
      BY <2>1, <1>3
    <3> QED BY <3>1, <2>1, <1>5, <1>6, <1>8, Numbers
  <2>2. CASE <<q, k>> \notin captured
    BY <2>2, <1>5, <1>8
  <2> QED BY <2>1, <2>2
<1>9. /\ h.pawns[p][j] = final /\ g.pawns[p][j] # PathLength + 1
  BY <1>1, <1>2, <1>5, Numbers
<1>10. \A q \in Player : q # p => Home(h, q) = Home(g, q)
  BY <1>8 DEF Home
<1>11. ASSUME t # PathLength PROVE Home(h, p) = Home(g, p)
  <2>1. final # PathLength + 1
    BY <1>6, <1>11, Numbers
  <2>2. \A k \in Pawn : h.pawns[p][k] = PathLength + 1 <=> g.pawns[p][k] = PathLength + 1
    BY <2>1, <1>1, <1>8, <1>9
  <2> QED BY <2>2 DEF Home
<1>12. ASSUME t = PathLength
       PROVE  j \in Pawn \ Home(g, p) /\ Home(h, p) = Home(g, p) \cup {j}
  <2>1. \A k \in Pawn : h.pawns[p][k] = PathLength + 1
                          <=> g.pawns[p][k] = PathLength + 1 \/ k = j
    BY <1>1, <1>6, <1>8, <1>9, <1>12
  <2> QED BY <2>1, <1>9 DEF Home
<1>13. ASSUME NEW q \in Player, NEW k \in Pawn, OnPath(h, <<q, k>>),
              Square(h, <<q, k>>) = sq, sq \notin SafeSquares
       PROVE  q = p
  <2> SUFFICES ASSUME q # p PROVE FALSE
    OBVIOUS
  <2> DEFINE v == <<q, k>>
  <2>1. h.pawns[q][k] \in 0 .. PathLength /\ Paths[q][h.pawns[q][k]] = sq /\ v # <<p, j>>
    BY <1>13 DEF OnPath, Square
  <2>2. v \notin captured /\ h.pawns[q][k] = g.pawns[q][k]
    BY <2>1, <1>5, Numbers
  <2>3. v \in EnemiesOn(g, sq)
    BY <2>1, <2>2 DEF EnemiesOn, p
  <2>4. PICK w \in EnemiesOn(g, sq) : w # v
    BY <2>2, <2>3, <1>13 DEF Captured, captured
  <2>5. IsFiniteSet(EnemiesOn(g, sq))
    BY <1>3, PawnsFinite, FS_Subset
  <2> HIDE DEF v
  <2>6. Cardinality({v, w}) = 2 /\ {v, w} \subseteq EnemiesOn(g, sq)
    <3>1. IsFiniteSet({w}) /\ Cardinality({w}) = 1
      BY FS_Singleton
    <3> DEFINE S == {w}
    <3> HIDE DEF S
    <3>2. v \notin S /\ IsFiniteSet(S) /\ Cardinality(S) = 1
      BY <3>1, <2>4 DEF S
    <3>3. Cardinality(S \cup {v}) = Cardinality(S) + 1
      BY <3>2, FS_AddElement
    <3>4. S \cup {v} = {v, w}
      BY DEF S
    <3> QED BY <3>2, <3>3, <3>4, <2>3
  <2>7. Cardinality({v, w}) <= Cardinality(EnemiesOn(g, sq)) /\ Cardinality(EnemiesOn(g, sq)) \in Nat
    BY <2>5, <2>6, FS_Subset, FS_CardinalityType
  <2> QED BY <2>6, <2>7, <1>2
<1>14. ASSUME NEW q \in Player, NEW r \in Player, NEW k \in Pawn, NEW l \in Pawn,
              OnPath(h, <<q, k>>), OnPath(h, <<r, l>>),
              Square(h, <<q, k>>) = Square(h, <<r, l>>), Square(h, <<q, k>>) \notin SafeSquares
       PROVE  q = r
  <2>1. /\ h.pawns[q][k] \in 0 .. PathLength /\ h.pawns[r][l] \in 0 .. PathLength
        /\ Square(h, <<q, k>>) = Paths[q][h.pawns[q][k]]
        /\ Square(h, <<r, l>>) = Paths[r][h.pawns[r][l]]
    BY <1>14 DEF OnPath, Square
  <2>2. h.pawns[p][j] \in 0 .. PathLength => Square(h, <<p, j>>) = sq
    BY <1>6, <1>9, Numbers DEF Square, sq
  <2>3. CASE <<q, k>> = <<p, j>>
    BY <2>1, <2>2, <2>3, <1>13, <1>14
  <2>4. CASE <<r, l>> = <<p, j>>
    BY <2>1, <2>2, <2>4, <1>13, <1>14
  <2>5. CASE <<q, k>> # <<p, j>> /\ <<r, l>> # <<p, j>>
    <3>1. h.pawns[q][k] = g.pawns[q][k] /\ h.pawns[r][l] = g.pawns[r][l]
      BY <2>1, <2>5, <1>5, Numbers
    <3>2. /\ OnPath(g, <<q, k>>) /\ OnPath(g, <<r, l>>)
          /\ Square(g, <<q, k>>) = Square(g, <<r, l>>) /\ Square(g, <<q, k>>) \notin SafeSquares
      BY <3>1, <1>14 DEF OnPath, Square
    <3> QED BY <3>2, <1>1 DEF Owned
  <2> QED BY <2>3, <2>4, <2>5
<1>15. Owned(h)
  BY <1>14 DEF Owned
<1> QED BY <1>7, <1>10, <1>11, <1>12, <1>15 DEF p, t

(* executeMove of a valid move keeps the state sound, changes the pawns by *)
(* that move, and ends the phase.                                          *)
LEMMA MoveKeeps ==
  ASSUME NEW g, Good(g), g.phase = "moving", NEW m \in ValidMoves(g)
  PROVE  /\ Good(ExecuteMove(g, m.pawn, m.target))
         /\ ExecuteMove(g, m.pawn, m.target).pawns = PawnsAfter(g, m.pawn, m.target)
         /\ ExecuteMove(g, m.pawn, m.target).phase # "moving"
<1> DEFINE p == g.current
           pawns == PawnsAfter(g, m.pawn, m.target)
           home == m.target = PathLength
           n == IF home THEN g.finished[p] + 1 ELSE g.finished[p]
           done == [g EXCEPT !.pawns = pawns,
                             !.finished[p] = IF m.target = PathLength THEN @ + 1 ELSE @,
                             !.dice = None, !.selected = None]
           extra == /\ \/ g.dice \in GraceValues
                       \/ Captured(g, Paths[p][m.target]) # {}
                    /\ g.graces + 1 < MaxConsecutiveGraces
           h == ExecuteMove(g, m.pawn, m.target)
<1>1. g \in GameState /\ Owned(g) /\ Counted(g) /\ p \in Player
  BY DEF Good, GameState
<1>2. m.pawn[1] = p
  BY <1>1, ValidMove
<1>3. h = IF home /\ done.finished[p] = PawnsPerPlayer
            THEN [done EXCEPT !.phase = "gameover", !.winner = p, !.graces = 0]
          ELSE IF extra THEN [done EXCEPT !.phase = "rolling", !.graces = @ + 1]
          ELSE AdvanceTurn([done EXCEPT !.graces = 0])
  BY <1>2 DEF ExecuteMove
<1>4. /\ done.pawns = pawns
      /\ done.pawns \in [Player -> [Pawn -> PathIndex]] /\ Owned(done)
      /\ \A q \in Player : q # p => Home(done, q) = Home(g, q)
      /\ ~ home => Home(done, p) = Home(g, p)
      /\ home => \E j \in Pawn \ Home(g, p) : Home(done, p) = Home(g, p) \cup {j}
  <2>1. done.pawns = pawns
    BY <1>1 DEF GameState
  <2> HIDE DEF done
  <2> QED BY <2>1, PawnsAfterMove
<1>5. /\ done.finished = [g.finished EXCEPT ![p] = n]
      /\ done.phase = "moving" /\ done.winner = g.winner /\ done.current = p
      /\ done.graces = g.graces /\ done.dice = None /\ done.selected = None
  BY <1>1 DEF GameState
<1>6. /\ g.finished \in [Player -> 0 .. PawnsPerPlayer]
      /\ \A q \in Player : g.finished[q] = Cardinality(Home(g, q)) /\ g.finished[q] # PawnsPerPlayer
  BY <1>1 DEF Counted, GameState
<1>7. /\ n \in 0 .. PawnsPerPlayer /\ n = Cardinality(Home(done, p))
      /\ ~ home => n # PawnsPerPlayer
  <2>1. Home(g, p) \subseteq Pawn /\ Home(done, p) \subseteq Pawn
    BY DEF Home
  <2>2. /\ IsFiniteSet(Home(g, p))
        /\ Cardinality(Home(done, p)) \in Nat /\ Cardinality(Home(done, p)) <= PawnsPerPlayer
    BY <2>1, PawnsFinite, FS_Subset, FS_CardinalityType
  <2> HIDE DEF done
  <2>3. CASE home
    <3>1. PICK j \in Pawn \ Home(g, p) : Home(done, p) = Home(g, p) \cup {j}
      BY <1>4, <2>3
    <3>2. Cardinality(Home(done, p)) = Cardinality(Home(g, p)) + 1
      BY <3>1, <2>2, FS_AddElement
    <3>3. n = g.finished[p] + 1
      BY <2>3
    <3> HIDE DEF n, home
    <3>4. g.finished[p] = Cardinality(Home(g, p)) /\ g.finished[p] \in 0 .. PawnsPerPlayer
      BY <1>1, <1>6
    <3> QED BY <3>2, <3>3, <3>4, <2>2, <2>3, Numbers
  <2>4. CASE ~ home
    <3>1. n = g.finished[p]
      BY <2>4
    <3> HIDE DEF n
    <3> QED BY <3>1, <2>4, <1>1, <1>4, <1>6
  <2> QED BY <2>3, <2>4
<1>8. done \in GameState
  <2> HIDE DEF n, pawns
  <2>1. [g.finished EXCEPT ![p] = n] \in [Player -> 0 .. PawnsPerPlayer]
    BY <1>6, <1>7
  <2>2. done = [g EXCEPT !.pawns = pawns, !.finished = [g.finished EXCEPT ![p] = n],
                         !.dice = None, !.selected = None]
    BY <1>1 DEF n, GameState
  <2>3. pawns \in [Player -> [Pawn -> PathIndex]]
    BY <1>4
  <2> HIDE DEF done
  <2> QED BY <2>1, <2>2, <2>3, <1>1 DEF GameState
<1> HIDE DEF done, extra, h, n, home, p
<1>9. ASSUME NEW f, f \in GameState, f.pawns = done.pawns, f.finished = done.finished,
             f.phase # "moving",
             f.phase = "gameover" <=> n = PawnsPerPlayer,
             f.phase = "gameover" => f.winner = p /\ f.current = p
      PROVE  Good(f)
  <2>1. Owned(f) /\ \A q \in Player : Home(f, q) = Home(done, q)
    BY <1>4, <1>9, SamePawns
  <2>2. /\ \A q \in Player : f.finished[q] = IF q = p THEN n ELSE g.finished[q]
    BY <1>5, <1>6, <1>9
  <2>3. Counted(f)
    <3>1. ASSUME NEW q \in Player PROVE f.finished[q] = Cardinality(Home(f, q))
      BY <2>1, <2>2, <1>4, <1>6, <1>7
    <3>2. ASSUME NEW q \in Player
          PROVE  f.finished[q] = PawnsPerPlayer <=> f.phase = "gameover" /\ f.winner = q
      BY <2>2, <1>6, <1>9
    <3> QED BY <3>1, <3>2, <1>9 DEF Counted
  <2> QED BY <2>1, <2>3, <1>9 DEF Good, Movable
<1>10. done.finished[p] = n
  BY <1>1, <1>5, <1>6
<1>11. CASE home /\ n = PawnsPerPlayer
  <2>1. h = [done EXCEPT !.phase = "gameover", !.winner = p, !.graces = 0]
    BY <1>3, <1>10, <1>11
  <2>2. 0 \in 0 .. MaxConsecutiveGraces - 1
    BY Numbers
  <2>3. /\ h \in GameState /\ h.pawns = done.pawns /\ h.finished = done.finished
        /\ h.phase = "gameover" /\ h.winner = p /\ h.current = p
    BY <2>1, <2>2, <1>1, <1>5, <1>8 DEF GameState
  <2>4. Good(h)
    BY <2>3, <1>9, <1>11
  <2> QED BY <2>3, <2>4, <1>4 DEF h
<1>12. CASE ~ (home /\ n = PawnsPerPlayer)
  <2>1. n # PawnsPerPlayer
    BY <1>7, <1>12
  <2>2. CASE extra
    <3>1. h = [done EXCEPT !.phase = "rolling", !.graces = @ + 1]
      BY <2>2, <1>3, <1>10, <1>12
    <3>2. g.graces + 1 \in 0 .. MaxConsecutiveGraces - 1
      <4>1. g.graces \in 0 .. MaxConsecutiveGraces - 1
        BY <1>1 DEF GameState
      <4> QED BY <4>1, <2>2, Numbers DEF extra
    <3>3. /\ h \in GameState /\ h.pawns = done.pawns /\ h.finished = done.finished
          /\ h.phase = "rolling"
      BY <3>1, <3>2, <1>5, <1>8 DEF GameState
    <3>4. Good(h)
      BY <3>3, <2>1, <1>9
    <3> QED BY <3>3, <3>4, <1>4 DEF h
  <2>3. CASE ~ extra
    <3> DEFINE reset == [done EXCEPT !.graces = 0]
    <3>1. h = AdvanceTurn(reset)
      BY <2>3, <1>3, <1>10, <1>12
    <3>2. 0 \in 0 .. MaxConsecutiveGraces - 1
      BY Numbers
    <3>3. reset \in GameState /\ reset.pawns = done.pawns /\ reset.finished = done.finished
      BY <3>2, <1>8 DEF GameState
    <3> HIDE DEF reset
    <3>4. /\ h \in GameState /\ h.pawns = done.pawns /\ h.finished = done.finished
          /\ h.phase = "rolling"
      BY <3>1, <3>3, TurnPasses
    <3>5. Good(h)
      BY <3>4, <2>1, <1>9
    <3> QED BY <3>4, <3>5, <1>4 DEF h
  <2> QED BY <2>2, <2>3
<1> QED BY <1>11, <1>12

-----------------------------------------------------------------------------
(* The component.                                                          *)

(* A rendered state sets a timer only for what is right in it.             *)
LEMMA TimerFits ==
  ASSUME NEW g, Good(g), NEW u \in Timers(g)
  PROVE  Fits(u, g)
<1>1. AIPickMove(g) \subseteq ValidMoves(g)
  BY DEF AIPickMove
<1>2. g.phase \in {"rolling", "moving", "gameover"}
  BY DEF Good, GameState
<1>3. CASE g.phase = "gameover" \/ ~ IsAI(g.current)
  BY <1>3 DEF Timers, Fits
<1>4. CASE g.phase = "rolling" /\ IsAI(g.current)
  BY <1>4 DEF Timers, Fits
<1>5. CASE g.phase = "moving" /\ IsAI(g.current)
  <2>1. Timers(g) = IF AIPickMove(g) = {} THEN {None} ELSE {MoveUpdate(m) : m \in AIPickMove(g)}
    BY <1>5 DEF Timers
  <2>2. u = None \/ \E m \in ValidMoves(g) : u = MoveUpdate(m)
    BY <2>1, <1>1
  <2> QED BY <2>2, <1>5 DEF Fits
<1> QED BY <1>2, <1>3, <1>4, <1>5

(* createGame gives a game in which the invariant holds.                   *)
LEMMA NewGameGood == Good(CreateGame)
<1> DEFINE g == CreateGame
<1>1. /\ g.pawns = [p \in Player |-> [j \in Pawn |-> -1]] /\ g.finished = [p \in Player |-> 0]
      /\ g.phase = "rolling"
  BY DEF CreateGame
<1>2. -1 \in PathIndex /\ 0 \in 0 .. PawnsPerPlayer /\ 0 \in 0 .. MaxConsecutiveGraces - 1
  BY Numbers
<1>3. g \in GameState
  BY <1>2, Numbers DEF GameState, CreateGame
<1> HIDE DEF g
<1>4. Owned(g)
  BY <1>1, Numbers DEF Owned, OnPath
<1>5. ASSUME NEW p \in Player PROVE Home(g, p) = {} /\ g.finished[p] = 0
  BY <1>1, Numbers DEF Home
<1>6. Counted(g)
  <2>1. Cardinality({}) = 0 /\ PawnsPerPlayer # 0
    BY FS_EmptySet, Numbers
  <2>2. ASSUME NEW p \in Player
        PROVE  g.finished[p] = Cardinality(Home(g, p)) /\ g.finished[p] # PawnsPerPlayer
    BY <2>1, <1>5
  <2> QED BY <2>2, <1>1 DEF Counted
<1> QED BY <1>1, <1>3, <1>4, <1>6 DEF Good, Movable, g

(* What the new state may be: its pawns are those of the old one, or those *)
(* after a valid move of it.                                               *)
MovedTo(g, h) ==
  \/ h.pawns = g.pawns
  \/ \E m \in ValidMoves(g) : h.pawns = PawnsAfter(g, m.pawn, m.target)

(* A waiting update that fits the state it is applied to.                  *)
LEMMA UpdateKeeps ==
  ASSUME NEW g, Good(g), NEW u, u # None, Fits(u, g), NEW roll \in RollValues
  PROVE  /\ Good(Apply(u, g, roll)) /\ MovedTo(g, Apply(u, g, roll))
         /\ g.phase = "moving" => Apply(u, g, roll).phase # "moving"
<1>1. CASE g.phase = "rolling" /\ u = [kind |-> "roll"]
  <2>1. Apply(u, g, roll) = PerformRoll(g, roll)
    BY <1>1 DEF Apply
  <2> QED BY <2>1, <1>1, RollKeeps DEF MovedTo
<1>2. CASE g.phase = "moving" /\ \E m \in ValidMoves(g) : u = MoveUpdate(m)
  <2>1. PICK m \in ValidMoves(g) : u = MoveUpdate(m)
    BY <1>2
  <2>2. u.kind = "move" /\ u.pawn = m.pawn /\ u.target = m.target
    BY <2>1 DEF MoveUpdate
  <2>3. Apply(u, g, roll) = ExecuteMove(g, m.pawn, m.target)
    BY <2>2, <1>2 DEF Apply
  <2> QED BY <2>3, <1>2, MoveKeeps DEF MovedTo
<1> QED BY <1>1, <1>2 DEF Fits

(* A click on a button or a pawn of a good state that nothing waits for.   *)
LEMMA ClickKeeps ==
  ASSUME NEW g, Good(g), NEW roll \in RollValues, NEW u,
         \/ g.phase = "rolling" /\ u = [kind |-> "roll"]
         \/ /\ g.phase = "moving"
            /\ \E m \in ValidMoves(g) : u = MoveUpdate(m) \/ u = [kind |-> "select", pawn |-> m.pawn]
  PROVE  Good(Apply(u, g, roll)) /\ MovedTo(g, Apply(u, g, roll))
<1>1. CASE g.phase = "rolling" /\ u = [kind |-> "roll"]
  <2>1. Apply(u, g, roll) = PerformRoll(g, roll)
    BY <1>1 DEF Apply
  <2> QED BY <2>1, <1>1, RollKeeps DEF MovedTo
<1>2. ASSUME NEW m \in ValidMoves(g), g.phase = "moving", u = MoveUpdate(m)
      PROVE  Good(Apply(u, g, roll)) /\ MovedTo(g, Apply(u, g, roll))
  <2>1. u.kind = "move" /\ u.pawn = m.pawn /\ u.target = m.target
    BY <1>2 DEF MoveUpdate
  <2>2. Apply(u, g, roll) = ExecuteMove(g, m.pawn, m.target)
    BY <2>1, <1>2 DEF Apply
  <2> QED BY <2>2, <1>2, MoveKeeps DEF MovedTo
<1>3. ASSUME NEW m \in ValidMoves(g), g.phase = "moving", u = [kind |-> "select", pawn |-> m.pawn]
      PROVE  Good(Apply(u, g, roll)) /\ MovedTo(g, Apply(u, g, roll))
  <2>1. u.kind = "select" /\ u.pawn = m.pawn
    BY <1>3
  <2>2. Apply(u, g, roll) = [g EXCEPT !.selected = m.pawn]
    BY <2>1, <1>3 DEF Apply
  <2> QED BY <2>2, <1>3, SelectKeeps DEF MovedTo
<1> QED BY <1>1, <1>2, <1>3

(* The same click, with an update waiting: what waits is a move, after     *)
(* which the click finds another phase and does nothing.                   *)
LEMMA ClickRendered ==
  ASSUME GameInv, NEW u, Click(u),
         \/ game.phase = "rolling" /\ ~ IsAI(game.current) /\ u = [kind |-> "roll"]
         \/ /\ game.phase = "moving"
            /\ \E m \in ValidMoves(game) :
                 u = MoveUpdate(m) \/ u = [kind |-> "select", pawn |-> m.pawn]
  PROVE  GameInv' /\ MovedTo(game, game')
<1>1. PICK roll \in RollValues :
        Rendered(Apply(u, IF pending = None THEN game ELSE Apply(pending, game, roll), roll))
  BY DEF Click
<1>2. Good(game) /\ Fits(pending, game)
  BY DEF GameInv
<1> DEFINE h == Apply(u, IF pending = None THEN game ELSE Apply(pending, game, roll), roll)
<1>3. Good(h) /\ MovedTo(game, h)
  <2>1. CASE pending = None
    <3>1. h = Apply(u, game, roll)
      BY <2>1
    <3> QED BY <3>1, <1>2, ClickKeeps
  <2>2. CASE pending # None
    <3> DEFINE g == Apply(pending, game, roll)
    <3>1. Good(g) /\ MovedTo(game, g) /\ (game.phase = "moving" => g.phase # "moving")
      BY <2>2, <1>2, UpdateKeeps
    <3>2. game.phase = "moving" /\ g.phase # "moving"
      BY <2>2, <3>1, <1>2 DEF Fits
    <3>3. u.kind \in {"move", "select"}
      BY <3>2 DEF MoveUpdate
    <3> HIDE DEF g
    <3>4. Apply(u, g, roll) = g
      BY <3>2, <3>3 DEF Apply
    <3>5. h = g
      BY <2>2, <3>4 DEF g
    <3> QED BY <3>1, <3>5
  <2> QED BY <2>1, <2>2
<1> HIDE DEF h
<1>4. game' = h /\ timer' \in Timers(game') /\ pending' = None
  BY <1>1 DEF Rendered, h
<1>5. Fits(timer', game') /\ Fits(pending', game')
  BY <1>3, <1>4, TimerFits DEF Fits
<1> QED BY <1>3, <1>4, <1>5 DEF GameInv

(* A game that was just created is sound, with a timer that fits.          *)
LEMMA GameInitial == Init => GameInv
BY NewGameGood, TimerFits DEF Init, GameInv, Fits

(* Every click and timer keeps the invariant, and moves pawns as MovedTo   *)
(* says, or starts anew.                                                   *)
LEMMA GameStep ==
  ASSUME GameInv, [Next]_vars
  PROVE  GameInv' /\ (MovedTo(game, game') \/ game' = CreateGame)
<1>1. CASE Timeout
  <2>1. game' = game /\ timer' = None /\ pending' = timer
    BY <1>1 DEF Timeout
  <2> QED BY <2>1 DEF GameInv, Fits, MovedTo
<1>2. CASE Render
  <2>1. PICK roll \in RollValues : Rendered(Apply(pending, game, roll)) /\ pending # None
    BY <1>2 DEF Render
  <2> DEFINE h == Apply(pending, game, roll)
  <2>2. Good(h) /\ MovedTo(game, h)
    BY <2>1, UpdateKeeps DEF GameInv
  <2> HIDE DEF h
  <2>3. game' = h /\ timer' \in Timers(game') /\ pending' = None
    BY <2>1 DEF Rendered, h
  <2>4. Fits(timer', game') /\ Fits(pending', game')
    BY <2>2, <2>3, TimerFits DEF Fits
  <2> QED BY <2>2, <2>3, <2>4 DEF GameInv
<1>3. CASE RollClick
  <2>1. game.phase = "rolling" /\ ~ IsAI(game.current) /\ Click([kind |-> "roll"])
    BY <1>3 DEF RollClick
  <2> QED BY <2>1, ClickRendered
<1>4. CASE SelectClick
  <2>1. PICK m \in ValidMoves(game) :
          game.phase = "moving" /\ Click([kind |-> "select", pawn |-> m.pawn])
    BY <1>4 DEF SelectClick
  <2> QED BY <2>1, ClickRendered
<1>5. CASE MoveClick
  <2>1. PICK m \in ValidMoves(game) : game.phase = "moving" /\ Click(MoveUpdate(m))
    BY <1>5 DEF MoveClick
  <2> QED BY <2>1, ClickRendered
<1>6. CASE NewGame
  <2>1. game' = CreateGame /\ timer' \in Timers(game') /\ pending' = None
    BY <1>6 DEF NewGame, Rendered
  <2>2. Fits(timer', game') /\ Fits(pending', game')
    BY <2>1, NewGameGood, TimerFits DEF Fits
  <2> QED BY <2>1, <2>2, NewGameGood DEF GameInv
<1>7. CASE UNCHANGED vars
  BY <1>7 DEF vars, GameInv, MovedTo
<1> QED BY <1>1, <1>2, <1>3, <1>4, <1>5, <1>6, <1>7 DEF Next

(* The invariant holds throughout.                                         *)
THEOREM GameInvariance == Spec => []GameInv
<1>1. GameInv /\ [Next]_vars => GameInv'
  BY GameStep
<1> QED BY <1>1, GameInitial, PTL DEF Spec

-----------------------------------------------------------------------------
(* The theorems.                                                           *)

(* The invariant says all three at once.                                   *)
LEMMA GoodParts ==
  ASSUME GameInv
  PROVE  OneOwner /\ MovingHasMove /\ FinishedCounted
<1>1. Owned(game) /\ Movable(game) /\ Counted(game)
  BY DEF GameInv, Good
<1>2. OneOwner
  <2> SUFFICES ASSUME NEW p \in Player, NEW q \in Player, NEW j \in Pawn, NEW k \in Pawn,
                      game.pawns[p][j] \in 0 .. PathLength, game.pawns[q][k] \in 0 .. PathLength,
                      Paths[p][game.pawns[p][j]] = Paths[q][game.pawns[q][k]],
                      Paths[p][game.pawns[p][j]] \notin SafeSquares
               PROVE  p = q
    BY Zenon DEF OneOwner
  <2>1. /\ OnPath(game, <<p, j>>) /\ OnPath(game, <<q, k>>)
        /\ Square(game, <<p, j>>) = Square(game, <<q, k>>)
        /\ Square(game, <<p, j>>) \notin SafeSquares
    BY DEF OnPath, Square
  <2> QED BY <2>1, <1>1 DEF Owned
<1>3. MovingHasMove
  BY <1>1 DEF MovingHasMove, Movable
<1>4. FinishedCounted
  BY <1>1 DEF FinishedCounted, Counted, Home
<1> QED BY <1>2, <1>3, <1>4

(* TypeOK: the state and the updates of GamePage.tsx keep their types.     *)
THEOREM GameTypes == Spec => []TypeOK
<1>1. GameInv => TypeOK
  <2> SUFFICES ASSUME GameInv PROVE TypeOK
    OBVIOUS
  <2>1. game \in GameState
    BY DEF GameInv, Good
  <2>2. ASSUME NEW u, Fits(u, game) PROVE u \in Update \cup {None}
    <3>1. CASE \E m \in ValidMoves(game) : u = MoveUpdate(m)
      <4>1. PICK m \in ValidMoves(game) : u = MoveUpdate(m)
        BY <3>1
      <4>2. game.current \in Player
        BY <2>1 DEF GameState
      <4>3. m.pawn \in Player \X Pawn /\ m.target \in 0 .. PathLength
        BY <2>1, <4>2, ValidMove
      <4> QED BY <4>1, <4>3 DEF MoveUpdate, Update
    <3>2. CASE u = [kind |-> "roll"]
      BY <3>2 DEF Update
    <3> QED BY <3>1, <3>2, <2>2 DEF Fits
  <2> QED BY <2>1, <2>2 DEF GameInv, TypeOK
<1> QED BY <1>1, GameInvariance, PTL

(* OneOwner: getValidMoves and executeMove together let no square but a    *)
(* safe one hold pawns of two players.                                     *)
THEOREM SquaresHaveOneOwner == Spec => []OneOwner
BY GoodParts, GameInvariance, PTL

(* MovingHasMove: the page is never left waiting for a move that nobody    *)
(* can make, nor with a pawn selected that cannot move.                    *)
THEOREM MovingNeverStuck == Spec => []MovingHasMove
BY GoodParts, GameInvariance, PTL

(* FinishedCounted: the counts of executeMove agree with the pawns that    *)
(* have left the board, and decide the end of the game and its winner.     *)
THEOREM CountsDecideTheEnd == Spec => []FinishedCounted
BY GoodParts, GameInvariance, PTL

(* MovesAreValid: however a click and a timeout fall between two renders,  *)
(* the pawns change by a valid move of the rendered state only, although   *)
(* handleMove gets its arguments from an earlier render.                   *)
THEOREM OnlyValidMoves == Spec => MovesAreValid
<1>1. GameInv /\ [Next]_vars =>
        [ \/ game'.pawns = game.pawns
          \/ game' = CreateGame
          \/ \E m \in ValidMoves(game) : game'.pawns = PawnsAfter(game, m.pawn, m.target) ]_vars
  BY GameStep DEF MovedTo
<1> QED BY <1>1, GameInvariance, PTL DEF Spec, MovesAreValid

=============================================================================
