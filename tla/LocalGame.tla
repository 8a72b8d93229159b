----------------------------- MODULE LocalGame -----------------------------
(***************************************************************************)
(* The game the browser plays by itself: the rules of                      *)
(* client/src/game/engine.ts driven by the React component                 *)
(* client/src/components/GamePage.tsx.  An engine function maps one game   *)
(* state to the next, so it is an operator here.  The component queues     *)
(* updates of its state, from clicks and from the AI player's timer, and   *)
(* React applies them in order at the next render.  A handler was built by *)
(* the last render, so what it queues was chosen in the rendered state and *)
(* may be applied in a later one; only the phase is checked again.         *)
(***************************************************************************)
EXTENDS Integers, FiniteSets

CONSTANTS
  NumPlayers,            \* setup.playerCount
  HumanCount,            \* the first HumanCount players are human
  PawnsPerPlayer,        \* PAWNS_PER_PLAYER
  MaxConsecutiveGraces,  \* MAX_CONSECUTIVE_GRACES
  PathLength,            \* PATH_LENGTH, the path index of the centre
  Paths,                 \* PATHS
  SafeSquares,           \* SAFE_POSITIONS and CENTER
  RollValues,            \* the values of rollCowries
  GraceValues,           \* GRACE_VALUES
  None                   \* null

Player    == 0 .. NumPlayers - 1
Pawn      == 0 .. PawnsPerPlayer - 1
PathIndex == -1 .. PathLength + 1      \* -1: not entered, PathLength + 1: finished
IsAI(p)   == p >= HumanCount

ASSUME LocalGameAssumption ==
  /\ NumPlayers \in Nat \ {0, 1} /\ HumanCount \in 1 .. NumPlayers
  /\ PawnsPerPlayer \in Nat \ {0} /\ MaxConsecutiveGraces \in Nat \ {0}
  /\ PathLength \in Nat \ {0}
  /\ \A p \in Player : \A i, k \in 0 .. PathLength : Paths[p][i] = Paths[p][k] => i = k
  /\ \A p \in Player : Paths[p][0] \in SafeSquares /\ Paths[p][PathLength] \in SafeSquares
  /\ RollValues \subseteq Nat \ {0}
  /\ None \notin RollValues \cup Player \cup (Player \X Pawn)

VARIABLES
  game,     \* gameState, as rendered
  timer,    \* the update that the AI player's timeout will queue, or None
  pending   \* the update it has queued and React has not applied yet, or None

vars == <<game, timer, pending>>

GameState ==
  [pawns    : [Player -> [Pawn -> PathIndex]],
   finished : [Player -> 0 .. PawnsPerPlayer],       \* finishedCount
   current  : Player,                                \* currentPlayerIndex
   dice     : RollValues \cup {None},                \* diceResult
   phase    : {"rolling", "moving", "gameover"},
   selected : (Player \X Pawn) \cup {None},          \* selectedPawnId
   winner   : Player \cup {None},
   graces   : 0 .. MaxConsecutiveGraces - 1]         \* consecutiveGraces

Update ==
  [kind : {"roll"}] \cup [kind : {"select"}, pawn : Player \X Pawn]
    \cup [kind : {"move"}, pawn : Player \X Pawn, target : 0 .. PathLength]

TypeOK ==
  /\ game \in GameState
  /\ timer \in Update \cup {None}
  /\ pending \in Update \cup {None}

-----------------------------------------------------------------------------
(* The engine.                                                             *)

(* createGame *)
CreateGame ==
  [pawns    |-> [p \in Player |-> [j \in Pawn |-> -1]],
   finished |-> [p \in Player |-> 0],
   current  |-> 0, dice |-> None, phase |-> "rolling", selected |-> None,
   winner   |-> None, graces |-> 0]

(* buildBoardMap, without the pawns of the player on turn *)
EnemiesOn(g, sq) ==
  {v \in Player \X Pawn :
     LET i == g.pawns[v[1]][v[2]]
     IN v[1] # g.current /\ i \in 0 .. PathLength /\ Paths[v[1]][i] = sq}

Target(i, roll) == IF i = -1 THEN 0 ELSE i + roll

(* Mutant of CanMove: a pair does not block. *)
CanMoveThroughPairs(g, j) ==
  LET i == g.pawns[g.current][j]
  IN /\ i <= PathLength
     /\ i = -1 => g.dice \in GraceValues
     /\ Target(i, g.dice) <= PathLength

(* getValidMoves: friends may share a square, and only two enemies block.  *)
CanMove(g, j) ==
  LET i == g.pawns[g.current][j]
  IN /\ i <= PathLength
     /\ i = -1 => g.dice \in GraceValues
     /\ Target(i, g.dice) <= PathLength
     /\ Cardinality(EnemiesOn(g, Paths[g.current][Target(i, g.dice)])) < 2

ValidMoves(g) ==
  IF g.dice = None THEN {}
  ELSE {[pawn |-> <<g.current, j>>, target |-> Target(g.pawns[g.current][j], g.dice)] :
          j \in {k \in Pawn : CanMove(g, k)}}

(* advanceTurn *)
AdvanceTurn(g) ==
  [g EXCEPT !.current = (@ + 1) % NumPlayers, !.phase = "rolling",
            !.dice = None, !.selected = None]

(* Mutant of PerformRoll: the phase changes although nothing can move. *)
PerformRollAlwaysMoving(g, roll) ==
  [g EXCEPT !.dice = roll, !.phase = "moving", !.selected = None]


(* performRoll: the turn passes without a move, the only move is selected. *)
PerformRoll(g, roll) ==
  LET next  == [g EXCEPT !.dice = roll, !.phase = "moving", !.selected = None]
      moves == ValidMoves(next)
  IN IF moves = {} THEN AdvanceTurn([next EXCEPT !.graces = 0])
     ELSE IF Cardinality(moves) = 1
       THEN [next EXCEPT !.selected = (CHOOSE m \in moves : TRUE).pawn]
       ELSE next

(* The enemies sent back: not from a safe square, not one of a pair.       *)
Captured(g, sq) ==
  LET enemies == EnemiesOn(g, sq)
  IN IF sq \in SafeSquares THEN {}
     ELSE {v \in enemies : \A w \in enemies : w[1] = v[1] => w = v}

(* Mutant of PawnsAfter: a pawn that reaches the centre stays on it. *)
PawnsAfterOnCentre(g, pawn, target) ==
  LET captured == Captured(g, Paths[g.current][target])
  IN [p \in Player |-> [j \in Pawn |->
        IF <<p, j>> = pawn THEN target
        ELSE IF <<p, j>> \in captured THEN -1
        ELSE g.pawns[p][j]]]

(* The pawns after a move; a pawn that reaches the centre leaves the board.*)
PawnsAfter(g, pawn, target) ==
  LET captured == Captured(g, Paths[g.current][target])
  IN [p \in Player |-> [j \in Pawn |->
        IF <<p, j>> = pawn THEN (IF target = PathLength THEN PathLength + 1 ELSE target)
        ELSE IF <<p, j>> \in captured THEN -1
        ELSE g.pawns[p][j]]]

(* Mutant of ExecuteMove: consecutive graces are counted, not limited. *)
ExecuteMoveUnlimited(g, pawn, target) ==
  LET p     == g.current
      done  == [g EXCEPT !.pawns = PawnsAfter(g, pawn, target),
                         !.finished[p] = IF target = PathLength THEN @ + 1 ELSE @,
                         !.dice = None, !.selected = None]
      extra == g.dice \in GraceValues \/ Captured(g, Paths[p][target]) # {}
  IN CASE pawn[1] # p -> g
       [] pawn[1] = p /\ target = PathLength /\ done.finished[p] = PawnsPerPlayer ->
            [done EXCEPT !.phase = "gameover", !.winner = p, !.graces = 0]
       [] OTHER ->
            IF extra THEN [done EXCEPT !.phase = "rolling", !.graces = @ + 1]
            ELSE AdvanceTurn([done EXCEPT !.graces = 0])

(* executeMove trusts its arguments, except that the pawn must be one of   *)
(* the current player's.                                                   *)
ExecuteMove(g, pawn, target) ==
  LET p     == g.current
      done  == [g EXCEPT !.pawns = PawnsAfter(g, pawn, target),
                         !.finished[p] = IF target = PathLength THEN @ + 1 ELSE @,
                         !.dice = None, !.selected = None]
      extra == /\ g.dice \in GraceValues \/ Captured(g, Paths[p][target]) # {}
               /\ g.graces + 1 < MaxConsecutiveGraces
  IN CASE pawn[1] # p -> g
       [] pawn[1] = p /\ target = PathLength /\ done.finished[p] = PawnsPerPlayer ->
            [done EXCEPT !.phase = "gameover", !.winner = p, !.graces = 0]
       [] OTHER ->
            IF extra THEN [done EXCEPT !.phase = "rolling", !.graces = @ + 1]
            ELSE AdvanceTurn([done EXCEPT !.graces = 0])

(* aiPickMove: finish if possible, else capture if possible, else anything.*)
AIPickMove(g) ==
  LET moves    == ValidMoves(g)
      finish   == {m \in moves : m.target = PathLength}
      captures == {m \in moves : LET sq == Paths[g.current][m.target]
                                 IN sq \notin SafeSquares /\ EnemiesOn(g, sq) # {}}
  IN IF finish # {} THEN finish ELSE IF captures # {} THEN captures ELSE moves

-----------------------------------------------------------------------------
(* The component.                                                          *)

MoveUpdate(m) == [kind |-> "move", pawn |-> m.pawn, target |-> m.target]

(* Mutant of Apply: handleMove relies on the phase it was rendered in. *)
ApplyUnchecked(u, g, roll) ==
  CASE u.kind = "roll"   -> IF g.phase # "rolling" THEN g ELSE PerformRoll(g, roll)
    [] u.kind = "move"   -> ExecuteMove(g, u.pawn, u.target)
    [] u.kind = "select" -> IF g.phase # "moving" THEN g ELSE [g EXCEPT !.selected = u.pawn]

(* handleRoll, handleMove, handleSelectPawn: the function passed to        *)
(* setGameState.  Only handleRoll uses roll.                               *)
Apply(u, g, roll) ==
  CASE u.kind = "roll"   -> IF g.phase # "rolling" THEN g ELSE PerformRoll(g, roll)
    [] u.kind = "move"   -> IF g.phase # "moving" THEN g ELSE ExecuteMove(g, u.pawn, u.target)
    [] u.kind = "select" -> IF g.phase # "moving" THEN g ELSE [g EXCEPT !.selected = u.pawn]

(* The effect that runs when the state g has been rendered.                *)
Timers(g) ==
  IF g.phase = "gameover" \/ ~ IsAI(g.current) THEN {None}
  ELSE IF g.phase = "rolling" THEN {[kind |-> "roll"]}
  ELSE IF AIPickMove(g) = {} THEN {None} ELSE {MoveUpdate(m) : m \in AIPickMove(g)}

(* Every new state is rendered: the effect's cleanup clears the old timer, *)
(* and the effect starts a new one with its full delay.                    *)
Rendered(g) ==
  /\ game' = g
  /\ timer' \in Timers(game')
  /\ pending' = None

Init ==
  /\ game = CreateGame
  /\ timer \in Timers(CreateGame)
  /\ pending = None

(* The AI player's timeout, once no new state has been rendered for its    *)
(* delay: its update waits for the next render.                            *)
Timeout ==
  /\ timer # None
  /\ pending' = timer /\ timer' = None
  /\ UNCHANGED game

Render ==
  /\ pending # None
  /\ \E roll \in RollValues : Rendered(Apply(pending, game, roll))

(* A click is rendered at once, with the update that was waiting before it.*)
(* The board lets anybody click the pawns of an AI player.                 *)
Click(u) ==
  \E roll \in RollValues :
    Rendered(Apply(u, IF pending = None THEN game ELSE Apply(pending, game, roll), roll))

RollClick ==
  /\ game.phase = "rolling" /\ ~ IsAI(game.current)
  /\ Click([kind |-> "roll"])

(* A pawn on the board can be selected again, by a click on its cell.      *)
SelectClick ==
  /\ game.phase = "moving"
  /\ \E m \in ValidMoves(game) :
       /\ m.pawn # game.selected \/ game.pawns[m.pawn[1]][m.pawn[2]] # -1
       /\ Click([kind |-> "select", pawn |-> m.pawn])

MoveClick ==
  /\ game.phase = "moving"
  /\ \E m \in ValidMoves(game) : m.pawn = game.selected /\ Click(MoveUpdate(m))

(* The button shown after the end, then the start screen.                  *)
NewGame ==
  /\ game.phase = "gameover"
  /\ Rendered(CreateGame)

Next == Timeout \/ Render \/ RollClick \/ SelectClick \/ MoveClick \/ NewGame

(* Somebody clicks for ever on the pawns of an AI player that is to move.  *)
ClickedForEver ==
  /\ <>[](IsAI(game.current) /\ game.phase = "moving")
  /\ []<><<SelectClick>>_vars

(* A timeout fires once it is left alone: each click clears the timer and  *)
(* the next render starts it anew, so it may be put off for ever.  Queued  *)
(* updates are rendered.  The humans go on with their own turns; nobody    *)
(* has to click on behalf of an AI player.                                 *)
Fairness ==
  /\ WF_vars(Timeout) \/ ClickedForEver
  /\ WF_vars(Render)
  /\ WF_vars(RollClick)
  /\ WF_vars(~ IsAI(game.current) /\ (SelectClick \/ MoveClick))
  /\ WF_vars(~ IsAI(game.current) /\ MoveClick)

Spec == Init /\ [][Next]_vars /\ Fairness

-----------------------------------------------------------------------------

(* A square that is not safe never holds pawns of two players.  A pair     *)
(* cannot be captured, so getValidMoves has to keep everybody away from    *)
(* it, whoever the pair belongs to.                                        *)
OneOwner ==
  \A p, q \in Player : \A j, k \in Pawn :
    LET a == game.pawns[p][j]
        b == game.pawns[q][k]
    IN /\ a \in 0 .. PathLength /\ b \in 0 .. PathLength
       /\ Paths[p][a] = Paths[q][b] /\ Paths[p][a] \notin SafeSquares
       => p = q

(* The game never waits for a move that nobody can make: in the phase      *)
(* "moving" there is a valid move, and the pawn shown as selected has one. *)
(* Nothing else leaves that phase, and an AI player without a move sets no *)
(* timer, so the page would be stuck.                                      *)
MovingHasMove ==
  game.phase = "moving" =>
    /\ ValidMoves(game) # {}
    /\ game.selected # None => \E m \in ValidMoves(game) : m.pawn = game.selected

(* finishedCount, kept by increments, agrees with the pawns that have left *)
(* the board, and the game is over exactly when somebody's is full, with   *)
(* that player as the winner and still on turn.                            *)
FinishedCounted ==
  /\ \A p \in Player :
       game.finished[p] = Cardinality({j \in Pawn : game.pawns[p][j] = PathLength + 1})
  /\ \A p \in Player :
       game.finished[p] = PawnsPerPlayer <=> game.phase = "gameover" /\ game.winner = p
  /\ game.phase = "gameover" => game.winner = game.current

(* Whatever was clicked or timed out, the pawns change only by one valid   *)
(* move of the rendered state, and by what it captures.  handleMove gets   *)
(* its pawn and target from an earlier render and checks only the phase.   *)
MovesAreValid ==
  [][ \/ game'.pawns = game.pawns
      \/ game' = CreateGame
      \/ \E m \in ValidMoves(game) : game'.pawns = PawnsAfter(game, m.pawn, m.target) ]_vars

(* Every player is on turn again and again, until the game is over: no     *)
(* click on an AI player's pawns, no run of graces and no capture keeps    *)
(* the turn.  What can keep it is one AI player's move that somebody puts  *)
(* off for ever, since every selection restarts the 800 ms of its timer.   *)
TurnRotates ==
  \/ \A p \in Player : []<>(game.current = p \/ game.phase = "gameover")
  \/ ClickedForEver

=============================================================================
