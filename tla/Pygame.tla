------------------------------- MODULE Pygame -------------------------------
(***************************************************************************)
(* The first version of the game, the pygame window of game.py with        *)
(* helper.py, player.py and path.py: all players at one mouse.  Each frame *)
(* passes the turn if that is due and then acts on what the mouse button   *)
(* is held over: the roll button, a pawn, the exit button, or nothing.     *)
(* What may happen next is spread over four flags, and the list of movable *)
(* pawns outlives the move and the turn it was made for.                   *)
(*                                                                         *)
(* A pawn is <<color, number>>, and its Tup is kept as an index into the   *)
(* path of its color.  The entries of board_overview for safe squares are  *)
(* left out: checkEnemy never looks at them.                               *)
(***************************************************************************)
EXTENDS Board, Sequences

LOCAL INSTANCE SequencesExt

CONSTANTS
  LastOuter,        \* 24 in move()
  MaxDice           \* bound: rolls waiting to be used

ASSUME PygameAssumption == LastOuter \in PathIndex /\ MaxDice \in Nat \ {0}

VARIABLES
  at,               \* the pawns: color -> number -> path index
  kill,             \* k: color -> has captured
  board_overview,   \* squares that are not None -> the pawn that arrived last
  turn,             \* whose turn it is
  control           \* the flags; diceNumbers, the rolls not used yet; moves, the
                    \* pawns that react to a click; Num, the roll they react with

pygameVars == <<at, kill, board_overview, turn, control>>

pawnVars == <<at, kill, board_overview>>

Tup(p) == Paths[p[1]][at[p[1]][p[2]]]

(* After the first frame, in which START creates the pawns. *)
PygameInit ==
  /\ at = [c \in Player |-> [j \in Pawn |-> 0]]
  /\ kill = [c \in Player |-> FALSE]
  /\ board_overview = <<>>
  /\ turn = 0
  /\ control = [changeTurn |-> FALSE, rollDone |-> FALSE, calculateNow |-> FALSE,
                moveDone |-> TRUE, diceNumbers |-> <<>>, moves |-> {}, Num |-> 0]

(* move(): a pawn stays before the inner path, or short of the centre. *)
MoveIndex(n, from, isKill) ==
  IF (from + n > LastOuter /\ ~ isKill) \/ from + n > WinPathIndex THEN from ELSE from + n

(* possibleMoves(): the pawn itself counts as one that is in the way, so a *)
(* pawn that stays is listed on a safe square only.                        *)
Possible(n) ==
  {p \in {turn} \X Pawn :
     LET new == Paths[turn][MoveIndex(n, at[turn][p[2]], kill[turn])]
     IN new \in SafeSquares \/ \A j \in Pawn : Tup(<<turn, j>>) # new}

(* One pass of the loop over diceNumbers, which removes what it uses, so   *)
(* that the next pass skips a roll.                                        *)
Iterate(c, i) ==
  LET n == c.diceNumbers[i]
      d == IF ~ c.moveDone THEN c
           ELSE [c EXCEPT !.moves = Possible(n), !.Num = n, !.diceNumbers = Remove(@, n),
                          !.moveDone = FALSE, !.calculateNow = FALSE]
  IN IF i > Len(c.diceNumbers) THEN c
     ELSE IF d.moves # {} THEN d
     ELSE [d EXCEPT !.rollDone = FALSE, !.changeTurn = TRUE, !.moveDone = TRUE,
                    !.calculateNow = TRUE, !.Num = 0]

Calculate(c) == FoldLeft(Iterate, c, [i \in DOMAIN c.diceNumbers |-> i])

(* The start of a frame. *)
PassTurn ==
  /\ control.changeTurn
  /\ turn' = NextPlayer(turn)
  /\ control' = [control EXCEPT !.diceNumbers = <<>>, !.changeTurn = FALSE]
  /\ UNCHANGED pawnVars

(* After a roll of 4 or 8 the player rolls again before moving. *)
RollClick(n) ==
  LET again  == n % 4 = 0
      rolled == [control EXCEPT !.Num = n, !.diceNumbers = Append(@, n),
                                !.calculateNow = ~ again, !.rollDone = ~ again]
  IN /\ ~ control.changeTurn /\ ~ control.rollDone
     /\ Len(control.diceNumbers) < MaxDice
     /\ control' = IF again THEN rolled ELSE Calculate(rolled)
     /\ UNCHANGED <<pawnVars, turn>>

(* A click elsewhere, on the exit button perhaps.  Play makes new pawns    *)
(* then, but appends them behind the old ones, which stay in the game.     *)
OtherClick ==
  LET c == IF control.calculateNow THEN Calculate(control) ELSE control
  IN /\ ~ control.changeTurn
     /\ control' \in {c, [c EXCEPT !.moves = {}]}
     /\ UNCHANGED <<pawnVars, turn>>

(* Mutant of NewIndex: the right of way of the player on turn. *)
NewIndexOfTurn(p) == MoveIndex(control.Num, at[p[1]][p[2]], kill[turn])

NewIndex(p) == MoveIndex(control.Num, at[p[1]][p[2]], kill[p[1]])

(* Mutant of Lifted: the square left behind is not cleared. *)
LiftedNever(p) == board_overview

(* board_overview once the pawn has been taken off its square. *)
Lifted(p) == [sq \in DOMAIN board_overview \ {Tup(p)} |-> board_overview[sq]]

(* A click on a listed pawn, whoever is on turn. *)
PawnClick(p) ==
  LET new    == Paths[p[1]][NewIndex(p)]
      struck == new \in DOMAIN Lifted(p) /\ Lifted(p)[new][1] # p[1]
      enemy  == Lifted(p)[new]
      moved  == [at EXCEPT ![p[1]][p[2]] = NewIndex(p)]
  IN /\ ~ control.changeTurn /\ ~ control.calculateNow /\ p \in control.moves
     /\ at' = IF struck THEN [moved EXCEPT ![enemy[1]][enemy[2]] = 0] ELSE moved
     /\ kill' = [kill EXCEPT ![p[1]] = @ \/ struck]
     /\ board_overview' = IF new \in SafeSquares THEN Lifted(p)
                          ELSE [sq \in DOMAIN Lifted(p) \cup {new} |->
                                  IF sq = new THEN p ELSE Lifted(p)[sq]]
     /\ control' = [control EXCEPT !.changeTurn = ~ struck /\ control.diceNumbers = <<>>,
                      !.Num = 0, !.rollDone = FALSE, !.moveDone = TRUE, !.calculateNow = TRUE]
     /\ UNCHANGED turn

PygameNext ==
  \/ PassTurn \/ OtherClick
  \/ \E n \in RollValues : RollClick(n)
  \/ \E p \in Player \X Pawn : PawnClick(p)

PygameSpec == PygameInit /\ [][PygameNext]_pygameVars

-----------------------------------------------------------------------------

(***************************************************************************)
(* board_overview and the pawns' own positions are kept apart, yet a pawn  *)
(* is struck by what board_overview says: a square names a pawn only if    *)
(* that pawn stands there, so nobody is sent home from another square,     *)
(* even when pawns are moved out of turn or onto their friends.            *)
(***************************************************************************)
OverviewTruthful ==
  \A sq \in DOMAIN board_overview : Tup(board_overview[sq]) = sq

(***************************************************************************)
(* A pawn is on the inner path only if its color has captured, although    *)
(* the list of moves is made with the flag of the player on turn and used  *)
(* when another may be.                                                    *)
(***************************************************************************)
InnerNeedsKill ==
  \A c \in Player, j \in Pawn : at[c][j] > LastOuter => kill[c]

=============================================================================
