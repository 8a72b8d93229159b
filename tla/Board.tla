------------------------------- MODULE Board -------------------------------
(***************************************************************************)
(* The board and the cowries as the rules use them                         *)
(* (server/app/game/board.py and server/app/game/dice.py).  Every player   *)
(* owns a path: index 0 is the home base, the indices up to                *)
(* WinPathIndex - 1 are squares shared with the other players, and         *)
(* WinPathIndex is the centre.  The real tables are in AshtaBoard; the     *)
(* rules never look at a square except to compare it with another one, so  *)
(* the modules below work for every board that meets BoardAssumption.      *)
(***************************************************************************)
EXTENDS Naturals

CONSTANTS
  NumPlayers,       \* NUM_PLAYERS
  PawnsPerPlayer,   \* PAWNS_PER_PLAYER
  WinPathIndex,     \* WIN_PATH_INDEX
  Paths,            \* PATHS: player -> path index -> square
  SafeSquares,      \* SAFE_SQUARES
  RollValues,       \* COWRIE_VALUES
  ReleaseValues,    \* RELEASE_VALUES: rolls that let a pawn leave home
  ExtraTurnValues   \* EXTRA_TURN_VALUES: rolls that earn another turn

Player    == 0 .. NumPlayers - 1
Pawn      == 0 .. PawnsPerPlayer - 1
PathIndex == 0 .. WinPathIndex

(***************************************************************************)
(* What the tables of board.py and dice.py promise the rules: a path never *)
(* visits a square twice, the centre is safe, and a roll of one is         *)
(* possible and releases a pawn.                                           *)
(***************************************************************************)
ASSUME BoardAssumption ==
  /\ NumPlayers \in Nat \ {0}
  /\ PawnsPerPlayer \in Nat \ {0}
  /\ WinPathIndex \in Nat \ {0}
  /\ \A p \in Player : \A i, k \in PathIndex :
        Paths[p][i] = Paths[p][k] => i = k
  /\ \A p \in Player : Paths[p][WinPathIndex] \in SafeSquares
  /\ RollValues \subseteq Nat \ {0}
  /\ 1 \in RollValues \cap ReleaseValues

(* Mutant of NextPlayer: the round does not close. *)
NextPlayerNoWrap(p) == p + 1

(* The turn order is round robin. *)
NextPlayer(p) == (p + 1) % NumPlayers

(* A pawn that is neither at home nor finished: only such pawns block a    *)
(* friend or can be captured.                                              *)
InPlay(i) == i # 0 /\ i # WinPathIndex

(* The pawns of players other than p on the square sq. *)
EnemiesOn(p, positions, sq) ==
  {v \in Player \X Pawn : /\ v[1] # p
                          /\ InPlay(positions[v[1]][v[2]])
                          /\ Paths[v[1]][positions[v[1]][v[2]]] = sq}

=============================================================================
