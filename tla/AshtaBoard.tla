----------------------------- MODULE AshtaBoard -----------------------------
(***************************************************************************)
(* The real tables of the board, server/app/game/board.py.                 *)
(* The square (r, c) of the 9 x 9 grid is the number 10 * r + c.           *)
(***************************************************************************)
EXTENDS Naturals, Sequences

Square(r, c) == 10 * r + c
Row(sq)      == sq \div 10
Column(sq)   == sq % 10

WIN_PATH_INDEX == 49

SAFE_SQUARES == {14, 22, 26, 41, 44, 47, 62, 66, 74}

(* The paths of the four players, in the order of the source.              *)
PathTable == <<
  <<  4,
     14, 13, 12, 11, 21, 31, 41, 51, 61, 71, 72, 73,
     74, 75, 76, 77, 67, 57, 47, 37, 27, 17, 16, 15,
     26, 36, 46, 56, 66, 65, 64, 63, 62, 52, 42, 32,
     22, 23, 24, 25, 35, 45, 55, 54, 53, 43, 33, 34,
     44 >>,
  << 40,
     41, 51, 61, 71, 72, 73, 74, 75, 76, 77, 67, 57,
     47, 37, 27, 17, 16, 15, 14, 13, 12, 11, 21, 31,
     22, 23, 24, 25, 26, 36, 46, 56, 66, 65, 64, 63,
     62, 52, 42, 32, 33, 34, 35, 45, 55, 54, 53, 43,
     44 >>,
  << 84,
     74, 75, 76, 77, 67, 57, 47, 37, 27, 17, 16, 15,
     14, 13, 12, 11, 21, 31, 41, 51, 61, 71, 72, 73,
     62, 52, 42, 32, 22, 23, 24, 25, 26, 36, 46, 56,
     66, 65, 64, 63, 53, 43, 33, 34, 35, 45, 55, 54,
     44 >>,
  << 48,
     47, 37, 27, 17, 16, 15, 14, 13, 12, 11, 21, 31,
     41, 51, 61, 71, 72, 73, 74, 75, 76, 77, 67, 57,
     66, 65, 64, 63, 62, 52, 42, 32, 22, 23, 24, 25,
     26, 36, 46, 56, 55, 54, 53, 43, 33, 34, 35, 45,
     44 >> >>

PATHS == [p \in 0 .. 3 |-> [i \in 0 .. WIN_PATH_INDEX |-> PathTable[p + 1][i + 1]]]

(* The inner square of the grid, which the home stretches share.           *)
Inner(sq) == Row(sq) \in 2 .. 6 /\ Column(sq) \in 2 .. 6

(***************************************************************************)
(* What board.py says of its tables: fifty squares each, the first 24      *)
(* after the home base on the outer track, the rest in the inner square,   *)
(* the centre last.  The paths are one path turned by a quarter, so no     *)
(* player is better off, and no path crosses a home base.                  *)
(***************************************************************************)
ASSUME TablesAssumption ==
  /\ \A p \in 0 .. 3 : Len(PathTable[p + 1]) = WIN_PATH_INDEX + 1
  /\ \A p \in 0 .. 3, i \in 0 .. WIN_PATH_INDEX : Inner(PATHS[p][i]) <=> i > 24
  /\ \A p, q \in 0 .. 3, i \in 1 .. WIN_PATH_INDEX : PATHS[p][i] # PATHS[q][0]
  /\ \A p \in 0 .. 2, i \in 0 .. WIN_PATH_INDEX :
       PATHS[p + 1][i] = Square(8 - Column(PATHS[p][i]), Row(PATHS[p][i]))
  /\ \A sq \in SAFE_SQUARES : Square(8 - Column(sq), Row(sq)) \in SAFE_SQUARES
  /\ \A p \in 0 .. 3 : PATHS[p][WIN_PATH_INDEX] = 44

=============================================================================
