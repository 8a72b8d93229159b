------------------------------- MODULE Moves -------------------------------
(***************************************************************************)
(* The move generator, server/app/game/moves.py.                           *)
(***************************************************************************)
EXTENDS Board

(* A friend of pawn j already stands on the square with path index i. *)
FriendOn(p, own, j, i) ==
  \E k \in Pawn \ {j} : InPlay(own[k]) /\ Paths[p][own[k]] = Paths[p][i]

(* Mutant of CanMove: friends may stack anywhere. *)
CanMoveStacking(p, own, j, roll) ==
  /\ own[j] # WinPathIndex
  /\ own[j] = 0 => roll \in ReleaseValues
  /\ own[j] + roll <= WinPathIndex

(* Mutant of CanMove: the centre itself counts as an overshoot. *)
CanMoveShort(p, own, j, roll) ==
  /\ own[j] = 0 => roll \in ReleaseValues
  /\ own[j] + roll < WinPathIndex
  /\ \/ Paths[p][own[j] + roll] \in SafeSquares
     \/ ~ FriendOn(p, own, j, own[j] + roll)

(* Pawn j of player p may advance by roll; own are p's path indices. *)
CanMove(p, own, j, roll) ==
  /\ own[j] # WinPathIndex
  /\ own[j] = 0 => roll \in ReleaseValues
  /\ own[j] + roll <= WinPathIndex
  /\ \/ Paths[p][own[j] + roll] \in SafeSquares
     \/ ~ FriendOn(p, own, j, own[j] + roll)

(* A Move object; its player is the current one and its origin is where    *)
(* the pawn stands, so only the pawn and the destination are kept.         *)
Move == [pawn_index : Pawn, to_path_index : PathIndex]

LegalMoves(p, own, roll) ==
  {[pawn_index |-> j, to_path_index |-> own[j] + roll] :
      j \in {k \in Pawn : CanMove(p, own, k, roll)}}

=============================================================================
