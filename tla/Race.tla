-------------------------------- MODULE Race --------------------------------
(***************************************************************************)
(* What a rules engine of Ashta Chamma promises, one whole turn at a time, *)
(* with no phases and no pending results.  The player on turn either       *)
(* advances one pawn by one roll, or passes because some roll leaves no    *)
(* pawn free.  An opponent that is struck goes home, all of them do, and   *)
(* there is never more than one: a square that is not safe has one         *)
(* occupant.  The first player with every pawn in the centre has won, and  *)
(* nothing happens afterwards.  The one rule the two engines of the server *)
(* differ in is a parameter: the players in StartBarred may not go beyond  *)
(* path index Gate until they have struck somebody.                        *)
(***************************************************************************)
EXTENDS Board

CONSTANTS
  None,             \* no winner yet
  Gate,             \* the last path index open to a barred player
  StartBarred       \* the players barred at the start

VARIABLES
  pawns,            \* pawns[p][j]: path index of pawn j of player p
  turn,             \* whose turn it is
  winner,           \* the player who has finished, or None
  barred            \* the players who have yet to strike somebody

vars == <<pawns, turn, winner, barred>>

Init ==
  /\ pawns = [p \in Player |-> [j \in Pawn |-> 0]]
  /\ turn = 0
  /\ winner = None
  /\ barred = StartBarred

(* The square of path index i is held by a friend of pawn j. *)
Held(p, j, i) ==
  \E k \in Pawn \ {j} : /\ pawns[p][k] \notin {0, WinPathIndex}
                        /\ Paths[p][pawns[p][k]] = Paths[p][i]

Free(p, j, n) ==
  /\ pawns[p][j] + n <= WinPathIndex
  /\ pawns[p][j] = 0 => n \in ReleaseValues
  /\ pawns[p][j] + n > Gate => p \notin barred
  /\ Paths[p][pawns[p][j] + n] \in SafeSquares \/ ~ Held(p, j, pawns[p][j] + n)

Struck(p, i) ==
  IF Paths[p][i] \in SafeSquares THEN {} ELSE EnemiesOn(p, pawns, Paths[p][i])

Advance(p, j, n) ==
  LET to     == pawns[p][j] + n
      struck == Struck(p, to)
  IN /\ winner = None /\ turn = p
     /\ Free(p, j, n)
     /\ \A v, w \in struck : v = w
     /\ pawns' = [q \in Player |-> [k \in Pawn |->
                    IF <<q, k>> = <<p, j>> THEN to
                    ELSE IF <<q, k>> \in struck THEN 0 ELSE pawns[q][k]]]
     /\ winner' = IF \A k \in Pawn : pawns'[p][k] = WinPathIndex THEN p ELSE None
     /\ turn' = IF struck # {} \/ n \in ExtraTurnValues \/ winner' = p
                  THEN p ELSE NextPlayer(p)
     /\ barred' = IF struck # {} THEN barred \ {p} ELSE barred

Pass(p, n) ==
  /\ winner = None /\ turn = p
  /\ \A j \in Pawn : ~ Free(p, j, n)
  /\ turn' = NextPlayer(p)
  /\ UNCHANGED <<pawns, winner, barred>>

Next == \E p \in Player, n \in RollValues :
          Pass(p, n) \/ \E j \in Pawn : Advance(p, j, n)

Spec == Init /\ [][Next]_vars

=============================================================================
