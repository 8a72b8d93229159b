------------------------------ MODULE MCClient ------------------------------
(***************************************************************************)
(* What runs by itself in the browser beside the game: the connection with *)
(* its timers, the throw animation with its own, and a pawn's animation.   *)
(* They share no state, so every behaviour follows one of them.            *)
(***************************************************************************)
EXTENDS ClientSocket, Cowries, PawnAnimation

VARIABLE followed  \* the part this behaviour follows

ClientInit ==
  Init /\ CowriesInit /\ PawnInit /\ followed \in {"socket", "cowries", "pawn"}

SocketStep == followed = "socket" /\ Next /\ UNCHANGED <<followed, cowriesVars, pawnVars>>
CowriesStep == followed = "cowries" /\ CowriesNext /\ UNCHANGED <<followed, vars, pawnVars>>
PawnStep == followed = "pawn" /\ PawnNext /\ UNCHANGED <<followed, vars, cowriesVars>>

ClientVars == <<followed, vars, cowriesVars, pawnVars>>

(* Each part is fair by itself; the others have not begun, and nothing of  *)
(* them is enabled.                                                        *)
ClientSpec ==
  /\ ClientInit /\ [][SocketStep \/ CowriesStep \/ PawnStep]_ClientVars
  /\ Fairness /\ CowriesFairness /\ PawnFairness

=============================================================================
