---------------------------- MODULE MCRealBoard ----------------------------
(***************************************************************************)
(* The two programs that play by the kill rule, the engine and the pygame  *)
(* window, on the real board with the real cowries: two players with one   *)
(* pawn each, who meet on the outer track and on the home stretch.  Every  *)
(* behaviour follows one of the programs.                                  *)
(***************************************************************************)
EXTENDS Engine, AshtaBoard, Pygame

ASSUME RealBoardAssumption ==
  /\ Player \subseteq 0 .. 3 /\ Paths = PATHS
  /\ WinPathIndex = WIN_PATH_INDEX /\ Threshold = 24

VARIABLE followed  \* the program this behaviour follows

RealInit == Init /\ PygameInit /\ followed \in {"engine", "pygame"}

EngineStep == followed = "engine" /\ Next /\ UNCHANGED <<followed, pygameVars>>
PygameStep == followed = "pygame" /\ PygameNext /\ UNCHANGED <<followed, vars>>

RealSpec ==
  RealInit /\ [][EngineStep \/ PygameStep]_<<followed, vars, pygameVars>>

(* Without a capture a player stays on the outer track: the gate, an index *)
(* in engine.py, is where the squares of every path turn inwards, and a    *)
(* captured pawn that starts again keeps its player's right of way.        *)
OuterUntilKill ==
  \A p \in Player, j \in Pawn :
    ~ kills_made[p] => ~ Inner(Paths[p][pawns[p][j]])

=============================================================================
