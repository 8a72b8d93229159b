------------------------------ MODULE AIPlayer ------------------------------
(***************************************************************************)
(* The AI opponent on the server: GameService.execute_ai_turn of           *)
(* server/app/services/game_service.py and the scoring of                  *)
(* server/app/game/ai_engine.py, on the real board.  The service sleeps    *)
(* and then chooses from the session object it was given, which its caller *)
(* shares.  The caller, which fills legal_moves and applies the answer, is *)
(* not in the repository yet; it is modelled by what the classes of        *)
(* ai_engine.py ask of it.                                                 *)
(*                                                                         *)
(* Scores are in units of 1/2400, in which all weights times factors of    *)
(* the defaults are whole numbers.                                         *)
(***************************************************************************)
EXTENDS Moves, AshtaBoard, Integers, FiniteSets

CONSTANTS
  AIIndex,          \* current_player_index of the AI's turn
  Spots,            \* path indices of the pawns explored
  Overrides         \* strategy_weights of the personas: partial functions

ASSUME AIAssumption ==
  /\ WinPathIndex = WIN_PATH_INDEX
  /\ AIIndex \in Player /\ Spots \subseteq PathIndex

VARIABLES
  board,            \* pawns of the session: player -> pawn -> path index
  roll_value,       \* roll_value
  on_turn,          \* legal_moves has been filled for the AI's turn
  persona,          \* AIPersona: difficulty_level and strategy_weights
  turn              \* execute_ai_turn: "none", "thinking", "error", a move

aiVars == <<board, roll_value, on_turn, persona, turn>>

Unit == 2400

(***************************************************************************)
(* The moves as the engine sees them.  The generator's rules are those of  *)
(* moves.py; a move captures when an enemy stands on an unsafe target.     *)
(***************************************************************************)
LegalMove(m) ==
  LET from == board[AIIndex][m.pawn_index]
      to   == Paths[AIIndex][m.to_path_index]
  IN [pawn_id |-> m.pawn_index, from_path_index |-> from,
      from_board_pos |-> Paths[AIIndex][from], to_board_pos |-> to,
      is_release |-> from = 0,
      is_capture |-> to \notin SafeSquares /\ EnemiesOn(AIIndex, board, to) # {}]

AIMoves ==
  IF on_turn THEN {LegalMove(m) : m \in LegalMoves(AIIndex, board[AIIndex], roll_value)} ELSE {}

Abs(n) == IF n < 0 THEN - n ELSE n
Distance(a, b) == Abs(Row(a) - Row(b)) + Abs(Column(a) - Column(b))
Least(S) == CHOOSE x \in S : \A y \in S : x <= y

(* The opponents' pawns on the board, and where they stand. *)
Opponents == {v \in (Player \ {AIIndex}) \X Pawn : InPlay(board[v[1]][v[2]])}
At(v) == Paths[v[1]][board[v[1]][v[2]]]

-----------------------------------------------------------------------------
(* The factors, each at most Unit.                                         *)

CaptureScore(m) == IF m.is_capture THEN Unit ELSE 0

ProgressScore(m) ==
  IF m.is_release \/ m.from_path_index <= 0 THEN 0
  ELSE Unit - m.from_path_index * (Unit \div (WIN_PATH_INDEX - 1))

ReleaseScore(m) == IF m.is_release THEN Unit ELSE 0

SafetyScore(m) ==
  Unit - (Unit \div 16) * Least({Distance(m.to_board_pos, sq) : sq \in SafeSquares})

BlockingScore(m) ==
  IF m.to_board_pos \in SafeSquares THEN 0
  ELSE (Unit \div 4) * Cardinality({At(v) : v \in {w \in Opponents : Distance(At(w), m.to_board_pos) = 1}})

(* Only the first opponent within reach counts, not the nearest; the pawns *)
(* are listed by player and pawn.                                          *)
VulnerabilityScore(m) ==
  LET near == {v \in Opponents : Distance(m.from_board_pos, At(v)) <= 4}
      Before(v, w) == v[1] < w[1] \/ (v[1] = w[1] /\ v[2] <= w[2])
      first == CHOOSE v \in near : \A w \in near : Before(v, w)
  IN IF m.is_release \/ m.from_board_pos \in SafeSquares \/ near = {} THEN 0
     ELSE (Unit \div 5) * (5 - Distance(m.from_board_pos, At(first)))

(* _DEFAULT_WEIGHTS in tenths, and the persona's on top of them. *)
DefaultWeights(level) ==
  IF level = "medium" THEN [capture |-> 20, progress |-> 15, release |-> 12]
  ELSE [capture |-> 30, progress |-> 20, release |-> 15,
        safety |-> 18, blocking |-> 16, vulnerability |-> 14]

(* Mutant of MergeWeights: a capture weighs half of its default.           *)
MergeWeightsHalfCapture(level) ==
  [f \in DOMAIN DefaultWeights(level) |->
     IF f = "capture" THEN 10 ELSE DefaultWeights(level)[f]]

MergeWeights(level) ==
  LET merged == persona.strategy_weights
  IN [f \in DOMAIN DefaultWeights(level) \cup DOMAIN merged |->
        IF f \in DOMAIN merged THEN merged[f] ELSE DefaultWeights(level)[f]]

MediumScore(m) ==
  LET w == MergeWeights("medium")
  IN w.capture * CaptureScore(m) + w.progress * ProgressScore(m) + w.release * ReleaseScore(m)

HardScore(m) ==
  LET w == MergeWeights("hard")
  IN w.capture * CaptureScore(m) + w.progress * ProgressScore(m) + w.release * ReleaseScore(m)
     + w.safety * SafetyScore(m) + w.blocking * BlockingScore(m)
     + w.vulnerability * VulnerabilityScore(m)

(* _HARD_NOISE_MAX, in the same tenths: what a draw can add to one move    *)
(* and not to another.                                                     *)
HardNoise == Unit \div 2

(* The moves select_move may return; ties depend on the order of the list. *)
SelectMove ==
  CASE persona.difficulty_level = "medium" ->
         {m \in AIMoves : \A n \in AIMoves : MediumScore(n) <= MediumScore(m)}
    [] persona.difficulty_level = "hard" ->
         {m \in AIMoves : \A n \in AIMoves : HardScore(n) <= HardScore(m) + HardNoise}
    [] OTHER -> AIMoves

-----------------------------------------------------------------------------

NoTurn == [state |-> "none"]

AIInit ==
  /\ board \in [Player -> [Pawn -> Spots]]
  /\ roll_value \in RollValues
  /\ on_turn = TRUE
  /\ persona \in [difficulty_level : {"easy", "medium", "hard", "expert"},
                  strategy_weights : Overrides]
  /\ turn = NoTurn

(* execute_ai_turn up to the end of its sleep. *)
ExecuteAITurn ==
  /\ turn = NoTurn
  /\ turn' = [state |-> "thinking"]
  /\ UNCHANGED <<board, roll_value, on_turn, persona>>

(* The caller changes the session meanwhile: another roll is made, or the  *)
(* turn is over and legal_moves is emptied.                                *)
SessionChanges ==
  /\ turn.state = "thinking"
  /\ \/ roll_value' \in RollValues /\ on_turn' = TRUE
     \/ on_turn' = FALSE /\ UNCHANGED roll_value
  /\ UNCHANGED <<board, persona, turn>>

(* select_move after the sleep; without a move it raises ValueError. *)
CommitMove ==
  /\ turn.state = "thinking"
  /\ \/ AIMoves = {} /\ turn' = [state |-> "error"]
     \/ \E m \in SelectMove : turn' = [state |-> "done", move |-> m]
  /\ UNCHANGED <<board, roll_value, on_turn, persona>>

AINext == ExecuteAITurn \/ SessionChanges \/ CommitMove

(***************************************************************************)
(* The answer fits the session as it is when the answer is given, after    *)
(* the sleep: the pawn may move by the roll that counts now.  And with the *)
(* default weights a medium opponent takes a pawn whenever it can: no sum  *)
(* of the other factors outweighs a capture on any square of the board.    *)
(***************************************************************************)
AnswerFits ==
  turn.state = "done" =>
    /\ turn.move \in AIMoves
    /\ /\ persona.difficulty_level = "medium"
       /\ persona.strategy_weights = <<>>
       /\ \E m \in AIMoves : m.is_capture
       => turn.move.is_capture

=============================================================================
