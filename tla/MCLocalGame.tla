---------------------------- MODULE MCLocalGame ----------------------------
(***************************************************************************)
(* A human and an AI player with two pawns each on a small board: a ring   *)
(* of four squares that both walk, entering on opposite, safe sides, then  *)
(* an inner square and the centre.                                         *)
(***************************************************************************)
EXTENDS LocalGame

MiniPaths ==
  [p \in 0 .. 1 |-> [i \in 0 .. 5 |->
     IF i < 4 THEN <<"ring", (2 * p + i) % 4>>
     ELSE IF i = 4 THEN <<"inner", 0>> ELSE <<"centre", 0>>]]

MiniSafe == {<<"ring", 0>>, <<"ring", 2>>, <<"centre", 0>>}

=============================================================================
