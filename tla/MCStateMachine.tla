--------------------------- MODULE MCStateMachine ---------------------------
(***************************************************************************)
(* A small board for TLC: three players with two pawns each.  The path of  *)
(* player p enters a ring of four squares at square p, walks three of      *)
(* them, crosses the square "inner" and ends in the centre.                *)
(***************************************************************************)
EXTENDS StateMachine

RingSquare(p, i) == <<"ring", (p + i - 1) % 4>>

MiniPaths ==
  [p \in 0 .. 2 |-> [i \in 0 .. 5 |->
     CASE i = 0 -> <<"home", p>>
       [] i \in 1 .. 3 -> RingSquare(p, i)
       [] i = 4 -> <<"inner", 0>>
       [] i = 5 -> <<"centre", 0>>]]

MiniSafe == {<<"ring", 0>>, <<"centre", 0>>}

=============================================================================
