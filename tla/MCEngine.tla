------------------------------ MODULE MCEngine ------------------------------
(***************************************************************************)
(* The engine on a small board: three players with two pawns each, a ring  *)
(* of four squares, then (past Threshold) an inner square and the centre.  *)
(***************************************************************************)
EXTENDS Engine

RingSquare(p, i) == <<"ring", (p + i - 1) % 4>>

MiniPaths ==
  [p \in 0 .. 2 |-> [i \in 0 .. 5 |->
     CASE i = 0 -> <<"home", p>>
       [] i \in 1 .. 3 -> RingSquare(p, i)
       [] i = 4 -> <<"inner", 0>>
       [] i = 5 -> <<"centre", 0>>]]

MiniSafe == {<<"ring", 0>>, <<"centre", 0>>}

=============================================================================
