---------------------------- MODULE MCOnlinePlay ----------------------------
(***************************************************************************)
(* OnlinePlay on small instances: three users of a room with four seats,   *)
(* three sockets of two players with two sends at a time, three            *)
(* connections to a session, and an AI player with two pawns against two.  *)
(***************************************************************************)
EXTENDS OnlinePlay, TLC

(* No part tells the members of these sets apart. *)
MCSymmetry == Permutations(Socket) \cup Permutations(PlayerId)

MCOverrides == {<<>>, [capture |-> 0]}

=============================================================================
