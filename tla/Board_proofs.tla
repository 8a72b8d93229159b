---------------------------- MODULE Board_proofs ----------------------------
(***************************************************************************)
(* Facts about boards that the proofs of both server engines use.          *)
(***************************************************************************)
EXTENDS Board, FiniteSetTheorems, WellFoundedInduction, TLAPS

(* The players and the pawns are numbered from 0, and there are some, as   *)
(* both engines build the positions over the two counts.                   *)
LEMMA PlayerNat == Player \subseteq Nat /\ Pawn \subseteq Nat /\ 0 \in Player /\ 0 \in Pawn
  BY BoardAssumption DEF Player, Pawn

(* The turn is handed over to one of the players.                          *)
LEMMA NextPlayerType == \A p \in Player : NextPlayer(p) \in Player
  BY BoardAssumption, SMT DEF Player, NextPlayer

(* A non-empty bounded set of numbers has a greatest element: its elements *)
(* with the fewest elements above them, in the ordering by inclusion.      *)
LEMMA GreatestIndex ==
  ASSUME NEW S \in SUBSET Nat, NEW bound \in Nat, \A i \in S : i <= bound, S # {}
  PROVE  \E i \in S : \A k \in S : k <= i
  <1> DEFINE Above(i) == {k \in S : k > i}
             T == {Above(i) : i \in S}
  <1>1. IsFiniteSet(S)
    BY FS_BoundedSetOfNaturals
  <1>2. T \subseteq FiniteSubsetsOf(S) /\ T # {}
    <2>1. \A i : Above(i) \in SUBSET S
      OBVIOUS
    <2>2. \A i : IsFiniteSet(Above(i))
      BY <2>1, <1>1, FS_Subset
    <2>. QED
      BY <2>1, <2>2 DEF FiniteSubsetsOf
  <1>3. \E U \in T : \A V \in T : ~ (<<V, U>> \in StrictSubsetOrdering(S))
    BY <1>2, FS_StrictSubsetOrderingWellFounded, WFMin
  <1>4. PICK i \in S : \A V \in T : ~ (<<V, Above(i)>> \in StrictSubsetOrdering(S))
    BY <1>3
  <1>5. ASSUME NEW k \in S, k > i PROVE FALSE
    <2>0. k \in Nat /\ i \in Nat /\ \A m \in S : m \in Nat
      OBVIOUS
    <2>1. \A m \in S : (m > k => m > i) /\ ~ (k > k)
      BY <2>0, <1>5
    <2>2. Above(k) \subseteq Above(i) /\ k \in Above(i) /\ k \notin Above(k)
      BY <2>1, <1>5
    <2>3. Above(k) \in SUBSET S /\ Above(i) \in SUBSET S /\ Above(k) \in T
      OBVIOUS
    <2> HIDE DEF Above, T
    <2>4. <<Above(k), Above(i)>> \in StrictSubsetOrdering(S)
      BY <2>2, <2>3 DEF StrictSubsetOrdering
    <2>. QED
      BY <2>3, <2>4, <1>4
  <1>. QED
    BY <1>5

=============================================================================
