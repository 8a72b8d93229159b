--------------------------- MODULE PawnAnimation ---------------------------
(***************************************************************************)
(* The animation of a pawn, client/src/hooks/usePawnAnimation.ts.  Its     *)
(* owner may call animateTo and snapTo at any time, from within onComplete *)
(* too; the rest happens frame by frame.  Of a position it matters only    *)
(* which waypoint it is, if any, and how many frames the next one is away. *)
(***************************************************************************)
EXTENDS Naturals, Sequences

CONSTANTS
  Place,            \* the positions that waypoints and snapTo name
  MaxWaypoints,     \* bound: waypoints of one animation
  MaxFrames,        \* bound: frames from one waypoint to the next
  OnTheWay          \* a position that is no waypoint

ASSUME PawnAnimationAssumption ==
  MaxWaypoints \in Nat /\ MaxFrames \in Nat \ {0} /\ OnTheWay \notin Place

VARIABLES
  waypoints,        \* waypointsRef
  index,            \* waypointIndexRef
  running,          \* isAnimatingRef
  position,         \* positionRef
  away,             \* frames until the next waypoint is near enough
  owed,             \* ghost: an animation was begun, not replaced, not yet reported
  mistaken          \* ghost: onComplete was called with nothing owed, or too early

pawnVars == <<waypoints, index, running, position, away, owed, mistaken>>

PawnInit ==
  /\ waypoints = <<>> /\ index = 0 /\ running = FALSE
  /\ position \in Place /\ away = 0
  /\ owed = FALSE /\ mistaken = FALSE

(* Frames until the distance between two positions is below                *)
(* ARRIVAL_THRESHOLD.                                                      *)
FramesTo(from, to) ==
  {n \in 0 .. MaxFrames : (from = to => n = 0) /\ (n = 0 => from \in {to, OnTheWay})}

(* animateTo, with the pawn at a position: the animation in progress is    *)
(* replaced.  An empty list is ignored.                                    *)
AnimateTo(from) ==
  /\ \E n \in 1 .. MaxWaypoints : waypoints' \in [1 .. n -> Place]
  /\ index' = 0 /\ running' = TRUE
  /\ position' = from /\ away' \in FramesTo(from, waypoints'[1])
  /\ owed' = TRUE

(* snapTo *)
SnapTo ==
  /\ waypoints' = <<>> /\ index' = 0 /\ running' = FALSE
  /\ position' \in Place /\ away' = 0
  /\ owed' = FALSE

Owner == (AnimateTo(position) \/ SnapTo) /\ UNCHANGED mistaken

(* The pawn moves towards its waypoint, by as much as the frame was long.  *)
Lerp ==
  /\ away > 0
  /\ away' \in 0 .. away - 1 /\ position' = OnTheWay
  /\ UNCHANGED <<waypoints, index, running, owed, mistaken>>

(* Mutant of Advance: the index stays. *)
AdvanceNowhere ==
  /\ away = 0 /\ index + 1 < Len(waypoints)
  /\ position' = waypoints[index + 1]
  /\ UNCHANGED <<waypoints, index, running, away, owed, mistaken>>

(* The pawn takes the exact position of its waypoint and turns to the next *)
(* one.                                                                    *)
Advance ==
  /\ away = 0 /\ index + 1 < Len(waypoints)
  /\ position' = waypoints[index + 1] /\ index' = index + 1
  /\ away' \in FramesTo(position', waypoints[index + 2])
  /\ UNCHANGED <<waypoints, running, owed, mistaken>>

(* Mutant of Complete: isAnimatingRef is cleared after the callback. *)
CompleteThenStop ==
  LET end == IF index < Len(waypoints) THEN waypoints[index + 1] ELSE position
  IN /\ away = 0 /\ index + 1 >= Len(waypoints)
     /\ mistaken' = (mistaken \/ ~ owed \/ end # waypoints[Len(waypoints)])
     /\ \/ /\ \E n \in 1 .. MaxWaypoints : waypoints' \in [1 .. n -> Place]
           /\ away' \in FramesTo(end, waypoints'[1])
           /\ position' = end /\ index' = 0 /\ running' = FALSE /\ owed' = TRUE
        \/ SnapTo
        \/ /\ position' = end /\ index' = Len(waypoints)
           /\ running' = FALSE /\ owed' = FALSE /\ UNCHANGED <<waypoints, away>>

(* The last waypoint, or no waypoint as the frame begins: isAnimatingRef   *)
(* is cleared, then onComplete called, in which the owner may act.         *)
Complete ==
  LET end == IF index < Len(waypoints) THEN waypoints[index + 1] ELSE position
  IN /\ away = 0 /\ index + 1 >= Len(waypoints)
     /\ mistaken' = (mistaken \/ ~ owed \/ waypoints = <<>> \/ end # waypoints[Len(waypoints)])
     /\ \/ AnimateTo(end) \/ SnapTo
        \/ /\ position' = end /\ index' = Len(waypoints)
           /\ running' = FALSE /\ owed' = FALSE /\ UNCHANGED <<waypoints, away>>

Frame == running /\ (Lerp \/ Advance \/ Complete)

PawnNext == Frame \/ Owner

(* The canvas draws frames. *)
PawnFairness == WF_pawnVars(Frame)

-----------------------------------------------------------------------------

(***************************************************************************)
(* "Called once when all waypoints have been reached"                      *)
(* (usePawnAnimation.ts:15): onComplete is only called for an animation    *)
(* that nothing replaced and with the pawn on its last waypoint, and while *)
(* such a call is owed the animation runs, also if the animation was begun *)
(* from within the call for the one before.                                *)
(***************************************************************************)
CompletesOnce == (running <=> owed) /\ ~ mistaken

(***************************************************************************)
(* No animation goes on for ever: unless its owner replaces it again and   *)
(* again, the pawn comes to rest or reports the end of one animation after *)
(* the other.                                                              *)
(***************************************************************************)
AnimationEnds ==
  \/ []<>(~ running)
  \/ []<><<Owner>>_pawnVars
  \/ []<><<Complete>>_pawnVars

=============================================================================
