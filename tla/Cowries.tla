------------------------------ MODULE Cowries ------------------------------
(***************************************************************************)
(* The throw animation, client/src/components/Cowrie/CowriePhysics.tsx     *)
(* with client/src/hooks/usePhysicsSettle.ts.  The parent asks for a throw *)
(* by a new rollTrigger and is told by onSettled that it is over.  setPhase *)
(* only queues the new phase: until React renders, frames and timers still *)
(* run with the callbacks of the phase before.                             *)
(***************************************************************************)
EXTENDS Naturals

CONSTANTS
  MaxThrows,        \* bound: rollTrigger
  SettledFrames,    \* REQUIRED_SETTLED_FRAMES
  LerpFrames,       \* frames until lerpProgress reaches 1
  NoPhase           \* no phase is queued

ASSUME CowriesAssumption ==
  MaxThrows \in Nat \ {0} /\ SettledFrames \in Nat \ {0} /\ LerpFrames \in Nat \ {0}

VARIABLES
  throws,           \* rollTrigger
  phase,            \* AnimPhase as rendered
  queued,           \* what the last setPhase since has asked for
  frames,           \* settledFrameCount
  called,           \* hasCalledSettled
  timeout,          \* timeoutIdRef is armed
  lerp,             \* lerpProgress, in frames
  kinematic,        \* the shells no longer obey physics, since the first settle
  settled,          \* ghost: handlePhysicsSettled calls in this active cycle
  answered          \* ghost: the throw that onSettled was last called for

cowriesVars == <<throws, phase, queued, frames, called, timeout, lerp, kinematic,
                 settled, answered>>

CowriesInit ==
  /\ throws = 0 /\ phase = "idle" /\ queued = NoPhase
  /\ frames = 0 /\ called = FALSE /\ timeout = FALSE
  /\ lerp = 0 /\ kinematic = FALSE
  /\ settled = 0 /\ answered = 0

(* Mutant of Monitor: a new cycle does not forget the one before. *)
MonitorCalled(new) ==
  IF new = "rolling" /\ phase # "rolling"
  THEN frames' = 0 /\ timeout' = TRUE /\ settled' = 0 /\ UNCHANGED called
  ELSE /\ timeout' = (timeout /\ new = "rolling")
       /\ UNCHANGED <<frames, called, settled>>

(* The effect of usePhysicsSettle: a cycle begins when isActive comes on,  *)
(* and its clean-up clears the timeout when it goes off.                   *)
Monitor(new) ==
  IF new = "rolling" /\ phase # "rolling"
  THEN frames' = 0 /\ called' = FALSE /\ timeout' = TRUE /\ settled' = 0
  ELSE /\ timeout' = (timeout /\ new = "rolling")
       /\ UNCHANGED <<frames, called, settled>>

(* React renders the phase that was queued. *)
RenderPhase ==
  /\ queued # NoPhase
  /\ phase' = queued /\ queued' = NoPhase
  /\ Monitor(queued)
  /\ UNCHANGED <<throws, lerp, kinematic, answered>>

(* The parent renders a new rollTrigger, and with it what was queued; the  *)
(* effect launches the shells and queues the phase again.                  *)
Throw ==
  LET new == IF queued = NoPhase THEN phase ELSE queued
  IN /\ throws < MaxThrows
     /\ throws' = throws + 1
     /\ phase' = new /\ queued' = "rolling" /\ lerp' = 0
     /\ Monitor(new)
     /\ UNCHANGED <<kinematic, answered>>

(* Mutant of TriggerSettled: nothing records that it has run. *)
TriggerSettledUnmarked ==
  /\ timeout' = FALSE /\ kinematic' = TRUE
  /\ lerp' = 0 /\ queued' = "lerping" /\ settled' = settled + 1
  /\ UNCHANGED called

(* triggerSettled with handlePhysicsSettled as its onSettled. *)
TriggerSettled ==
  /\ called' = TRUE
  /\ timeout' = FALSE /\ kinematic' = TRUE
  /\ lerp' = 0 /\ queued' = "lerping" /\ settled' = settled + 1

(* A frame of the hook.  Shells that fly may be above the thresholds for   *)
(* as long as they like, kinematic ones are at rest.                       *)
SettleFrame ==
  /\ phase = "rolling" /\ ~ called
  /\ \E below \in {TRUE, kinematic} : frames' = IF below THEN frames + 1 ELSE 0
  /\ \/ frames' >= SettledFrames /\ TriggerSettled
     \/ frames' < SettledFrames /\ UNCHANGED <<called, timeout, kinematic, lerp, queued, settled>>
  /\ UNCHANGED <<throws, phase, answered>>

(* SETTLE_TIMEOUT_MS are over. *)
Timeout2s ==
  /\ timeout
  /\ \/ ~ called /\ TriggerSettled
     \/ called /\ timeout' = FALSE /\ UNCHANGED <<called, kinematic, lerp, queued, settled>>
  /\ UNCHANGED <<throws, phase, frames, answered>>

(* A frame of the lerp; a late frame may bring it to its end at once. *)
LerpFrame ==
  /\ phase = "lerping"
  /\ lerp' \in {IF lerp < LerpFrames THEN lerp + 1 ELSE lerp, LerpFrames}
  /\ IF lerp' = LerpFrames THEN queued' = "done" /\ answered' = throws
                           ELSE UNCHANGED <<queued, answered>>
  /\ UNCHANGED <<throws, phase, frames, called, timeout, kinematic, settled>>

CowriesNext == RenderPhase \/ Throw \/ SettleFrame \/ Timeout2s \/ LerpFrame

(* The browser renders, draws frames and fires timers; the shells need     *)
(* never come to rest, and the parent need never throw.                    *)
CowriesFairness ==
  WF_cowriesVars(RenderPhase) /\ WF_cowriesVars(Timeout2s) /\ WF_cowriesVars(LerpFrame)

-----------------------------------------------------------------------------

(***************************************************************************)
(* usePhysicsSettle.ts:33, "Fired exactly once per active cycle, either    *)
(* from velocity check or timeout": frames go on and the timeout is due    *)
(* while the end of the cycle waits for its render, and still it ends the  *)
(* cycle only once.                                                        *)
(***************************************************************************)
SettledOnce == settled <= 1

(***************************************************************************)
(* The animation never hangs: after every throw the parent is told that a  *)
(* throw no older than it is over, even if throws are asked for during     *)
(* others and no shell ever comes to rest.                                 *)
(***************************************************************************)
ThrowAnswered == \A n \in 1 .. MaxThrows : (throws = n) ~> (answered >= n)

=============================================================================
