------------------------------ MODULE Cleanup ------------------------------
(***************************************************************************)
(* The idle-room cleanup, server/app/tasks/cleanup.py.  Every replica of   *)
(* the server runs the same loop against one Redis and one PostgreSQL, so  *)
(* the workers interleave at every await: reading the activity, selecting  *)
(* the row, committing, deleting the keys.  Nothing locks a room.          *)
(*                                                                         *)
(* Before anything is changed the clients are notified.  The broadcast     *)
(* keeps nothing and its failure is swallowed, so it takes no step of its  *)
(* own; but the name it calls is imported before that try, and where       *)
(* routes/websocket.py does not define it, as it does not at this commit,  *)
(* the ImportError gives up the room.                                      *)
(***************************************************************************)
EXTENDS Naturals, FiniteSets

CONSTANTS
  Worker,           \* the replicas, each running run_cleanup_loop
  RoomId,
  OddKey,           \* keys that match the pattern and name no room
  BroadcastDefined, \* routes/websocket.py defines broadcast_to_room
  MaxFaults,        \* bound: crashes and failed calls in a run
  None

ASSUME CleanupAssumption ==
  /\ IsFiniteSet(Worker) /\ MaxFaults \in Nat
  /\ RoomId \cap OddKey = {} /\ None \notin RoomId
  /\ BroadcastDefined \in BOOLEAN

VARIABLES
  last_activity,    \* the room's Redis keys: "none", or the age of last_activity
  status,           \* the room's row: "missing", "open", or a terminal status
  audit,            \* the number of its audit rows room.auto_closed
  pc,               \* what each worker does next
  todo,             \* keys it has yet to look at
  idle,             \* rooms that are idle as seen from its now
  at,               \* the room it is abandoning
  faults,           \* faults so far
  stray             \* ghost: rooms whose keys a fault or a late player left

vars == <<last_activity, status, audit, pc, todo, idle, at, faults, stray>>

Terminal == {"completed", "abandoned"}

TypeOK ==
  /\ last_activity \in [RoomId -> {"none", "fresh", "idle"}]
  /\ status \in [RoomId -> {"missing", "open"} \cup Terminal]
  /\ audit \in [RoomId -> Nat]
  /\ pc \in [Worker -> {"sleep", "loop", "select", "commit", "delete"}]
  /\ todo \in [Worker -> SUBSET RoomId]
  /\ idle \in [Worker -> SUBSET RoomId]
  /\ at \in [Worker -> RoomId \cup {None}]
  /\ \A w \in Worker : at[w] = None <=> pc[w] \in {"sleep", "loop"}
  /\ faults \in 0 .. MaxFaults
  /\ stray \subseteq RoomId

Init ==
  /\ last_activity = [r \in RoomId |-> "fresh"]
  /\ status \in [RoomId -> {"missing", "open"}]
  /\ audit = [r \in RoomId |-> 0]
  /\ pc = [w \in Worker |-> "sleep"]
  /\ todo = [w \in Worker |-> {}]
  /\ idle = [w \in Worker |-> {}]
  /\ at = [w \in Worker |-> None]
  /\ faults = 0 /\ stray = {}

-----------------------------------------------------------------------------
(* The rest of the system: players act and stop acting, games end.         *)

(* A player acts, even in a room that has just been abandoned.             *)
Touch(r) ==
  /\ last_activity' = [last_activity EXCEPT ![r] = "fresh"]
  /\ idle' = [w \in Worker |-> idle[w] \ {r}]
  /\ stray' = IF status[r] = "abandoned" THEN stray \cup {r} ELSE stray
  /\ UNCHANGED <<status, audit, pc, todo, at, faults>>

(* ROOM_IDLE_TIMEOUT_SECONDS pass. *)
Age(r) ==
  /\ last_activity[r] = "fresh"
  /\ last_activity' = [last_activity EXCEPT ![r] = "idle"]
  /\ UNCHANGED <<status, audit, pc, todo, idle, at, faults, stray>>

Complete(r) ==
  /\ status[r] = "open"
  /\ status' = [status EXCEPT ![r] = "completed"]
  /\ UNCHANGED <<last_activity, audit, pc, todo, idle, at, faults, stray>>

-----------------------------------------------------------------------------
(* One worker.                                                             *)

Goto(w, label, room) ==
  /\ pc' = [pc EXCEPT ![w] = label]
  /\ at' = [at EXCEPT ![w] = room]

ScannedKeys == {r \in RoomId : last_activity[r] # "none"} \cup OddKey

(* The sleep ends: now is taken and the keys are scanned and parsed.       *)
StartPass(w) ==
  /\ pc[w] = "sleep"
  /\ Goto(w, "loop", None)
  /\ todo' = [todo EXCEPT ![w] = ScannedKeys \cap RoomId]
  /\ idle' = [idle EXCEPT ![w] = {r \in RoomId : last_activity[r] = "idle"}]
  /\ UNCHANGED <<last_activity, status, audit, faults, stray>>

(* The next key is read: gone, still active at now, or idle.  Then the     *)
(* clients are notified, in the same step: an ImportError is caught by     *)
(* cleanup_idle_rooms, which goes on with the next key.                    *)
ReadActivity(w) ==
  /\ pc[w] = "loop"
  /\ \E r \in todo[w] :
       /\ todo' = [todo EXCEPT ![w] = @ \ {r}]
       /\ IF last_activity[r] # "none" /\ r \in idle[w] /\ BroadcastDefined
            THEN Goto(w, "select", r) ELSE UNCHANGED <<pc, at>>
  /\ UNCHANGED <<last_activity, status, audit, idle, faults, stray>>

EndPass(w) ==
  /\ pc[w] = "loop" /\ todo[w] = {}
  /\ Goto(w, "sleep", None)
  /\ idle' = [idle EXCEPT ![w] = {}]
  /\ UNCHANGED <<last_activity, status, audit, todo, faults, stray>>

(* Mutant of SelectRoom: only a completed room is skipped. *)
SelectRoomCompletedOnly(w) ==
  /\ pc[w] = "select"
  /\ IF status[at[w]] \in {"missing", "completed"}
       THEN Goto(w, "loop", None) ELSE Goto(w, "commit", at[w])
  /\ UNCHANGED <<last_activity, status, audit, todo, idle, faults, stray>>

(* Mutant of SelectRoom: the keys of a terminal room are deleted. *)
SelectRoomAndDelete(w) ==
  /\ pc[w] = "select"
  /\ IF status[at[w]] \in Terminal \cup {"missing"}
       THEN Goto(w, "delete", at[w]) ELSE Goto(w, "commit", at[w])
  /\ UNCHANGED <<last_activity, status, audit, todo, idle, faults, stray>>

(* _persist_abandoned_status, first half: the row is selected, without a   *)
(* lock, and a terminal or missing one ends the matter.                    *)
SelectRoom(w) ==
  /\ pc[w] = "select"
  /\ IF status[at[w]] \in Terminal \cup {"missing"}
       THEN Goto(w, "loop", None) ELSE Goto(w, "commit", at[w])
  /\ UNCHANGED <<last_activity, status, audit, todo, idle, faults, stray>>

(* Mutant of Commit: the keys are left to the next pass. *)
CommitAndGoOn(w) ==
  /\ pc[w] = "commit"
  /\ status' = [status EXCEPT ![at[w]] = "abandoned"]
  /\ audit' = [audit EXCEPT ![at[w]] = @ + 1]
  /\ Goto(w, "loop", None)
  /\ UNCHANGED <<last_activity, todo, idle, faults, stray>>

(* Second half: the UPDATE goes by the primary key, so it overwrites what  *)
(* was committed since the SELECT, and the audit row comes with it.        *)
Commit(w) ==
  /\ pc[w] = "commit"
  /\ status' = [status EXCEPT ![at[w]] = "abandoned"]
  /\ audit' = [audit EXCEPT ![at[w]] = @ + 1]
  /\ Goto(w, "delete", at[w])
  /\ UNCHANGED <<last_activity, todo, idle, faults, stray>>

(* _delete_redis_keys: one DEL for all keys of the room. *)
DeleteKeys(w) ==
  /\ pc[w] = "delete"
  /\ last_activity' = [last_activity EXCEPT ![at[w]] = "none"]
  /\ idle' = [v \in Worker |-> idle[v] \ {at[w]}]
  /\ Goto(w, "loop", None)
  /\ UNCHANGED <<status, audit, todo, faults, stray>>

NoteStray(w) ==
  stray' = IF pc[w] = "delete" THEN stray \cup {at[w]} ELSE stray

(* A call to the database or to Redis fails.  The transaction is rolled    *)
(* back; cleanup_idle_rooms logs the error and goes on with the next room. *)
CallFails(w) ==
  /\ faults < MaxFaults /\ faults' = faults + 1
  /\ \/ /\ pc[w] \in {"select", "commit", "delete"}
        /\ Goto(w, "loop", None)
        /\ UNCHANGED todo
     \/ /\ pc[w] = "loop"
        /\ \E r \in todo[w] : todo' = [todo EXCEPT ![w] = @ \ {r}]
        /\ UNCHANGED <<pc, at>>
  /\ NoteStray(w)
  /\ UNCHANGED <<last_activity, status, audit, idle>>

(* The replica is killed and started again. *)
Crash(w) ==
  /\ faults < MaxFaults /\ faults' = faults + 1
  /\ pc[w] # "sleep"
  /\ Goto(w, "sleep", None)
  /\ todo' = [todo EXCEPT ![w] = {}]
  /\ idle' = [idle EXCEPT ![w] = {}]
  /\ NoteStray(w)
  /\ UNCHANGED <<last_activity, status, audit>>

Step(w) ==
  \/ StartPass(w) \/ ReadActivity(w) \/ EndPass(w)
  \/ SelectRoom(w) \/ Commit(w) \/ DeleteKeys(w)

Next ==
  \/ \E r \in RoomId : Touch(r) \/ Age(r) \/ Complete(r)
  \/ \E w \in Worker : Step(w) \/ CallFails(w) \/ Crash(w)

(* run_cleanup_loop never stops: it catches everything and sleeps.         *)
Spec == Init /\ [][Next]_vars /\ \A w \in Worker : WF_vars(Step(w))

-----------------------------------------------------------------------------

(* A room is abandoned exactly if the audit trail says so, and says so at  *)
(* most once for every replica: status and audit row are one transaction,  *)
(* and whoever selects the row after the first commit leaves it alone.     *)
AuditTrail ==
  \A r \in RoomId :
    /\ status[r] = "abandoned" <=> audit[r] > 0
    /\ audit[r] <= Cardinality(Worker)

(* The keys of a room are wiped only when its abandonment is committed,    *)
(* whatever crashed or failed before and whichever replica committed: a    *)
(* room that is still open in the database has not lost its state.         *)
DeletedAfterCommit ==
  [][ \A r \in RoomId :
        last_activity[r] # "none" /\ last_activity'[r] = "none" => status[r] = "abandoned" ]_vars

(* BR-5: "room sessions that have been inactive ... are automatically      *)
(* transitioned to abandoned status": a room with a row does not stay idle *)
(* and open, whatever fails, since "notification failure must not abort    *)
(* the cleanup sequence".                                                  *)
IdleRoomsClosed ==
  \A r \in RoomId : []<>(status[r] # "open" \/ last_activity[r] # "idle")

(* The keys of an abandoned room do not stay behind, unless a fault hit    *)
(* the deletion or a player acted after the abandonment.                   *)
KeysDeleted ==
  \A r \in RoomId :
    []<>(status[r] # "abandoned" \/ last_activity[r] = "none" \/ r \in stray)

(* "Rooms already in a terminal state ... are skipped - the operation is   *)
(* idempotent": a room is closed once, with one audit row.                 *)
ClosedOnce == \A r \in RoomId : audit[r] <= 1

=============================================================================
