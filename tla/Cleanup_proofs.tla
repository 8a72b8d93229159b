--------------------------- MODULE Cleanup_proofs ---------------------------
(***************************************************************************)
(* Proofs about the idle-room cleanup for any number of replicas, rooms    *)
(* and faults: types, the audit trail, and that keys are wiped only after  *)
(* a commit.                                                               *)
(***************************************************************************)
EXTENDS Cleanup, FiniteSetTheorems, TLAPS

(* The fields of the cleanup keep their types, for any set of replicas.    *)
THEOREM TypeCorrect == Spec => []TypeOK
  <1>1. Init => TypeOK
    BY CleanupAssumption DEF Init, TypeOK
  <1>2. TypeOK /\ [Next]_vars => TypeOK'
    <2> SUFFICES ASSUME TypeOK, [Next]_vars PROVE TypeOK'
      OBVIOUS
    <2> USE CleanupAssumption DEF TypeOK
    <2>1. ASSUME NEW r \in RoomId, Touch(r) PROVE TypeOK'
      BY <2>1 DEF Touch
    <2>2. ASSUME NEW r \in RoomId, Age(r) PROVE TypeOK'
      BY <2>2 DEF Age
    <2>3. ASSUME NEW r \in RoomId, Complete(r) PROVE TypeOK'
      BY <2>3 DEF Complete, Terminal
    <2>4. ASSUME NEW w \in Worker, StartPass(w) PROVE TypeOK'
      BY <2>4 DEF StartPass, Goto
    <2>5. ASSUME NEW w \in Worker, ReadActivity(w) PROVE TypeOK'
      BY <2>5 DEF ReadActivity, Goto
    <2>6. ASSUME NEW w \in Worker, EndPass(w) PROVE TypeOK'
      BY <2>6 DEF EndPass, Goto
    <2>7. ASSUME NEW w \in Worker, SelectRoom(w) PROVE TypeOK'
      BY <2>7 DEF SelectRoom, Goto
    <2>8. ASSUME NEW w \in Worker, Commit(w) PROVE TypeOK'
      BY <2>8 DEF Commit, Goto, Terminal
    <2>9. ASSUME NEW w \in Worker, DeleteKeys(w) PROVE TypeOK'
      BY <2>9 DEF DeleteKeys, Goto
    <2>10. ASSUME NEW w \in Worker, CallFails(w) PROVE TypeOK'
      BY <2>10 DEF CallFails, Goto, NoteStray
    <2>11. ASSUME NEW w \in Worker, Crash(w) PROVE TypeOK'
      BY <2>11 DEF Crash, Goto, NoteStray
    <2>12. CASE UNCHANGED vars
      BY <2>12 DEF vars
    <2>13. QED
      BY <2>1, <2>2, <2>3, <2>4, <2>5, <2>6, <2>7, <2>8, <2>9, <2>10, <2>11, <2>12
         DEF Next, Step
  <1>3. QED
    BY <1>1, <1>2, PTL DEF Spec

-----------------------------------------------------------------------------

(* The replicas that have selected room r and are yet to commit: each of   *)
(* them will write an audit row, whatever the others have done meanwhile.  *)
Committing(r) == {w \in Worker : pc[w] = "commit" /\ at[w] = r}

(* What the two properties need to be inductive: only a commit abandons a  *)
(* room, a replica deletes only what is abandoned, and audit rows and the  *)
(* replicas about to write one never outnumber the replicas.               *)
IInv ==
  /\ TypeOK
  /\ \A r \in RoomId : status[r] = "abandoned" <=> audit[r] > 0
  /\ \A r \in RoomId : audit[r] + Cardinality(Committing(r)) <= Cardinality(Worker)
  /\ \A w \in Worker : pc[w] = "delete" => status[at[w]] = "abandoned"

LEMMA CommittingFinite ==
  ASSUME NEW r \in RoomId
  PROVE  /\ IsFiniteSet(Committing(r))
         /\ Cardinality(Committing(r)) \in Nat
         /\ Cardinality(Committing(r)) <= Cardinality(Worker)
         /\ Cardinality(Worker) \in Nat
  <1>1. Committing(r) \subseteq Worker
    BY DEF Committing
  <1>2. QED
    BY <1>1, CleanupAssumption, FS_Subset, FS_CardinalityType

(* A step that lets no further replica commit to room r, and writes no     *)
(* audit row for it, keeps within the bound.                               *)
LEMMA FewerCommitting ==
  ASSUME TypeOK, NEW r \in RoomId,
         Committing(r)' \subseteq Committing(r), audit'[r] = audit[r],
         audit[r] + Cardinality(Committing(r)) <= Cardinality(Worker)
  PROVE  (audit[r] + Cardinality(Committing(r)) <= Cardinality(Worker))'
  <1>1. /\ Cardinality(Committing(r)') \in Nat
        /\ Cardinality(Committing(r)') <= Cardinality(Committing(r))
    BY CommittingFinite, FS_Subset, FS_CardinalityType
  <1>2. audit[r] \in Nat
    BY DEF TypeOK
  <1>3. QED
    BY <1>1, <1>2, CommittingFinite

THEOREM Invariance == Spec => []IInv
  <1>1. Init => IInv
    <2> SUFFICES ASSUME Init PROVE IInv
      OBVIOUS
    <2>1. TypeOK
      BY CleanupAssumption DEF Init, TypeOK
    <2>2. ASSUME NEW r \in RoomId
          PROVE  audit[r] + Cardinality(Committing(r)) <= Cardinality(Worker)
      BY CommittingFinite DEF Init
    <2>3. QED
      BY <2>1, <2>2 DEF Init, IInv
  <1>2. TypeOK' /\ IInv /\ [Next]_vars => IInv'
    <2> SUFFICES ASSUME TypeOK', IInv, [Next]_vars PROVE IInv'
      OBVIOUS
    <2>1. ASSUME NEW r \in RoomId, Touch(r) \/ Age(r) \/ Complete(r) PROVE IInv'
      <3>1. UNCHANGED <<audit, pc, at>>
        BY <2>1 DEF Touch, Age, Complete
      <3>2. \A s \in RoomId : status'[s] = "abandoned" <=> status[s] = "abandoned"
        BY <2>1 DEF Touch, Age, Complete, IInv, TypeOK
      <3>3. ASSUME NEW s \in RoomId
            PROVE  (audit[s] + Cardinality(Committing(s)) <= Cardinality(Worker))'
        BY <3>1, FewerCommitting DEF IInv, Committing
      <3>4. \A w \in Worker : pc'[w] = "delete" => at'[w] \in RoomId
        BY <3>1 DEF IInv, TypeOK
      <3>5. QED
        BY <3>1, <3>2, <3>3, <3>4 DEF IInv
    <2>2. ASSUME NEW w \in Worker,
                 StartPass(w) \/ ReadActivity(w) \/ EndPass(w) \/ DeleteKeys(w)
                   \/ CallFails(w) \/ Crash(w)
          PROVE  IInv'
      <3>1. UNCHANGED <<status, audit>>
        BY <2>2 DEF StartPass, ReadActivity, EndPass, DeleteKeys, CallFails, Crash
      <3>2. \/ UNCHANGED <<pc, at>>
            \/ \E label \in {"loop", "sleep", "select"}, room \in RoomId \cup {None} :
                 Goto(w, label, room)
        BY <2>2 DEF StartPass, ReadActivity, EndPass, DeleteKeys, CallFails, Crash, IInv, TypeOK
      <3>3. /\ \A v \in Worker : pc'[v] \in {"commit", "delete"} =>
                pc'[v] = pc[v] /\ at'[v] = at[v]
        BY <3>2 DEF Goto, IInv, TypeOK
      <3>4. ASSUME NEW s \in RoomId
            PROVE  (audit[s] + Cardinality(Committing(s)) <= Cardinality(Worker))'
        <4>1. Committing(s)' \subseteq Committing(s)
          BY <3>3 DEF Committing
        <4>2. QED
          BY <4>1, <3>1, FewerCommitting DEF IInv
      <3>5. QED
        BY <3>1, <3>3, <3>4 DEF IInv
    <2>3. ASSUME NEW w \in Worker, SelectRoom(w) PROVE IInv'
      <3>1. at[w] \in RoomId /\ UNCHANGED <<status, audit>>
        BY <2>3 DEF SelectRoom, IInv, TypeOK
      <3>2. \A v \in Worker : pc'[v] = "delete" => pc[v] = "delete" /\ at'[v] = at[v]
        BY <2>3 DEF SelectRoom, Goto, IInv, TypeOK
      <3>3. ASSUME NEW s \in RoomId
            PROVE  (audit[s] + Cardinality(Committing(s)) <= Cardinality(Worker))'
        <4>1. CASE status[s] = "abandoned"
          <5>1. Committing(s)' \subseteq Committing(s)
            BY <4>1, <2>3 DEF SelectRoom, Goto, Committing, Terminal, IInv, TypeOK
          <5>2. QED
            BY <5>1, <3>1, FewerCommitting DEF IInv
        <4>2. CASE status[s] # "abandoned"
          <5>1. audit'[s] = 0
            BY <4>2, <3>1 DEF IInv, TypeOK
          <5>2. Committing(s)' \subseteq Worker
            BY DEF Committing
          <5>3. /\ Cardinality(Committing(s)') \in Nat
                /\ Cardinality(Committing(s)') <= Cardinality(Worker)
            BY <5>2, CleanupAssumption, FS_Subset, FS_CardinalityType
          <5>4. QED
            BY <5>1, <5>3
        <4>3. QED
          BY <4>1, <4>2
      <3>4. QED
        BY <3>1, <3>2, <3>3 DEF IInv
    <2>4. ASSUME NEW w \in Worker, Commit(w) PROVE IInv'
      <3>1. /\ pc[w] = "commit" /\ at[w] \in RoomId
            /\ pc' = [pc EXCEPT ![w] = "delete"] /\ at' = [at EXCEPT ![w] = at[w]]
            /\ status' = [status EXCEPT ![at[w]] = "abandoned"]
            /\ audit' = [audit EXCEPT ![at[w]] = audit[at[w]] + 1]
        BY <2>4 DEF Commit, Goto, IInv, TypeOK
      <3>2. \A s \in RoomId : status'[s] = "abandoned" <=> audit'[s] > 0
        BY <3>1 DEF IInv, TypeOK
      <3>3. \A v \in Worker : pc'[v] = "delete" => status'[at'[v]] = "abandoned"
        BY <3>1 DEF IInv, TypeOK
      <3>4. ASSUME NEW s \in RoomId
            PROVE  (audit[s] + Cardinality(Committing(s)) <= Cardinality(Worker))'
        <4>1. CASE s = at[w]
          <5>1. Committing(s)' = Committing(s) \ {w} /\ w \in Committing(s)
            BY <4>1, <3>1 DEF Committing, IInv, TypeOK
          <5>2. Cardinality(Committing(s)') = Cardinality(Committing(s)) - 1
            BY <5>1, CommittingFinite, FS_RemoveElement
          <5>3. audit'[s] = audit[s] + 1 /\ audit[s] \in Nat
            BY <4>1, <3>1 DEF IInv, TypeOK
          <5>4. QED
            BY <5>2, <5>3, CommittingFinite DEF IInv
        <4>2. CASE s # at[w]
          <5>1. Committing(s)' \subseteq Committing(s) /\ audit'[s] = audit[s]
            BY <4>2, <3>1 DEF Committing, IInv, TypeOK
          <5>2. QED
            BY <5>1, FewerCommitting DEF IInv
        <4>3. QED
          BY <4>1, <4>2
      <3>5. QED
        BY <3>2, <3>3, <3>4 DEF IInv
    <2>5. CASE UNCHANGED vars
      BY <2>5 DEF vars, IInv, Committing
    <2>6. QED
      BY <2>1, <2>2, <2>3, <2>4, <2>5 DEF Next, Step
  <1>3. QED
    BY <1>1, <1>2, TypeCorrect, PTL DEF Spec

(* Status and audit rows agree, with at most one row for every replica,    *)
(* however the replicas interleave, fail and crash.                        *)
THEOREM AuditTrailHolds == Spec => []AuditTrail
  <1>1. IInv => AuditTrail
    <2> SUFFICES ASSUME IInv, NEW r \in RoomId
                 PROVE  audit[r] <= Cardinality(Worker)
      BY DEF IInv, AuditTrail
    <2>1. QED
      BY CommittingFinite DEF IInv, TypeOK
  <1>2. QED
    BY <1>1, Invariance, PTL

(* The keys of a room vanish only when its abandonment is committed.       *)
THEOREM KeysOutliveTheRoom == Spec => DeletedAfterCommit
  <1> DEFINE Wipes == \A r \in RoomId :
               last_activity[r] # "none" /\ last_activity'[r] = "none" => status[r] = "abandoned"
  <1>1. IInv /\ [Next]_vars => [Wipes]_vars
    <2> SUFFICES ASSUME IInv, [Next]_vars,
                        NEW r \in RoomId, last_activity[r] # "none", last_activity'[r] = "none"
                 PROVE  status[r] = "abandoned"
      OBVIOUS
    <2>1. \E w \in Worker : DeleteKeys(w) /\ at[w] = r
      BY DEF Next, Step, vars, Touch, Age, Complete, StartPass, ReadActivity, EndPass,
             SelectRoom, Commit, DeleteKeys, CallFails, Crash, IInv, TypeOK
    <2>2. QED
      BY <2>1 DEF DeleteKeys, IInv
  <1>2. QED
    BY <1>1, Invariance, PTL DEF Spec, DeletedAfterCommit

=============================================================================
