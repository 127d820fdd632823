---------------------- MODULE LearningGovernanceProofs ----------------------
(***************************************************************************)
(* Theorems about LearningGovernance, for any number of workers and        *)
(* proposals, any interleaving of the handlers, and stops at any statement.*)
(***************************************************************************)
EXTENDS LearningGovernance, TLAPS

(***************************************************************************)
(* The place where a handler stands tells what its task record holds.      *)
(***************************************************************************)
LEMMA TaskShape ==
    ASSUME TypeOK, NEW w \in Workers
    PROVE  /\ task[w].pc \in {"recheck", "write", "emit"} => task[w] \in MoveTask
           /\ task[w].pc \in {"materialise", "retag_strategies", "retag_records",
                              "read_state", "read_ids", "save"}
                 => task[w] \in EffectTask
           /\ task[w].pc = "snap_rows" => task[w] \in SnapTask
           /\ task[w].pc = "snap_store" => task[w] \in StoreTask
           /\ task[w].pc \in {"demote", "restore"} => task[w] \in RestoreTask
<1>1. task[w] \in {Idle} \cup MoveTask \cup EffectTask \cup SnapTask
                     \cup StoreTask \cup RestoreTask
  BY DEF TypeOK, Tasks
<1>2. Idle.pc = "idle"
  BY DEF Idle
<1>3. task[w] \in MoveTask => task[w].pc \in {"recheck", "write", "emit"}
  BY DEF MoveTask
<1>4. task[w] \in EffectTask =>
        task[w].pc \in {"materialise", "retag_strategies", "retag_records",
                        "read_state", "read_ids", "save"}
  BY DEF EffectTask
<1>5. task[w] \in SnapTask => task[w].pc = "snap_rows"
  BY DEF SnapTask
<1>6. task[w] \in StoreTask => task[w].pc = "snap_store"
  BY DEF StoreTask
<1>7. task[w] \in RestoreTask => task[w].pc \in {"demote", "restore"}
  BY DEF RestoreTask
<1> QED BY <1>1, <1>2, <1>3, <1>4, <1>5, <1>6, <1>7

\* Replacing one task by another keeps the type of task.
LEMMA TaskUpdate ==
    ASSUME TypeOK, NEW w \in Workers, NEW t \in Tasks,
           task' = [task EXCEPT ![w] = t]
    PROVE  task' \in [Workers -> Tasks]
BY DEF TypeOK

(***************************************************************************)
(* Type correctness: every table keeps the shape that the code reads.      *)
(***************************************************************************)
LEMMA InitType == Init => TypeOK
<1> SUFFICES ASSUME Init PROVE TypeOK
  OBVIOUS
<1>1. proposals \in [Proposals -> Proposal]
  BY DEF Init, Proposal, Statuses
<1>2. records \in [Proposals -> Seq(RecordStatuses)]
  BY DEF Init
<1>3. events \in [Proposals -> SUBSET Statuses] /\ unlogged \in SUBSET Proposals
  BY DEF Init
<1>4. task \in [Workers -> Tasks]
  BY DEF Init, Tasks
<1> QED BY <1>1, <1>2, <1>3, <1>4 DEF Init, TypeOK

LEMMA StepType == TypeOK /\ RowsKept /\ [Next]_vars => TypeOK'
<1> SUFFICES ASSUME TypeOK, RowsKept, [Next]_vars PROVE TypeOK'
  OBVIOUS
<1> USE GovernanceAssumption
<1> USE DEF tables, log, IsIdle, At, Finish, Goto
<1> Idle \in Tasks
  BY DEF Tasks
<1>1. ASSUME NEW w \in Workers, NEW l \in Proposals, Learn(w, l)
      PROVE  TypeOK'
  <2>1. Move("PROPOSED", l, "recheck") \in Tasks
    BY DEF TypeOK, Move, Tasks, MoveTask, Proposal, Targets
  <2>2. task' \in [Workers -> Tasks]
    BY <1>1, <2>1, TaskUpdate DEF Learn
  <2>3. proposals' \in [Proposals -> Proposal]
    <3>1. proposals' = [proposals EXCEPT ![l].status = "OBSERVED"]
      BY <1>1 DEF Learn
    <3>2. [proposals[l] EXCEPT !.status = "OBSERVED"] \in Proposal
      <4>1. proposals[l] \in Proposal
        BY DEF TypeOK
      <4> QED BY <4>1 DEF Proposal, Statuses
    <3> QED BY <3>1, <3>2 DEF TypeOK
  <2> QED BY <1>1, <2>2, <2>3 DEF TypeOK, Learn
<1>2. ASSUME NEW w \in Workers, NEW l \in Proposals, AdvancedProposal(w, l)
      PROVE  TypeOK'
  <2>1. [proposals[l] EXCEPT !.status = "PROPOSED"] \in Proposal
    <3>1. proposals[l] \in Proposal
      BY DEF TypeOK
    <3> QED BY <3>1 DEF Proposal, Statuses
  <2>2. proposals' = [proposals EXCEPT ![l].status = "PROPOSED"]
    BY <1>2 DEF AdvancedProposal
  <2>3. proposals' \in [Proposals -> Proposal]
    BY <2>1, <2>2 DEF TypeOK
  <2> QED BY <1>2, <2>3 DEF TypeOK, AdvancedProposal
<1>3. ASSUME NEW w \in Workers, NEW l \in Proposals, NEW target \in Targets,
             Start(w, target, l)
      PROVE  TypeOK'
  <2>1. Move(target, l, "write") \in Tasks
    BY DEF TypeOK, Move, Tasks, MoveTask, Proposal
  <2>2. task' \in [Workers -> Tasks]
    BY <1>3, <2>1, TaskUpdate DEF Start
  <2> QED BY <1>3, <2>2 DEF TypeOK, Start
<1>4. ASSUME NEW w \in Workers, NEW l \in Proposals, NEW by \in Callers,
             StartApprove(w, l, by)
      PROVE  TypeOK'
  <2>1. Move("APPROVED", l, "recheck") \in Tasks
    BY DEF TypeOK, Move, Tasks, MoveTask, Proposal, Targets
  <2>2. task' \in [Workers -> Tasks]
    BY <1>4, <2>1, TaskUpdate DEF StartApprove
  <2> QED BY <1>4, <2>2 DEF TypeOK, StartApprove
<1>5. ASSUME NEW w \in Workers, NEW l \in Proposals, NEW by \in Callers,
             StartReject(w, l, by)
      PROVE  TypeOK'
  <2>1. Move("REJECTED", l, "recheck") \in Tasks
    BY DEF TypeOK, Move, Tasks, MoveTask, Proposal, Targets
  <2>2. task' \in [Workers -> Tasks]
    BY <1>5, <2>1, TaskUpdate DEF StartReject
  <2> QED BY <1>5, <2>2 DEF TypeOK, StartReject
<1>6. ASSUME NEW w \in Workers, NEW c \in Checkpoints, BeginCheckpoint(w, c)
      PROVE  TypeOK'
  <2>1. [pc |-> "snap_rows", c |-> c, learned |-> learned] \in Tasks
    BY DEF TypeOK, Tasks, SnapTask
  <2>2. task' \in [Workers -> Tasks]
    BY <1>6, <2>1, TaskUpdate DEF BeginCheckpoint
  <2> QED BY <1>6, <2>2 DEF TypeOK, BeginCheckpoint
<1>7. ASSUME NEW w \in Workers, NEW c \in Checkpoints, BeginRestore(w, c)
      PROVE  TypeOK'
  <2> DEFINE todo == {s \in StrategyIds : checkpoints[c].statuses[s] # "absent"}
  <2>1. [pc |-> "demote", c |-> c, todo |-> todo] \in Tasks
    BY DEF Tasks, RestoreTask
  <2>2. task' \in [Workers -> Tasks]
    BY <1>7, <2>1, TaskUpdate DEF BeginRestore
  <2>3. learned' \in SUBSET StrategyIds
    BY <1>7 DEF TypeOK, BeginRestore, Snapshot
  <2> QED BY <1>7, <2>2, <2>3 DEF TypeOK, BeginRestore
<1>8. ASSUME NEW w \in Workers, Recheck(w)
      PROVE  TypeOK'
  <2>1. task[w] \in MoveTask
    BY <1>8, TaskShape DEF Recheck
  <2> DEFINE now == proposals[task[w].l].status
             new == IF MayMove(now, task[w].target)
                    THEN [task[w] EXCEPT !.pc = "write", !.seen = now]
                    ELSE Idle
  <2>2. new \in Tasks
    <3>1. now \in Statuses
      BY <2>1 DEF TypeOK, MoveTask, Proposal
    <3>2. [task[w] EXCEPT !.pc = "write", !.seen = now] \in MoveTask
      BY <2>1, <3>1 DEF MoveTask
    <3> QED BY <3>2 DEF Tasks
  <2>3. task' \in [Workers -> Tasks]
    BY <1>8, <2>2, TaskUpdate DEF Recheck
  <2> QED BY <1>8, <2>3 DEF TypeOK, Recheck
<1>9. ASSUME NEW w \in Workers, WriteStatus(w)
      PROVE  TypeOK'
  <2>1. task[w] \in MoveTask
    BY <1>9, TaskShape DEF WriteStatus
  <2>2. [task[w] EXCEPT !.pc = "emit"] \in Tasks
    BY <2>1 DEF MoveTask, Tasks
  <2>3. task' \in [Workers -> Tasks]
    BY <1>9, <2>2, TaskUpdate DEF WriteStatus
  <2>4. proposals' \in [Proposals -> Proposal]
    BY <1>9, <2>1 DEF TypeOK, WriteStatus, MoveTask, Proposal, Targets, Statuses
  <2>5. unlogged' \in SUBSET Proposals
    BY <1>9 DEF TypeOK, WriteStatus
  <2> QED BY <1>9, <2>3, <2>4, <2>5 DEF TypeOK, WriteStatus
<1>10. ASSUME NEW w \in Workers, LogTransition(w)
       PROVE  TypeOK'
  <2>1. task[w] \in MoveTask
    BY <1>10, TaskShape DEF LogTransition
  <2>2. Effect(task[w].target, task[w].l) \in Tasks
    BY <2>1 DEF Effect, MoveTask, EffectTask, Tasks, Targets, RecordStatuses
  <2>3. task' \in [Workers -> Tasks]
    BY <1>10, <2>2, TaskUpdate DEF LogTransition
  <2>4. events' \in [Proposals -> SUBSET Statuses]
    BY <1>10, <2>1 DEF TypeOK, LogTransition, MoveTask, Targets, Statuses
  <2> QED BY <1>10, <2>3, <2>4 DEF TypeOK, LogTransition
<1>11. ASSUME NEW w \in Workers, Materialise(w)
       PROVE  TypeOK'
  <2>1. task[w] \in EffectTask
    BY <1>11, TaskShape DEF Materialise
  <2>2. task[w].l \in Proposals
    BY <2>1 DEF EffectTask
  <2>3. task' \in [Workers -> Tasks]
    BY <1>11, TaskUpdate DEF Materialise
  <2>4. records' \in [Proposals -> Seq(RecordStatuses)]
    BY <1>11, <2>2 DEF TypeOK, Materialise, RecordStatuses
  <2>5. strategies' \in [StrategyIds -> Row \cup {NoRow}]
    BY <1>11, <2>2 DEF TypeOK, Materialise, RecordStatuses, Row
  <2> QED BY <1>11, <2>3, <2>4, <2>5 DEF TypeOK, Materialise
<1>12. ASSUME NEW w \in Workers, RetagStrategies(w)
       PROVE  TypeOK'
  <2>1. task[w] \in EffectTask
    BY <1>12, TaskShape DEF RetagStrategies
  <2>2. [task[w] EXCEPT !.pc = "retag_records"] \in Tasks
    BY <2>1 DEF EffectTask, Tasks
  <2>3. task' \in [Workers -> Tasks]
    BY <1>12, <2>2, TaskUpdate DEF RetagStrategies
  <2>4. strategies' \in [StrategyIds -> Row \cup {NoRow}]
    BY <1>12, <2>1 DEF TypeOK, RetagStrategies, RowsOf, Row, EffectTask
  <2> QED BY <1>12, <2>3, <2>4 DEF TypeOK, RetagStrategies
<1>13. ASSUME NEW w \in Workers, RetagRecords(w)
       PROVE  TypeOK'
  <2>1. task[w] \in EffectTask
    BY <1>13, TaskShape DEF RetagRecords
  <2>2. [task[w] EXCEPT !.pc = "read_state"] \in Tasks
    BY <2>1 DEF EffectTask, Tasks
  <2>3. task' \in [Workers -> Tasks]
    BY <1>13, <2>2, TaskUpdate DEF RetagRecords
  <2>4. \A q \in Seq(RecordStatuses), x \in RecordStatuses :
           [i \in DOMAIN q |-> x] \in Seq(RecordStatuses)
    OBVIOUS
  <2>5. records' \in [Proposals -> Seq(RecordStatuses)]
    BY <1>13, <2>1, <2>4 DEF TypeOK, RetagRecords, EffectTask
  <2> QED BY <1>13, <2>3, <2>5 DEF TypeOK, RetagRecords
<1>14. ASSUME NEW w \in Workers, ReadState(w)
       PROVE  TypeOK'
  <2>1. task[w] \in EffectTask
    BY <1>14, TaskShape DEF ReadState
  <2>2. [task[w] EXCEPT !.learned = learned, !.pc = "read_ids"] \in Tasks
    BY <2>1 DEF TypeOK, EffectTask, Tasks
  <2>3. task' \in [Workers -> Tasks]
    BY <1>14, <2>2, TaskUpdate DEF ReadState, TypeOK
  <2> QED BY <1>14, <2>3 DEF TypeOK, ReadState
<1>15. ASSUME NEW w \in Workers, ReadIds(w)
       PROVE  TypeOK'
  <2>1. task[w] \in EffectTask
    BY <1>15, TaskShape DEF ReadIds
  <2>2. [task[w] EXCEPT !.ids = RowsOf(task[w].l), !.pc = "save"] \in Tasks
    BY <2>1 DEF EffectTask, Tasks, RowsOf
  <2>3. task' \in [Workers -> Tasks]
    BY <1>15, <2>2, TaskUpdate DEF ReadIds, TypeOK
  <2> QED BY <1>15, <2>3 DEF TypeOK, ReadIds
<1>16. ASSUME NEW w \in Workers, SaveState(w)
       PROVE  TypeOK'
  <2>1. task[w] \in EffectTask
    BY <1>16, TaskShape DEF SaveState
  <2>2. task' \in [Workers -> Tasks]
    BY <1>16, TaskUpdate DEF SaveState
  <2>3. learned' \in SUBSET StrategyIds
    BY <1>16, <2>1 DEF SaveState, Revised, EffectTask
  <2> QED BY <1>16, <2>2, <2>3 DEF TypeOK, SaveState
<1>17. ASSUME NEW w \in Workers, SnapshotRows(w)
       PROVE  TypeOK'
  <2>1. task[w] \in SnapTask
    BY <1>17, TaskShape DEF SnapshotRows
  <2>2. \A s \in StrategyIds :
           strategies[s].status \in RecordStatuses \cup {"absent"}
    BY DEF TypeOK, Row, NoRow
  <2>3. [pc |-> "snap_store", c |-> task[w].c,
         snapshot |-> [learned  |-> task[w].learned,
                       statuses |-> [s \in StrategyIds |->
                                       strategies[s].status]]] \in StoreTask
    BY <2>1, <2>2 DEF SnapTask, StoreTask, Snapshot
  <2>4. task' \in [Workers -> Tasks]
    <3>1. task' = [task EXCEPT ![w] =
                     [pc |-> "snap_store", c |-> task[w].c,
                      snapshot |-> [learned  |-> task[w].learned,
                                    statuses |-> [s \in StrategyIds |->
                                                    strategies[s].status]]]]
      BY <1>17 DEF SnapshotRows, TypeOK
    <3> QED BY <2>3, <3>1, TaskUpdate DEF Tasks
  <2> QED BY <1>17, <2>4 DEF TypeOK, SnapshotRows
<1>18. ASSUME NEW w \in Workers, StoreCheckpoint(w)
       PROVE  TypeOK'
  <2>1. task[w] \in StoreTask
    BY <1>18, TaskShape DEF StoreCheckpoint
  <2>2. task' \in [Workers -> Tasks]
    BY <1>18, TaskUpdate DEF StoreCheckpoint
  <2>3. checkpoints' \in [Checkpoints -> Snapshot \cup {NoSnapshot}]
    BY <1>18, <2>1 DEF TypeOK, StoreCheckpoint, StoreTask
  <2> QED BY <1>18, <2>2, <2>3 DEF TypeOK, StoreCheckpoint
<1>19. ASSUME NEW w \in Workers, DemoteActive(w)
       PROVE  TypeOK'
  <2>1. task[w] \in RestoreTask
    BY <1>19, TaskShape DEF DemoteActive
  <2>2. [task[w] EXCEPT !.pc = "restore"] \in Tasks
    BY <2>1 DEF RestoreTask, Tasks
  <2>3. task' \in [Workers -> Tasks]
    BY <1>19, <2>2, TaskUpdate DEF DemoteActive
  <2>4. ASSUME NEW s \in StrategyIds, strategies[s].status = "ACTIVE"
        PROVE  [strategies[s] EXCEPT !.status = "ROLLED_BACK"] \in Row
    <3>1. strategies[s] \in Row
      BY <2>4 DEF TypeOK, NoRow
    <3> QED BY <3>1 DEF Row, RecordStatuses
  <2>5. strategies' \in [StrategyIds -> Row \cup {NoRow}]
    BY <1>19, <2>4 DEF TypeOK, DemoteActive
  <2> QED BY <1>19, <2>3, <2>5 DEF TypeOK, DemoteActive
<1>20. ASSUME NEW w \in Workers, NEW s \in StrategyIds, RestoreRow(w, s)
       PROVE  TypeOK'
  <2>1. task[w] \in RestoreTask
    BY <1>20, TaskShape DEF RestoreRow
  <2>2. [task[w] EXCEPT !.todo = @ \ {s}] \in Tasks
    BY <2>1 DEF RestoreTask, Tasks
  <2>3. task' \in [Workers -> Tasks]
    BY <1>20, <2>2, TaskUpdate DEF RestoreRow
  <2>4. strategies[s] \in Row /\ checkpoints[task[w].c].statuses[s] \in RecordStatuses
    <3> DEFINE snapshot == checkpoints[task[w].c]
    <3>1. task[w].c \in Checkpoints
      BY <2>1 DEF RestoreTask
    <3>2. snapshot \in Snapshot /\ snapshot.statuses[s] # "absent"
      BY <1>20 DEF RowsKept, RestoreRow
    <3>3. strategies[s] # NoRow
      BY <3>1, <3>2 DEF RowsKept, Present
    <3>4. snapshot.statuses[s] \in RecordStatuses \cup {"absent"}
      BY <3>2 DEF Snapshot
    <3> QED BY <3>2, <3>3, <3>4 DEF TypeOK
  <2>5. strategies' \in [StrategyIds -> Row \cup {NoRow}]
    BY <1>20, <2>4 DEF TypeOK, RestoreRow, Row
  <2> QED BY <1>20, <2>3, <2>5 DEF TypeOK, RestoreRow
<1>21. ASSUME NEW w \in Workers, SealRefuses(w)
       PROVE  TypeOK'
  BY <1>21, TaskUpdate DEF TypeOK, SealRefuses
<1>22. ASSUME Crash
       PROVE  TypeOK'
  <2>1. PICK w \in Workers :
           /\ ~IsIdle(w)
           /\ unlogged' = IF LeavesUntold(w) THEN unlogged \cup {task[w].l}
                                            ELSE unlogged
           /\ Finish(w)
    BY <1>22 DEF Crash
  <2>2. LeavesUntold(w) => task[w].l \in Proposals
    BY TaskShape DEF LeavesUntold, MoveTask
  <2>3. unlogged' \in SUBSET Proposals
    BY <2>1, <2>2 DEF TypeOK
  <2>4. task' \in [Workers -> Tasks]
    BY <2>1, TaskUpdate
  <2> QED BY <1>22, <2>3, <2>4 DEF TypeOK, Crash
<1>23. ASSUME UNCHANGED vars
       PROVE  TypeOK'
  BY <1>23 DEF TypeOK, vars
<1> QED BY <1>1, <1>2, <1>3, <1>4, <1>5, <1>6, <1>7, <1>8, <1>9, <1>10, <1>11,
           <1>12, <1>13, <1>14, <1>15, <1>16, <1>17, <1>18, <1>19, <1>20,
           <1>21, <1>22, <1>23 DEF Next, Step, Request

LEMMA RowIsARow == \A r \in Row : r # NoRow
BY DEF Row, NoRow, RecordStatuses

LEMMA NoSnapshotIsNone == NoSnapshot \notin Snapshot
BY DEF NoSnapshot, Snapshot

\* A strategies row is never deleted.
LEMMA RowsStay ==
    ASSUME TypeOK, RowsKept, [Next]_vars
    PROVE  \A s \in StrategyIds : strategies[s] # NoRow => strategies'[s] # NoRow
<1> SUFFICES ASSUME NEW s \in StrategyIds, strategies[s] # NoRow
             PROVE  strategies'[s] # NoRow
  OBVIOUS
<1>1. strategies[s] \in Row
  BY DEF TypeOK
<1>2. TypeOK'
  BY StepType
<1>3. ASSUME NEW w \in Workers, Materialise(w)
      PROVE  strategies'[s] # NoRow
  BY <1>1, <1>3, RowIsARow DEF Materialise, NoRow, TypeOK
<1>4. ASSUME NEW w \in Workers, RetagStrategies(w)
      PROVE  strategies'[s] # NoRow
  <2>1. task[w] \in EffectTask
    BY <1>4, TaskShape DEF RetagStrategies, At
  <2> QED BY <1>1, <1>4, <2>1 DEF RetagStrategies, NoRow, Row, RecordStatuses, EffectTask
<1>5. ASSUME NEW w \in Workers, DemoteActive(w)
      PROVE  strategies'[s] # NoRow
  BY <1>1, <1>5 DEF DemoteActive, NoRow, Row, RecordStatuses
<1>6. ASSUME NEW w \in Workers, NEW x \in StrategyIds, RestoreRow(w, x)
      PROVE  strategies'[s] # NoRow
  <2>1. checkpoints[task[w].c].statuses[x] # "absent"
    BY <1>6 DEF RowsKept, RestoreRow, At
  <2> QED BY <1>1, <1>6, <2>1 DEF RestoreRow, NoRow, Row, RecordStatuses, TypeOK
<1>7. ASSUME strategies' = strategies
      PROVE  strategies'[s] # NoRow
  BY <1>7
<1> QED BY <1>3, <1>4, <1>5, <1>6, <1>7, ZenonT(60)
        DEF Next, Step, Request, vars, tables, Learn, AdvancedProposal, Start,
            StartApprove, StartReject, BeginCheckpoint, BeginRestore, Recheck,
            WriteStatus, LogTransition, RetagRecords, ReadState, ReadIds,
            SaveState, SnapshotRows, StoreCheckpoint, SealRefuses, Crash

(***************************************************************************)
(* The invariant behind the restoration of a checkpoint.                   *)
(***************************************************************************)
LEMMA InitRows == Init => RowsKept
BY NoSnapshotIsNone DEF Init, RowsKept, At, Idle, Snapping

\* The conjuncts of RowsKept that speak of one worker.
HandlerKept(w) ==
    /\ At(w, "snap_store") => Present(task[w].snapshot)
    /\ task[w].pc \in {"demote", "restore"} =>
          /\ checkpoints[task[w].c] \in Snapshot
          /\ \A s \in task[w].todo :
                checkpoints[task[w].c].statuses[s] # "absent"
    /\ Snapping(w) =>
          /\ checkpoints[task[w].c] = NoSnapshot
          /\ \A v \in Workers : Snapping(v) /\ task[v].c = task[w].c => v = w

LEMMA StepRows == TypeOK /\ RowsKept /\ [Next]_vars => RowsKept'
<1> SUFFICES ASSUME TypeOK, RowsKept, [Next]_vars PROVE RowsKept'
  OBVIOUS
<1>0. \A s \in StrategyIds : strategies[s] # NoRow => strategies'[s] # NoRow
  BY RowsStay
<1>1. ASSUME NEW w \in Workers, StoreCheckpoint(w)
      PROVE  RowsKept'
  <2>1. task[w] \in StoreTask
    BY <1>1, TaskShape DEF StoreCheckpoint, At
  <2>2. \A c \in Checkpoints : checkpoints'[c] \in Snapshot => Present(checkpoints[c])'
    BY <1>0, <1>1, <2>1 DEF RowsKept, StoreCheckpoint, At, Present, StoreTask, TypeOK
  <2>3. ASSUME NEW v \in Workers
        PROVE  HandlerKept(v)'
    <3>1. CASE v = w
      <4>1. task'[v].pc = "idle"
        BY <1>1, <3>1 DEF StoreCheckpoint, Finish, Idle, TypeOK
      <4> QED BY <4>1 DEF HandlerKept, At, Snapping
    <3>2. CASE v # w
      <4>1. \A u \in Workers : u # w => task'[u] = task[u]
        BY <1>1 DEF StoreCheckpoint, Finish, TypeOK
      <4>2. task'[w].pc = "idle"
        BY <1>1 DEF StoreCheckpoint, Finish, Idle, TypeOK
      <4>3. \A c : c # task[w].c => checkpoints'[c] = checkpoints[c]
        BY <1>1 DEF StoreCheckpoint, TypeOK
      <4>4. /\ checkpoints[task[w].c] = NoSnapshot
            /\ \A u \in Workers : Snapping(u) /\ task[u].c = task[w].c => u = w
        BY <1>1 DEF RowsKept, StoreCheckpoint, At, Snapping
      <4>5. HandlerKept(v)
        BY DEF RowsKept, HandlerKept
      <4>6. \A u \in Workers : Snapping(u)' => Snapping(u) /\ u # w
        BY <4>1, <4>2 DEF Snapping
      <4>7. At(v, "snap_store")' => Present(task[v].snapshot)'
        BY <1>0, <3>2, <4>1, <4>5 DEF HandlerKept, At, Present
      <4>8. task'[v].pc \in {"demote", "restore"} => task[v].c # task[w].c
        BY <3>2, <4>1, <4>4, <4>5, NoSnapshotIsNone DEF HandlerKept
      <4>9. task'[v].pc \in {"demote", "restore"} =>
              /\ checkpoints'[task'[v].c] \in Snapshot
              /\ \A s \in task'[v].todo :
                    checkpoints'[task'[v].c].statuses[s] # "absent"
        BY <3>2, <4>1, <4>3, <4>5, <4>8 DEF HandlerKept
      <4>10. Snapping(v)' =>
              /\ checkpoints'[task'[v].c] = NoSnapshot
              /\ \A u \in Workers :
                    Snapping(u)' /\ task'[u].c = task'[v].c => u = v
        BY <3>2, <4>1, <4>3, <4>4, <4>5, <4>6 DEF HandlerKept
      <4> QED BY <4>7, <4>9, <4>10 DEF HandlerKept
    <3> QED BY <3>1, <3>2
  <2> QED BY <2>2, <2>3 DEF RowsKept, HandlerKept
<1>2. ASSUME NEW w \in Workers, SnapshotRows(w)
      PROVE  RowsKept'
  <2>1. task[w] \in SnapTask
    BY <1>2, TaskShape DEF SnapshotRows, At
  <2>2. task'[w] = [pc |-> "snap_store", c |-> task[w].c,
                    snapshot |-> [learned  |-> task[w].learned,
                                  statuses |-> [s \in StrategyIds |->
                                                  strategies[s].status]]]
    BY <1>2 DEF SnapshotRows, TypeOK
  <2>3. strategies' = strategies /\ checkpoints' = checkpoints
    BY <1>2 DEF SnapshotRows, tables
  <2>3a. \A s \in StrategyIds : task'[w].snapshot.statuses[s] = strategies[s].status
    BY <2>2
  <2>3b. \A s \in StrategyIds : task'[w].snapshot.statuses[s] # "absent"
                                   => strategies'[s] # NoRow
    BY <2>3, <2>3a DEF NoRow
  <2>4. \A v \in Workers : v # w => task'[v] = task[v]
    BY <1>2 DEF SnapshotRows, TypeOK
  <2>5. \A v \in Workers : Snapping(v)' => Snapping(v) /\ task'[v].c = task[v].c
    BY <1>2, <2>2, <2>4 DEF SnapshotRows, Snapping, At
  <2>6. ASSUME NEW v \in Workers
        PROVE  HandlerKept(v)'
    <3>1. CASE v = w
      BY <2>2, <2>3, <2>3b, <2>5, <3>1 DEF HandlerKept, Present, RowsKept, Snapping, At
    <3>2. CASE v # w
      BY <2>3, <2>4, <2>5, <3>2 DEF HandlerKept, Present, RowsKept, Snapping, At
    <3> QED BY <3>1, <3>2
  <2> QED BY <2>3, <2>6 DEF RowsKept, HandlerKept, Present
<1>3. ASSUME NEW w \in Workers, NEW c \in Checkpoints, BeginCheckpoint(w, c)
      PROVE  RowsKept'
  BY <1>0, <1>3 DEF RowsKept, BeginCheckpoint, At, Present, TypeOK, Snapping, tables
<1>4. ASSUME NEW w \in Workers, NEW c \in Checkpoints, BeginRestore(w, c)
      PROVE  RowsKept'
  BY <1>0, <1>4 DEF RowsKept, BeginRestore, At, Present, TypeOK, Snapping, tables
<1>5. ASSUME NEW w \in Workers, DemoteActive(w)
      PROVE  RowsKept'
  <2>1. task[w] \in RestoreTask
    BY <1>5, TaskShape DEF DemoteActive, At
  <2>2. checkpoints' = checkpoints /\ \A v \in Workers : v # w => task'[v] = task[v]
    BY <1>5 DEF DemoteActive, Finish, Goto, TypeOK
  <2>3. task'[w] = Idle \/ task'[w] = [task[w] EXCEPT !.pc = "restore"]
    BY <1>5 DEF DemoteActive, Finish, Goto, TypeOK
  <2>4. \/ task'[w].pc = "idle"
        \/ /\ task'[w].pc = "restore" /\ task'[w].c = task[w].c
           /\ task'[w].todo = task[w].todo
    BY <2>1, <2>3 DEF Idle, RestoreTask
  <2> QED BY <1>0, <1>5, <2>2, <2>4 DEF RowsKept, DemoteActive, At, Present, Snapping
<1>6. ASSUME NEW w \in Workers, NEW s \in StrategyIds, RestoreRow(w, s)
      PROVE  RowsKept'
  <2>1. task[w] \in RestoreTask
    BY <1>6, TaskShape DEF RestoreRow, At
  <2>2. checkpoints' = checkpoints /\ \A v \in Workers : v # w => task'[v] = task[v]
    BY <1>6 DEF RestoreRow, Finish, TypeOK
  <2>3. task'[w] = Idle \/ task'[w] = [task[w] EXCEPT !.todo = @ \ {s}]
    BY <1>6 DEF RestoreRow, Finish, TypeOK
  <2>4. \/ task'[w].pc = "idle"
        \/ /\ task'[w].pc = "restore" /\ task'[w].c = task[w].c
           /\ task'[w].todo \subseteq task[w].todo
    BY <1>6, <2>1, <2>3 DEF Idle, RestoreTask, RestoreRow, At
  <2> QED BY <1>0, <1>6, <2>2, <2>4 DEF RowsKept, RestoreRow, At, Present, Snapping
<1>7. ASSUME checkpoints' = checkpoints,
             \A v \in Workers :
                \/ task'[v] = task[v]
                \/ task'[v].pc \notin {"snap_rows", "snap_store", "demote", "restore"}
      PROVE  RowsKept'
  BY <1>0, <1>7 DEF RowsKept, At, Present, Snapping
<1>8. ASSUME NEW w \in Workers, NEW l \in Proposals,
             \/ Learn(w, l) \/ AdvancedProposal(w, l)
             \/ \E target \in Targets : Start(w, target, l)
             \/ \E by \in Callers : StartApprove(w, l, by) \/ StartReject(w, l, by)
      PROVE  RowsKept'
  BY <1>7, <1>8 DEF Learn, AdvancedProposal, Start, StartApprove, StartReject,
                    Move, TypeOK
<1>9. ASSUME NEW w \in Workers, Recheck(w) \/ WriteStatus(w) \/ LogTransition(w)
      PROVE  RowsKept'
  <2>1. task[w] \in MoveTask
    BY <1>9, TaskShape DEF Recheck, WriteStatus, LogTransition, At
  <2>2. checkpoints' = checkpoints /\ \A v \in Workers : v # w => task'[v] = task[v]
    BY <1>9 DEF Recheck, WriteStatus, LogTransition, Goto, TypeOK
  <2>3. \/ task'[w] = Idle
        \/ task'[w] = [task[w] EXCEPT !.pc = "write", !.seen = proposals[task[w].l].status]
        \/ task'[w] = [task[w] EXCEPT !.pc = "emit"]
        \/ task'[w] = Effect(task[w].target, task[w].l)
    BY <1>9 DEF Recheck, WriteStatus, LogTransition, Goto, TypeOK
  <2>4. task'[w].pc \in {"idle", "write", "emit", "materialise", "retag_strategies"}
    <3>1. Effect(task[w].target, task[w].l).pc
             \in {"idle", "materialise", "retag_strategies"}
      BY DEF Effect, Idle
    <3>2. \A x : [task[w] EXCEPT !.pc = "write", !.seen = x].pc = "write"
      BY <2>1 DEF MoveTask
    <3>3. [task[w] EXCEPT !.pc = "emit"].pc = "emit"
      BY <2>1 DEF MoveTask
    <3>4. CASE task'[w] = Idle
      BY <3>4 DEF Idle
    <3>5. CASE task'[w] # Idle
      BY <2>3, <3>1, <3>2, <3>3, <3>5
    <3> QED BY <3>4, <3>5
  <2> QED BY <1>7, <2>2, <2>4
<1>10. ASSUME NEW w \in Workers,
              \/ Materialise(w) \/ RetagStrategies(w) \/ RetagRecords(w)
              \/ ReadState(w) \/ ReadIds(w) \/ SaveState(w)
       PROVE  RowsKept'
  <2>1. task[w] \in EffectTask
    BY <1>10, TaskShape DEF Materialise, RetagStrategies, RetagRecords,
                            ReadState, ReadIds, SaveState, At
  <2> QED BY <1>7, <1>10, <2>1
          DEF Materialise, RetagStrategies, RetagRecords, ReadState, ReadIds,
              SaveState, Goto, Finish, Idle, TypeOK, EffectTask, tables
<1>11. ASSUME NEW w \in Workers, SealRefuses(w)
       PROVE  RowsKept'
  BY <1>7, <1>11 DEF SealRefuses, Finish, Idle, TypeOK
<1>12. ASSUME Crash
       PROVE  RowsKept'
  <2>1. PICK w \in Workers : Finish(w)
    BY <1>12 DEF Crash
  <2> QED
    BY <1>7, <1>12, <2>1 DEF Crash, Finish, Idle, TypeOK
<1>13. ASSUME UNCHANGED vars
       PROVE  RowsKept'
  BY <1>7, <1>13 DEF vars
<1> QED BY <1>1, <1>2, <1>3, <1>4, <1>5, <1>6, <1>8, <1>9, <1>10, <1>11,
           <1>12, <1>13 DEF Next, Step, Request

(***************************************************************************)
(* Every table keeps the shape that the code reads, and a restoration only *)
(* updates rows that exist, whatever the handlers interleave.              *)
(***************************************************************************)
THEOREM TypeCorrect == Spec => [](TypeOK /\ RowsKept)
<1>1. Init => TypeOK /\ RowsKept
  BY InitType, InitRows
<1>2. TypeOK /\ RowsKept /\ [Next]_vars => (TypeOK /\ RowsKept)'
  BY StepType, StepRows
<1> QED BY <1>1, <1>2, PTL DEF Spec
=============================================================================
