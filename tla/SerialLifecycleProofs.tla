----------------------- MODULE SerialLifecycleProofs -----------------------
(***************************************************************************)
(* What the requests of LearningGovernance keep one after another, on      *)
(* however many threads, through activations, checkpoints, restorations    *)
(* and rollbacks in any order: the list of learned strategies.             *)
(***************************************************************************)
EXTENDS FounderGateProofs

\* Handlers do not overlap: a worker is idle while another runs a request.
OneAtATime == \A v, w \in Workers : ~IsIdle(v) /\ ~IsIdle(w) => v = w

\* One worker alone never overlaps with itself.
LEMMA OneWorkerIsAlone ==
  ASSUME NEW worker, Workers = {worker}
  PROVE  OneAtATime
  BY DEF OneAtATime

(***************************************************************************)
(* The first half of the inductive invariant needs nothing else.  What a   *)
(* handler has read of its proposal is still so when it writes, and what   *)
(* it has written is still there when it goes on to the records.           *)
(***************************************************************************)
MovePlaces == {"recheck", "write", "emit"}
EffectPlaces == {"materialise", "retag_strategies", "retag_records",
                 "read_state", "read_ids", "save"}
UpToDate(w) ==
    /\ task[w].pc \in MovePlaces \cup EffectPlaces
          => proposals[task[w].l].status # "NONE"
    /\ At(w, "write") => task[w].seen = proposals[task[w].l].status
    /\ task[w].pc \in {"write", "emit"} => MayMove(task[w].seen, task[w].target)
    /\ task[w].pc \in {"emit"} \cup EffectPlaces
          => proposals[task[w].l].status = task[w].target
    /\ At(w, "materialise") => task[w].target = "PROMOTED"
    /\ task[w].pc \in EffectPlaces \ {"materialise"}
          => task[w].target \in {"ACTIVE", "ROLLED_BACK"}

\* Only a proposal that has been promoted has a record.
RecordsPromoted ==
    /\ \A s \in StrategyIds : strategies[s] # NoRow =>
          proposals[strategies[s].learning].status \in RecordStatuses
    /\ \A l \in Proposals : records[l] # <<>> =>
          proposals[l].status \in RecordStatuses

MoveInv == RecordsPromoted /\ \A w \in Workers : UpToDate(w)

(***************************************************************************)
(* The second half needs handlers that run to their end as well: what is   *)
(* missing from the cognitive state is what the running handler still has  *)
(* to do.                                                                  *)
(***************************************************************************)
\* The strategies that are active though the cognitive state does not list
\* them, and what a handler knows of them.
ActiveIds == {s \in StrategyIds : strategies[s].status = "ACTIVE"}
Relisting == {"retag_records", "read_state", "read_ids", "save"}
Restored(snapshot) ==
    {s \in StrategyIds : snapshot.statuses[s] = "ACTIVE"} \subseteq snapshot.learned
ListOf(w) ==
    /\ task[w].pc \in Relisting /\ task[w].target = "ROLLED_BACK" =>
          \A s \in RowsOf(task[w].l) : strategies[s].status # "ACTIVE"
    /\ task[w].pc \in {"read_ids", "save", "snap_rows"} => task[w].learned = learned
    /\ At(w, "save") => task[w].ids = RowsOf(task[w].l)
    /\ At(w, "snap_store") => Restored(task[w].snapshot)
    /\ task[w].pc \in {"demote", "restore"}
          => learned = checkpoints[task[w].c].learned
Unlisted(w) ==
    IF At(w, "demote") THEN ActiveIds
    ELSE IF Pending(w, Relisting, {"ACTIVE"}) THEN RowsOf(task[w].l)
    ELSE {}
ActiveTold ==
    /\ \A w \in Workers : ListOf(w)
    /\ \A c \in Checkpoints : checkpoints[c] # NoSnapshot => Restored(checkpoints[c])
    /\ \A s \in ActiveIds : s \in learned \/ \E w \in Workers : s \in Unlisted(w)

-----------------------------------------------------------------------------
\* While one handler runs the others are idle.
LEMMA OthersIdle ==
    ASSUME OneAtATime, NEW w \in Workers, ~IsIdle(w)
    PROVE  \A v \in Workers : v # w => task[v].pc = "idle"
BY DEF OneAtATime, IsIdle

\* A handler that goes on leaves the tasks of the others alone.
LEMMA StepAlone ==
    ASSUME TypeOK, OneAtATime, NEW w \in Workers, Step(w) \/ SealRefuses(w)
    PROVE  /\ ~IsIdle(w)
           /\ \A v \in Workers : v # w => /\ task[v].pc = "idle"
                                         /\ task'[v] = task[v]
<1>1. ~IsIdle(w)
  BY DEF Step, SealRefuses, IsIdle, At, Recheck, WriteStatus, LogTransition,
         Materialise, RetagStrategies, RetagRecords, ReadState, ReadIds,
         SaveState, SnapshotRows, StoreCheckpoint, DemoteActive, RestoreRow
<1>2. \A v \in Workers : v # w => task'[v] = task[v]
  BY DEF Step, SealRefuses, TypeOK, Recheck, WriteStatus, LogTransition,
         Materialise, RetagStrategies, RetagRecords, ReadState, ReadIds,
         SaveState, SnapshotRows, StoreCheckpoint, DemoteActive, RestoreRow,
         Goto, Finish
<1> QED
  BY <1>1, <1>2, OthersIdle

\* A request that leaves a task behind finds all the others idle.
LEMMA RequestAlone ==
    ASSUME OneAtATime', TypeOK, NEW w \in Workers, NEW t,
           task' = [task EXCEPT ![w] = t], t.pc # "idle"
    PROVE  /\ task'[w] = t
           /\ \A v \in Workers : v # w => task'[v].pc = "idle"
BY DEF OneAtATime, IsIdle, TypeOK

LEMMA IdleUpToDate ==
    ASSUME NEW w \in Workers, task[w].pc \notin MovePlaces \cup EffectPlaces
    PROVE  UpToDate(w)
BY DEF UpToDate, At, MovePlaces, EffectPlaces

\* It is enough to look at the handler that runs.
LEMMA OwnUpToDate ==
    ASSUME NEW w \in Workers, UpToDate(w)',
           \A v \in Workers : v # w => task'[v].pc = "idle"
    PROVE  \A v \in Workers : UpToDate(v)'
BY DEF UpToDate, At, MovePlaces, EffectPlaces

LEMMA RequestUpToDate ==
    ASSUME TypeOK, OneAtATime', MoveInv, NEW w \in Workers, Request(w)
    PROVE  \A v \in Workers : UpToDate(v)'
<1>1. ASSUME NEW l \in Proposals, Learn(w, l)
      PROVE  \A v \in Workers : UpToDate(v)'
  <2> DEFINE t == Move("PROPOSED", l, "recheck")
  <2>1. t.pc = "recheck" /\ t.l = l
    BY DEF Move
  <2>2. task' = [task EXCEPT ![w] = t]
    BY <1>1 DEF Learn
  <2>3. proposals'[l].status = "OBSERVED"
    BY <1>1 DEF Learn, TypeOK, Proposal
  <2> HIDE DEF t
  <2>4. task'[w] = t /\ \A v \in Workers : v # w => task'[v].pc = "idle"
    BY <2>1, <2>2, RequestAlone
  <2>5. UpToDate(w)'
    BY <2>1, <2>3, <2>4 DEF UpToDate, At, EffectPlaces
  <2> QED
    BY <2>4, <2>5, OwnUpToDate
<1>2. ASSUME NEW l \in Proposals, AdvancedProposal(w, l)
      PROVE  \A v \in Workers : UpToDate(v)'
  <2> SUFFICES ASSUME NEW v \in Workers PROVE UpToDate(v)'
    OBVIOUS
  <2>1. task' = task /\ proposals[l].status = "NONE"
    BY <1>2 DEF AdvancedProposal
  <2>2. \A k \in Proposals : k # l => proposals'[k] = proposals[k]
    BY <1>2 DEF AdvancedProposal, TypeOK
  <2>3. UpToDate(v)
    BY DEF MoveInv
  <2>4. CASE task[v].pc \in MovePlaces \cup EffectPlaces
    <3>1. task[v].l \in Proposals
      BY <2>4, TaskShape DEF MovePlaces, EffectPlaces, MoveTask, EffectTask
    <3>2. task[v].l # l
      BY <2>1, <2>3, <2>4 DEF UpToDate
    <3> QED
      BY <2>1, <2>2, <2>3, <3>1, <3>2 DEF UpToDate, At
  <2>5. CASE task[v].pc \notin MovePlaces \cup EffectPlaces
    BY <2>1, <2>5 DEF UpToDate, At, MovePlaces, EffectPlaces
  <2> QED
    BY <2>4, <2>5
<1>3. ASSUME NEW l \in Proposals, NEW target \in Targets, Start(w, target, l)
      PROVE  \A v \in Workers : UpToDate(v)'
  <2> DEFINE t == Move(target, l, "write")
  <2>1. /\ t.pc = "write" /\ t.l = l /\ t.target = target
        /\ t.seen = proposals[l].status
    BY DEF Move
  <2>2. task' = [task EXCEPT ![w] = t] /\ proposals' = proposals
    BY <1>3 DEF Start, tables
  <2>3. MayMove(proposals[l].status, target) /\ proposals[l].status # "NONE"
    BY <1>3 DEF Start, MayMove, AllowedTransitions
  <2> HIDE DEF t
  <2>4. task'[w] = t /\ \A v \in Workers : v # w => task'[v].pc = "idle"
    BY <2>1, <2>2, RequestAlone
  <2>5. UpToDate(w)'
    BY <2>1, <2>2, <2>3, <2>4 DEF UpToDate, At, EffectPlaces
  <2> QED
    BY <2>4, <2>5, OwnUpToDate
<1>4. ASSUME NEW l \in Proposals, NEW by \in Callers,
             StartApprove(w, l, by) \/ StartReject(w, l, by)
      PROVE  \A v \in Workers : UpToDate(v)'
  <2>1. PICK target \in Targets :
           task' = [task EXCEPT ![w] = Move(target, l, "recheck")]
    BY <1>4 DEF StartApprove, StartReject, Targets
  <2> DEFINE t == Move(target, l, "recheck")
  <2>2. t.pc = "recheck" /\ t.l = l
    BY DEF Move
  <2>3. proposals' = proposals /\ proposals[l].status # "NONE"
    BY <1>4 DEF StartApprove, StartReject, MayMove, AllowedTransitions, tables
  <2>4. task' = [task EXCEPT ![w] = t]
    BY <2>1
  <2> HIDE DEF t
  <2>5. task'[w] = t /\ \A v \in Workers : v # w => task'[v].pc = "idle"
    BY <2>2, <2>4, RequestAlone
  <2>6. UpToDate(w)'
    BY <2>2, <2>3, <2>5 DEF UpToDate, At, EffectPlaces
  <2> QED
    BY <2>5, <2>6, OwnUpToDate
<1>5. ASSUME NEW c \in Checkpoints, BeginCheckpoint(w, c)
      PROVE  \A v \in Workers : UpToDate(v)'
  <2> DEFINE t == [pc |-> "snap_rows", c |-> c, learned |-> learned]
  <2>1. task' = [task EXCEPT ![w] = t] /\ t.pc = "snap_rows"
    BY <1>5 DEF BeginCheckpoint
  <2> HIDE DEF t
  <2>2. task'[w] = t /\ \A v \in Workers : v # w => task'[v].pc = "idle"
    BY <2>1, RequestAlone
  <2> QED
    BY <2>1, <2>2 DEF UpToDate, At, MovePlaces, EffectPlaces
<1>6. ASSUME NEW c \in Checkpoints, BeginRestore(w, c)
      PROVE  \A v \in Workers : UpToDate(v)'
  <2> DEFINE t == [pc |-> "demote", c |-> c,
                   todo |-> {s \in StrategyIds :
                               checkpoints[c].statuses[s] # "absent"}]
  <2>1. task' = [task EXCEPT ![w] = t] /\ t.pc = "demote"
    BY <1>6 DEF BeginRestore
  <2> HIDE DEF t
  <2>2. task'[w] = t /\ \A v \in Workers : v # w => task'[v].pc = "idle"
    BY <2>1, RequestAlone
  <2> QED
    BY <2>1, <2>2 DEF UpToDate, At, MovePlaces, EffectPlaces
<1> QED
  BY <1>1, <1>2, <1>3, <1>4, <1>5, <1>6 DEF Request

\* Where the handlers of checkpoints go.
LEMMA StepPlaces ==
    ASSUME TypeOK, NEW w \in Workers,
           \/ SnapshotRows(w) \/ StoreCheckpoint(w) \/ DemoteActive(w)
           \/ \E s \in StrategyIds : RestoreRow(w, s)
    PROVE  task'[w].pc \in {"snap_store", "restore", "idle"}
<1>1. CASE SnapshotRows(w)
  BY <1>1 DEF SnapshotRows, TypeOK
<1>2. CASE DemoteActive(w)
  BY <1>2, TaskShape DEF DemoteActive, At, Goto, Finish, Idle, TypeOK, RestoreTask
<1>3. CASE \E s \in StrategyIds : RestoreRow(w, s)
  BY <1>3, TaskShape DEF RestoreRow, At, Finish, Idle, TypeOK, RestoreTask
<1>4. CASE StoreCheckpoint(w)
  BY <1>4 DEF StoreCheckpoint, Finish, Idle, TypeOK
<1> QED
  BY <1>1, <1>2, <1>3, <1>4

LEMMA StepUpToDate ==
    ASSUME TypeOK, OneAtATime, MoveInv, NEW w \in Workers,
           Step(w) \/ SealRefuses(w)
    PROVE  \A v \in Workers : UpToDate(v)'
<1>1. /\ \A v \in Workers : v # w => task'[v].pc = "idle"
      /\ UpToDate(w)
  BY StepAlone DEF MoveInv
<1> SUFFICES UpToDate(w)'
  BY <1>1, OwnUpToDate
<1>2. CASE Recheck(w)
  <2>1. task[w] \in MoveTask /\ proposals' = proposals
    BY <1>2, TaskShape DEF Recheck, At, tables
  <2> DEFINE now == proposals[task[w].l].status
  <2>2. CASE MayMove(now, task[w].target)
    <3>1. task'[w] = [task[w] EXCEPT !.pc = "write", !.seen = now]
      BY <1>2, <2>2 DEF Recheck, TypeOK
    <3>2. /\ task'[w].pc = "write" /\ task'[w].seen = now
          /\ task'[w].l = task[w].l /\ task'[w].target = task[w].target
      BY <2>1, <3>1 DEF MoveTask
    <3>3. now # "NONE"
      BY <2>2 DEF MayMove, AllowedTransitions
    <3> QED
      BY <2>1, <2>2, <3>2, <3>3 DEF UpToDate, At, EffectPlaces
  <2>3. CASE ~MayMove(now, task[w].target)
    BY <1>2, <2>3 DEF Recheck, TypeOK, Idle, UpToDate, At, MovePlaces, EffectPlaces
  <2> QED
    BY <2>2, <2>3
<1>3. CASE WriteStatus(w)
  <2>1. task[w] \in MoveTask
    BY <1>3, TaskShape DEF WriteStatus, At
  <2>2. task'[w] = [task[w] EXCEPT !.pc = "emit"]
    BY <1>3 DEF WriteStatus, Goto, TypeOK
  <2>3. /\ task'[w].pc = "emit" /\ task'[w].seen = task[w].seen
        /\ task'[w].l = task[w].l /\ task'[w].target = task[w].target
    BY <2>1, <2>2 DEF MoveTask
  <2>4. proposals'[task[w].l].status = task[w].target
    BY <1>3, <2>1 DEF WriteStatus, TypeOK, MoveTask
  <2>5. task[w].target # "NONE"
    BY <2>1 DEF MoveTask, Targets
  <2>6. MayMove(task[w].seen, task[w].target)
    BY <1>1, <1>3 DEF UpToDate, WriteStatus, At
  <2> QED
    BY <2>3, <2>4, <2>5, <2>6 DEF UpToDate, At, EffectPlaces
<1>4. CASE LogTransition(w)
  <2>1. task[w] \in MoveTask /\ proposals' = proposals
    BY <1>4, TaskShape DEF LogTransition, At, tables
  <2>2. task'[w] = Effect(task[w].target, task[w].l)
    BY <1>4 DEF LogTransition, TypeOK
  <2>3. \/ task'[w].pc = "idle"
        \/ /\ task'[w].l = task[w].l /\ task'[w].target = task[w].target
           /\ \/ task'[w].pc = "materialise" /\ task[w].target = "PROMOTED"
              \/ /\ task'[w].pc = "retag_strategies"
                 /\ task[w].target \in {"ACTIVE", "ROLLED_BACK"}
    <3>1. CASE task[w].target \in {"PROMOTED", "ACTIVE", "ROLLED_BACK"}
      BY <2>2, <3>1 DEF Effect
    <3>2. CASE task[w].target \notin {"PROMOTED", "ACTIVE", "ROLLED_BACK"}
      BY <2>2, <3>2 DEF Effect, Idle
    <3> QED
      BY <3>1, <3>2
  <2>4. /\ proposals[task[w].l].status = task[w].target
        /\ proposals[task[w].l].status # "NONE"
    BY <1>1, <1>4 DEF UpToDate, LogTransition, At, MovePlaces
  <2> QED
    BY <2>1, <2>3, <2>4 DEF UpToDate, At, MovePlaces, EffectPlaces
<1>5. CASE Materialise(w) \/ SaveState(w) \/ StoreCheckpoint(w) \/ SealRefuses(w)
  <2>1. task'[w].pc = "idle"
    BY <1>5 DEF Materialise, SaveState, StoreCheckpoint, SealRefuses, Finish, Idle,
                TypeOK
  <2> QED
    BY <2>1 DEF UpToDate, At, MovePlaces, EffectPlaces
<1>6. CASE RetagStrategies(w) \/ RetagRecords(w) \/ ReadState(w) \/ ReadIds(w)
  <2>1. task[w] \in EffectTask /\ proposals' = proposals
    BY <1>6, TaskShape
    DEF RetagStrategies, RetagRecords, ReadState, ReadIds, At, tables
  <2>2. /\ task'[w].pc \in {"retag_records", "read_state", "read_ids", "save"}
        /\ task'[w].l = task[w].l /\ task'[w].target = task[w].target
    BY <1>6, <2>1
    DEF RetagStrategies, RetagRecords, ReadState, ReadIds, Goto, EffectTask, TypeOK
  <2>3. task[w].pc \in EffectPlaces \ {"materialise"}
    BY <1>6
    DEF RetagStrategies, RetagRecords, ReadState, ReadIds, At, EffectPlaces
  <2> QED
    BY <1>1, <2>1, <2>2, <2>3 DEF UpToDate, At, MovePlaces, EffectPlaces
<1>7. CASE SnapshotRows(w) \/ DemoteActive(w) \/ \E s \in StrategyIds : RestoreRow(w, s)
  <2>1. task'[w].pc \in {"snap_store", "restore", "idle"}
    BY <1>7, StepPlaces
  <2> QED
    BY <2>1 DEF UpToDate, At, MovePlaces, EffectPlaces
<1> QED
  BY <1>2, <1>3, <1>4, <1>5, <1>6, <1>7 DEF Step

\* Who has left a record has been promoted before, and stays so.
LEMMA StepPromoted ==
    ASSUME TypeOK, RowsKept, MoveInv, [Next]_vars
    PROVE  RecordsPromoted'
<1>1. ASSUME NEW l \in Proposals, proposals[l].status \in RecordStatuses
      PROVE  proposals'[l].status \in RecordStatuses
  <2>1. ASSUME NEW w \in Workers, WriteStatus(w)
        PROVE  proposals'[l].status \in RecordStatuses
    <3>1. task[w] \in MoveTask
      BY <2>1, TaskShape DEF WriteStatus, At
    <3>2. CASE l = task[w].l
      <4>1. MayMove(proposals[l].status, task[w].target)
        BY <2>1, <3>2 DEF MoveInv, UpToDate, WriteStatus, At
      <4>2. task[w].target \in RecordStatuses
        BY <1>1, <3>1, <4>1
        DEF MayMove, AllowedTransitions, RecordStatuses, MoveTask, Targets
      <4> QED
        BY <2>1, <3>2, <4>2 DEF WriteStatus, TypeOK
    <3>3. CASE l # task[w].l
      BY <1>1, <2>1, <3>3 DEF WriteStatus, TypeOK
    <3> QED
      BY <3>2, <3>3
  <2>2. ASSUME NEW w \in Workers, NEW k \in Proposals,
               Learn(w, k) \/ AdvancedProposal(w, k)
        PROVE  proposals'[l].status \in RecordStatuses
    <3>1. k # l
      BY <1>1, <2>2 DEF Learn, AdvancedProposal, RecordStatuses
    <3> QED
      BY <1>1, <2>2, <3>1 DEF Learn, AdvancedProposal, TypeOK
  <2> QED
    BY <1>1, <2>1, <2>2, WhoMoves
<1>2. CASE SameOrigins
  <2>1. ASSUME NEW s \in StrategyIds, strategies'[s] # NoRow
        PROVE  proposals'[strategies'[s].learning].status \in RecordStatuses
    <3>1. strategies[s] # NoRow /\ strategies'[s].learning = strategies[s].learning
      BY <1>2, <2>1 DEF SameOrigins
    <3>2. strategies[s].learning \in Proposals
      BY <3>1 DEF TypeOK, Row
    <3> QED
      BY <1>1, <3>1, <3>2 DEF MoveInv, RecordsPromoted
  <2>2. ASSUME NEW l \in Proposals, records'[l] # <<>>
        PROVE  proposals'[l].status \in RecordStatuses
    BY <1>1, <1>2, <2>2 DEF SameOrigins, MoveInv, RecordsPromoted
  <2> QED
    BY <2>1, <2>2 DEF RecordsPromoted
<1>3. ASSUME NEW w \in Workers, Materialise(w)
      PROVE  RecordsPromoted'
  <2>1. task[w] \in EffectTask /\ proposals' = proposals
    BY <1>3, TaskShape DEF Materialise, At
  <2>2. /\ task[w].l \in Proposals
        /\ proposals[task[w].l].status \in RecordStatuses
    BY <1>3, <2>1
    DEF MoveInv, UpToDate, Materialise, At, EffectPlaces, EffectTask, RecordStatuses
  <2>3. ASSUME NEW s \in StrategyIds, strategies'[s] # NoRow
        PROVE  proposals[strategies'[s].learning].status \in RecordStatuses
    <3>1. \/ strategies'[s] = strategies[s]
          \/ strategies'[s] = [learning |-> task[w].l, status |-> "PROMOTED"]
      BY <1>3 DEF Materialise, TypeOK
    <3>2. CASE strategies'[s] = strategies[s]
      BY <2>3, <3>2 DEF MoveInv, RecordsPromoted
    <3>3. CASE strategies'[s] = [learning |-> task[w].l, status |-> "PROMOTED"]
      BY <2>2, <3>3
    <3> QED
      BY <3>1, <3>2, <3>3
  <2>4. ASSUME NEW l \in Proposals, records'[l] # <<>>
        PROVE  proposals[l].status \in RecordStatuses
    <3>1. l = task[w].l \/ records'[l] = records[l]
      BY <1>3 DEF Materialise, TypeOK
    <3> QED
      BY <2>2, <2>4, <3>1 DEF MoveInv, RecordsPromoted
  <2> QED
    BY <2>1, <2>3, <2>4 DEF RecordsPromoted
<1> QED
  BY <1>2, <1>3, OriginSteps

LEMMA StepMoves ==
    ASSUME TypeOK, RowsKept, OneAtATime, OneAtATime', MoveInv, [Next]_vars
    PROVE  MoveInv'
<1>1. RecordsPromoted'
  BY StepPromoted
<1>2. ASSUME NEW w \in Workers, Step(w) \/ Request(w) \/ SealRefuses(w)
      PROVE  \A v \in Workers : UpToDate(v)'
  BY <1>2, StepUpToDate, RequestUpToDate
<1>3. CASE Crash
  <2>1. PICK w \in Workers : task' = [task EXCEPT ![w] = Idle]
    BY <1>3 DEF Crash, Finish
  <2>2. proposals' = proposals
    BY <1>3 DEF Crash, tables
  <2> SUFFICES ASSUME NEW v \in Workers PROVE UpToDate(v)'
    BY <1>1 DEF MoveInv
  <2>3. CASE v = w
    <3>1. task'[v].pc = "idle"
      BY <2>1, <2>3 DEF TypeOK, Idle
    <3> QED
      BY <3>1 DEF UpToDate, At, MovePlaces, EffectPlaces
  <2>4. CASE v # w
    <3>1. task'[v] = task[v]
      BY <2>1, <2>4 DEF TypeOK
    <3> QED
      BY <2>2, <3>1 DEF MoveInv, UpToDate, At
  <2> QED
    BY <2>3, <2>4
<1>4. CASE UNCHANGED vars
  <2>1. \A w \in Workers : UpToDate(w)'
    BY <1>4 DEF vars, MoveInv, UpToDate, At
  <2> QED
    BY <1>1, <2>1 DEF MoveInv
<1> QED
  BY <1>1, <1>2, <1>3, <1>4 DEF Next, MoveInv

(***************************************************************************)
(* With handlers that do not overlap, whether or not they end and whatever *)
(* the seal refuses, the invariant holds.                                  *)
(***************************************************************************)
LEMMA MovesHold ==
    Spec /\ []OneAtATime => [](TypeOK /\ RowsKept /\ MoveInv)
<1>1. Init => MoveInv
  BY DEF Init, MoveInv, RecordsPromoted, UpToDate, At, Idle, MovePlaces,
         EffectPlaces
<1>2. /\ TypeOK /\ RowsKept /\ MoveInv /\ [Next]_vars
      /\ OneAtATime /\ OneAtATime'
      => MoveInv'
  BY StepMoves
<1> QED
  BY <1>1, <1>2, TypeCorrect, PTL DEF Spec

-----------------------------------------------------------------------------
(***************************************************************************)
(* Handlers that run to their end.  A request is one of three kinds: it    *)
(* makes a proposal, it asks to move one, or it is about a checkpoint; but *)
(* for the first kind the tables are as they were.                         *)
(***************************************************************************)
AsksToMove(w) == /\ task'[w].pc \in {"recheck", "write"}
                 /\ task'[w].target # "PROPOSED"
                 /\ learned' = learned
AsksForCheckpoint(w) == /\ task'[w].pc = "snap_rows"
                        /\ task'[w].learned = learned
                        /\ learned' = learned
AsksToRestore(w) == /\ task'[w].pc = "demote"
                    /\ task'[w].c \in Checkpoints
                    /\ checkpoints[task'[w].c] # NoSnapshot
                    /\ learned' = checkpoints[task'[w].c].learned
Asks(w) == AsksToMove(w) \/ AsksForCheckpoint(w) \/ AsksToRestore(w)
SameTables == UNCHANGED <<proposals, strategies, records, checkpoints>>
\* A worker starts or goes on while all the others are and stay idle.
AloneAt(w) == \A v \in Workers :
                 v # w => task[v].pc = "idle" /\ task'[v] = task[v]

LEMMA StartAlone ==
    ASSUME OneAtATime', TypeOK, NEW w \in Workers, NEW t,
           task' = [task EXCEPT ![w] = t], t.pc # "idle"
    PROVE  AloneAt(w)
<1>1. \A v \in Workers : v # w => task'[v].pc = "idle"
  BY RequestAlone
<1>2. \A v \in Workers : v # w => task'[v] = task[v]
  BY DEF TypeOK
<1> QED
  BY <1>1, <1>2 DEF AloneAt

LEMMA RequestKinds ==
    ASSUME TypeOK, OneAtATime', NEW w \in Workers, Request(w)
    PROVE  \/ \E l \in Proposals : Learn(w, l) /\ AloneAt(w)
           \/ \E l \in Proposals : AdvancedProposal(w, l)
           \/ Asks(w) /\ IsIdle(w) /\ AloneAt(w) /\ SameTables
<1>1. ASSUME NEW l \in Proposals, Learn(w, l)
      PROVE  AloneAt(w)
  <2> DEFINE t == Move("PROPOSED", l, "recheck")
  <2>1. t.pc # "idle" /\ task' = [task EXCEPT ![w] = t]
    BY <1>1 DEF Learn, Move
  <2> HIDE DEF t
  <2> QED
    BY <2>1, StartAlone
<1>2. ASSUME NEW l \in Proposals, NEW target \in Targets \ {"PROPOSED"},
             NEW pc \in {"recheck", "write"},
             task' = [task EXCEPT ![w] = Move(target, l, pc)]
      PROVE  /\ AloneAt(w) /\ task'[w].pc \in {"recheck", "write"}
             /\ task'[w].target # "PROPOSED"
  <2> DEFINE t == Move(target, l, pc)
  <2>1. /\ t.pc \in {"recheck", "write"} /\ t.target # "PROPOSED"
        /\ task' = [task EXCEPT ![w] = t]
    BY <1>2 DEF Move
  <2> HIDE DEF t
  <2>2. AloneAt(w) /\ task'[w] = t
    BY <2>1, StartAlone, RequestAlone
  <2> QED
    BY <2>1, <2>2
<1>3. ASSUME NEW l \in Proposals, NEW target \in Targets, Start(w, target, l)
      PROVE  Asks(w) /\ AloneAt(w) /\ SameTables
  <2>1. task' = [task EXCEPT ![w] = Move(target, l, "write")] /\ target # "PROPOSED"
    BY <1>3 DEF Start
  <2> QED
    BY <1>2, <1>3, <2>1 DEF Start, tables, Asks, AsksToMove, SameTables
<1>4. ASSUME NEW l \in Proposals, NEW by \in Callers,
             StartApprove(w, l, by) \/ StartReject(w, l, by)
      PROVE  Asks(w) /\ AloneAt(w) /\ SameTables
  <2>1. PICK target \in Targets \ {"PROPOSED"} :
           task' = [task EXCEPT ![w] = Move(target, l, "recheck")]
    BY <1>4 DEF StartApprove, StartReject, Targets
  <2> QED
    BY <1>2, <1>4, <2>1
    DEF StartApprove, StartReject, tables, Asks, AsksToMove, SameTables
<1>5. ASSUME NEW c \in Checkpoints, BeginCheckpoint(w, c)
      PROVE  Asks(w) /\ AloneAt(w) /\ SameTables
  <2> DEFINE t == [pc |-> "snap_rows", c |-> c, learned |-> learned]
  <2>1. /\ task' = [task EXCEPT ![w] = t] /\ t.pc = "snap_rows"
        /\ t.learned = learned
    BY <1>5 DEF BeginCheckpoint
  <2> HIDE DEF t
  <2>2. AloneAt(w) /\ task'[w] = t
    BY <2>1, StartAlone, RequestAlone
  <2> QED
    BY <1>5, <2>1, <2>2
    DEF BeginCheckpoint, tables, Asks, AsksForCheckpoint, SameTables
<1>6. ASSUME NEW c \in Checkpoints, BeginRestore(w, c)
      PROVE  Asks(w) /\ AloneAt(w) /\ SameTables
  <2> DEFINE t == [pc |-> "demote", c |-> c,
                   todo |-> {s \in StrategyIds :
                               checkpoints[c].statuses[s] # "absent"}]
  <2>1. /\ task' = [task EXCEPT ![w] = t] /\ t.pc = "demote" /\ t.c = c
    BY <1>6 DEF BeginRestore
  <2> HIDE DEF t
  <2>2. AloneAt(w) /\ task'[w] = t
    BY <2>1, StartAlone, RequestAlone
  <2> QED
    BY <1>6, <2>1, <2>2
    DEF BeginRestore, tables, Asks, AsksToRestore, SameTables
<1>7. IsIdle(w)
  BY DEF Request, Learn, AdvancedProposal, Start, StartApprove, StartReject,
         BeginCheckpoint, BeginRestore
<1> QED
  BY <1>1, <1>3, <1>4, <1>5, <1>6, <1>7 DEF Request

LEMMA StepAloneAt ==
    ASSUME TypeOK, OneAtATime, NEW w \in Workers, Step(w)
    PROVE  AloneAt(w)
BY StepAlone DEF AloneAt

\* A proposal that is being handled is there already.
LEMMA HandledExists ==
    ASSUME TypeOK, MoveInv, NEW v \in Workers,
           task[v].pc \in MovePlaces \cup EffectPlaces
    PROVE  /\ task[v].l \in Proposals
           /\ proposals[task[v].l].status # "NONE"
<1>1. task[v].l \in Proposals
  BY TaskShape DEF MovePlaces, EffectPlaces, MoveTask, EffectTask
<1> QED
  BY <1>1 DEF MoveInv, UpToDate

\* Without stops and refusals, every step is one of a handler.
LEMMA NextRuns ==
    ASSUME MayCrash = FALSE, MaySeal = FALSE, [Next]_vars
    PROVE  \/ \E w \in Workers : Step(w) \/ Request(w)
           \/ UNCHANGED vars
BY DEF Next, Crash, SealRefuses

(***************************************************************************)
(* The list of learned strategies.                                         *)
(***************************************************************************)
LEMMA OwnList ==
    ASSUME NEW w \in Workers, AloneAt(w), ListOf(w)',
           \A c \in Checkpoints :
              checkpoints'[c] # NoSnapshot => Restored(checkpoints'[c]),
           \A s \in StrategyIds : strategies'[s].status = "ACTIVE"
              => s \in learned' \/ s \in Unlisted(w)'
    PROVE  ActiveTold'
<1>1. \A v \in Workers : v # w => task'[v].pc = "idle"
  BY DEF AloneAt
<1>2. \A v \in Workers : ListOf(v)'
  BY <1>1 DEF ListOf, Relisting, At
<1>3. \A s \in ActiveIds' : s \in learned' \/ \E v \in Workers : s \in Unlisted(v)'
  BY DEF ActiveIds
<1>4. (\A c \in Checkpoints : checkpoints[c] # NoSnapshot => Restored(checkpoints[c]))'
  BY DEF Restored
<1> QED
  BY <1>2, <1>3, <1>4 DEF ActiveTold

LEMMA ListBefore ==
    ASSUME NEW w \in Workers, AloneAt(w), ActiveTold
    PROVE  /\ ListOf(w)
           /\ \A s \in StrategyIds : strategies[s].status = "ACTIVE"
                 => s \in learned \/ s \in Unlisted(w)
<1>1. \A v \in Workers : v # w => Unlisted(v) = {}
  BY DEF AloneAt, Unlisted, Relisting, Pending, At
<1> QED
  BY <1>1 DEF ActiveTold, ActiveIds

LEMMA RequestList ==
    ASSUME TypeOK, OneAtATime', MoveInv, ActiveTold,
           NEW w \in Workers, Request(w)
    PROVE  ActiveTold'
<1>1. ASSUME NEW l \in Proposals, Learn(w, l), AloneAt(w)
      PROVE  ActiveTold'
  <2>1. /\ IsIdle(w) /\ strategies' = strategies /\ learned' = learned
        /\ checkpoints' = checkpoints
    BY <1>1 DEF Learn
  <2>2. task'[w].pc = "recheck"
    BY <1>1 DEF Learn, Move, TypeOK
  <2>3. Unlisted(w) = {}
    BY <2>1 DEF Unlisted, Relisting, Pending, IsIdle, At
  <2>4. ListOf(w)'
    BY <2>2 DEF ListOf, Relisting, At
  <2>5. \A s \in StrategyIds : strategies[s].status = "ACTIVE" => s \in learned
    BY <1>1, <2>3, ListBefore
  <2>6. \A c \in Checkpoints : checkpoints[c] # NoSnapshot => Restored(checkpoints[c])
    BY DEF ActiveTold
  <2> QED
    BY <1>1, <2>1, <2>4, <2>5, <2>6, OwnList
<1>2. ASSUME NEW l \in Proposals, AdvancedProposal(w, l)
      PROVE  ActiveTold'
  <2>1. UNCHANGED <<strategies, learned, checkpoints, task>>
    BY <1>2 DEF AdvancedProposal
  <2> QED
    BY <2>1
    DEF ActiveTold, ListOf, ActiveIds, Unlisted, Relisting, Restored, RowsOf,
        Pending, At
<1>3. ASSUME Asks(w), IsIdle(w), AloneAt(w), SameTables
      PROVE  ActiveTold'
  <2>1. Unlisted(w) = {}
    BY <1>3 DEF Unlisted, Relisting, Pending, IsIdle, At
  <2>2. \A s \in StrategyIds : strategies[s].status = "ACTIVE" => s \in learned
    BY <1>3, <2>1, ListBefore
  <2>3. \A c \in Checkpoints : checkpoints[c] # NoSnapshot => Restored(checkpoints[c])
    BY DEF ActiveTold
  <2>4. strategies' = strategies /\ checkpoints' = checkpoints
    BY <1>3 DEF SameTables
  <2>5. CASE AsksToMove(w) \/ AsksForCheckpoint(w)
    <3>1. ListOf(w)' /\ learned' = learned
      BY <2>5 DEF AsksToMove, AsksForCheckpoint, ListOf, Relisting, At
    <3> QED
      BY <1>3, <2>2, <2>3, <2>4, <3>1, OwnList
  <2>6. CASE AsksToRestore(w)
    <3>1. ListOf(w)'
      BY <2>4, <2>6 DEF AsksToRestore, ListOf, Relisting, At
    <3>2. Unlisted(w)' = ActiveIds'
      BY <2>6 DEF AsksToRestore, Unlisted, At
    <3> QED
      BY <1>3, <2>3, <2>4, <3>1, <3>2, OwnList DEF ActiveIds
  <2> QED
    BY <1>3, <2>5, <2>6 DEF Asks
<1> QED
  BY <1>1, <1>2, <1>3, RequestKinds

LEMMA StepList ==
    ASSUME TypeOK, RowsKept, OneAtATime, MoveInv, ActiveTold,
           NEW w \in Workers, Step(w)
    PROVE  ActiveTold'
<1>1. AloneAt(w)
  BY StepAloneAt
<1>2. /\ ListOf(w) /\ UpToDate(w)
      /\ \A s \in StrategyIds : strategies[s].status = "ACTIVE"
            => s \in learned \/ s \in Unlisted(w)
      /\ \A c \in Checkpoints : checkpoints[c] # NoSnapshot => Restored(checkpoints[c])
  BY <1>1, ListBefore DEF MoveInv, ActiveTold
<1>3. ASSUME checkpoints' = checkpoints, ListOf(w)',
             \A s \in StrategyIds : strategies'[s].status = "ACTIVE"
                => s \in learned' \/ s \in Unlisted(w)'
      PROVE  ActiveTold'
  BY <1>1, <1>2, <1>3, OwnList
<1>4. CASE Recheck(w) \/ WriteStatus(w) \/ LogTransition(w)
  <2>1. task[w] \in MoveTask /\ task[w].pc \in {"recheck", "write", "emit"}
    BY <1>4, TaskShape DEF Recheck, WriteStatus, LogTransition, At
  <2>2. strategies' = strategies /\ learned' = learned /\ checkpoints' = checkpoints
    BY <1>4 DEF Recheck, WriteStatus, LogTransition, tables
  <2>3. task'[w].pc \in {"write", "emit", "idle", "materialise", "retag_strategies"}
    <3>1. CASE Recheck(w)
      BY <2>1, <3>1 DEF Recheck, TypeOK, Idle, MoveTask
    <3>2. CASE WriteStatus(w)
      BY <2>1, <3>2 DEF WriteStatus, Goto, TypeOK, MoveTask
    <3>3. CASE LogTransition(w)
      BY <3>3 DEF LogTransition, TypeOK, Effect, Idle
    <3> QED
      BY <1>4, <3>1, <3>2, <3>3
  <2>4. Unlisted(w) = {}
    BY <2>1 DEF Unlisted, Relisting, Pending, At
  <2>5. ListOf(w)'
    BY <2>3 DEF ListOf, Relisting, At
  <2> QED
    BY <1>2, <1>3, <2>2, <2>4, <2>5
<1>5. CASE Materialise(w)
  <2>1. learned' = learned /\ checkpoints' = checkpoints
    BY <1>5 DEF Materialise
  <2>2. task'[w].pc = "idle" /\ Unlisted(w) = {}
    BY <1>5 DEF Materialise, Finish, Idle, TypeOK, Unlisted, Relisting, Pending, At
  <2>3. \A s \in StrategyIds : strategies'[s].status = "ACTIVE"
                                 => strategies[s].status = "ACTIVE"
    BY <1>5 DEF Materialise, TypeOK
  <2>4. ListOf(w)'
    BY <2>2 DEF ListOf, Relisting, At
  <2> QED
    BY <1>2, <1>3, <2>1, <2>2, <2>3, <2>4
<1>6. CASE RetagStrategies(w)
  <2>1. /\ task[w] \in EffectTask /\ At(w, "retag_strategies")
        /\ learned' = learned /\ checkpoints' = checkpoints
    BY <1>6, TaskShape DEF RetagStrategies, At
  <2>2. task'[w] = [task[w] EXCEPT !.pc = "retag_records"]
    BY <1>6 DEF RetagStrategies, Goto, TypeOK
  <2>3. /\ task'[w].pc = "retag_records" /\ task'[w].l = task[w].l
        /\ task'[w].target = task[w].target
    BY <2>1, <2>2 DEF EffectTask
  <2>4. Unlisted(w) = {} /\ task[w].target \in {"ACTIVE", "ROLLED_BACK"}
    BY <1>2, <2>1 DEF Unlisted, Relisting, Pending, At, UpToDate, EffectPlaces
  <2>5. \A s \in StrategyIds :
           /\ s \in RowsOf(task[w].l)
                 => strategies'[s] = [strategies[s] EXCEPT !.status = task[w].target]
           /\ s \notin RowsOf(task[w].l) => strategies'[s] = strategies[s]
    BY <1>6 DEF RetagStrategies
  <2>6. \A s \in RowsOf(task[w].l) :
           /\ strategies'[s] \in Row /\ strategies'[s].status = task[w].target
           /\ strategies'[s].learning = task[w].l
    <3> SUFFICES ASSUME NEW s \in RowsOf(task[w].l)
                 PROVE  /\ strategies'[s] \in Row
                        /\ strategies'[s].status = task[w].target
                        /\ strategies'[s].learning = task[w].l
      OBVIOUS
    <3>1. /\ s \in StrategyIds /\ strategies[s] \in Row
          /\ strategies[s].learning = task[w].l
      BY DEF RowsOf, TypeOK
    <3>2. strategies'[s] = [strategies[s] EXCEPT !.status = task[w].target]
      BY <2>5, <3>1
    <3> QED
      BY <2>1, <3>1, <3>2 DEF Row, EffectTask
  <2>7. RowsOf(task[w].l)' = RowsOf(task[w].l)
    <3>1. \A s \in StrategyIds : (strategies'[s] # NoRow /\ strategies'[s].learning = task[w].l)
                                <=> s \in RowsOf(task[w].l)
      BY <2>5, <2>6, RowIsARow DEF RowsOf
    <3>2. RowsOf(task[w].l)' = {s \in StrategyIds :
                                 strategies'[s] # NoRow /\ strategies'[s].learning = task'[w].l}
      BY DEF RowsOf
    <3> QED
      BY <2>3, <3>1, <3>2 DEF RowsOf
  <2>8. ListOf(w)'
    BY <2>3, <2>6, <2>7 DEF ListOf, Relisting, At
  <2>9. ASSUME NEW s \in StrategyIds, strategies'[s].status = "ACTIVE"
        PROVE  s \in learned' \/ s \in Unlisted(w)'
    <3>1. CASE s \in RowsOf(task[w].l)
      <4>1. task[w].target = "ACTIVE"
        BY <2>6, <2>9, <3>1
      <4> QED
        BY <2>3, <2>7, <3>1, <4>1 DEF Unlisted, Relisting, Pending, At
    <3>2. CASE s \notin RowsOf(task[w].l)
      BY <1>2, <2>1, <2>4, <2>5, <2>9, <3>2
    <3> QED
      BY <3>1, <3>2
  <2> QED
    BY <1>3, <2>1, <2>8, <2>9
<1>7. CASE RetagRecords(w) \/ ReadState(w) \/ ReadIds(w)
  <2>1. /\ task[w] \in EffectTask /\ strategies' = strategies
        /\ learned' = learned /\ checkpoints' = checkpoints
        /\ task[w].pc \in {"retag_records", "read_state", "read_ids"}
    BY <1>7, TaskShape DEF RetagRecords, ReadState, ReadIds, At, tables
  <2>2. /\ task'[w].pc \in Relisting /\ task'[w].l = task[w].l
        /\ task'[w].target = task[w].target
    BY <1>7, <2>1
    DEF RetagRecords, ReadState, ReadIds, Goto, EffectTask, TypeOK, Relisting
  <2>3. RowsOf(task[w].l)' = RowsOf(task[w].l)
    BY <2>1, <2>2 DEF RowsOf
  <2>4. Unlisted(w)' = Unlisted(w)
    BY <2>1, <2>2, <2>3 DEF Unlisted, Relisting, Pending, At
  <2>5. task'[w].pc \in {"read_ids", "save"} => task'[w].learned = learned
    BY <1>2, <1>7, <2>1
    DEF RetagRecords, ReadState, ReadIds, Goto, EffectTask, TypeOK, ListOf, At
  <2>6. task'[w].pc = "save" => task'[w].ids = RowsOf(task[w].l)
    BY <1>7, <2>1
    DEF RetagRecords, ReadState, ReadIds, Goto, EffectTask, TypeOK
  <2>7. ListOf(w)'
    BY <1>2, <2>1, <2>2, <2>3, <2>5, <2>6 DEF ListOf, Relisting, At
  <2> QED
    BY <1>2, <1>3, <2>1, <2>4, <2>7
<1>8. CASE SaveState(w)
  <2>1. /\ task[w] \in EffectTask /\ strategies' = strategies /\ At(w, "save")
        /\ checkpoints' = checkpoints /\ learned' = Revised(task[w])
    BY <1>8, TaskShape DEF SaveState, At, tables
  <2>2. task[w].learned = learned /\ task[w].ids = RowsOf(task[w].l)
    BY <1>2, <2>1 DEF ListOf, At
  <2>3. task[w].target \in {"ACTIVE", "ROLLED_BACK"}
    BY <1>2, <2>1 DEF UpToDate, At, EffectPlaces
  <2>4. task'[w].pc = "idle"
    BY <1>8 DEF SaveState, Finish, Idle, TypeOK
  <2>5. ListOf(w)'
    BY <2>4 DEF ListOf, Relisting, At
  <2>6. \A s \in StrategyIds : strategies[s].status = "ACTIVE" => s \in learned'
    <3>1. CASE task[w].target = "ACTIVE"
      <4>1. Unlisted(w) = RowsOf(task[w].l)
        BY <2>1, <3>1 DEF Unlisted, Relisting, Pending, At
      <4> QED
        BY <1>2, <2>1, <2>2, <3>1, <4>1 DEF Revised
    <3>2. CASE task[w].target = "ROLLED_BACK"
      <4>1. Unlisted(w) = {}
        BY <2>1, <3>2 DEF Unlisted, Relisting, Pending, At
      <4>2. \A s \in RowsOf(task[w].l) : strategies[s].status # "ACTIVE"
        BY <1>2, <2>1, <3>2 DEF ListOf, Relisting, At
      <4> QED
        BY <1>2, <2>1, <2>2, <3>2, <4>1, <4>2 DEF Revised
    <3> QED
      BY <2>3, <3>1, <3>2
  <2> QED
    BY <1>3, <2>1, <2>5, <2>6
<1>9. CASE SnapshotRows(w)
  <2>1. /\ strategies' = strategies /\ learned' = learned /\ checkpoints' = checkpoints
        /\ At(w, "snap_rows")
    BY <1>9 DEF SnapshotRows, tables
  <2>2. task'[w] = [pc |-> "snap_store", c |-> task[w].c,
                    snapshot |-> [learned  |-> task[w].learned,
                                  statuses |-> [s \in StrategyIds |->
                                                  strategies[s].status]]]
    BY <1>9 DEF SnapshotRows, TypeOK
  <2>3. task[w].learned = learned /\ Unlisted(w) = {}
    BY <1>2, <2>1 DEF ListOf, Unlisted, Relisting, Pending, At
  <2>4. Restored(task'[w].snapshot)
    <3>1. \A s \in StrategyIds : strategies[s].status = "ACTIVE" => s \in task[w].learned
      BY <1>2, <2>3
    <3> QED
      BY <2>2, <3>1 DEF Restored
  <2>5. ListOf(w)'
    BY <2>2, <2>4 DEF ListOf, Relisting, At, Restored
  <2> QED
    BY <1>2, <1>3, <2>1, <2>3, <2>5
<1>10. CASE StoreCheckpoint(w)
  <2>1. /\ strategies' = strategies /\ learned' = learned /\ At(w, "snap_store")
        /\ checkpoints' = [checkpoints EXCEPT ![task[w].c] = task[w].snapshot]
    BY <1>10 DEF StoreCheckpoint, tables
  <2>2. Restored(task[w].snapshot) /\ Unlisted(w) = {}
    BY <1>2, <2>1 DEF ListOf, Unlisted, Relisting, Pending, At
  <2>3. task'[w].pc = "idle"
    BY <1>10 DEF StoreCheckpoint, Finish, Idle, TypeOK
  <2>4. ListOf(w)'
    BY <2>3 DEF ListOf, Relisting, At
  <2>5. \A c \in Checkpoints :
           checkpoints'[c] = checkpoints[c] \/ checkpoints'[c] = task[w].snapshot
    BY <2>1 DEF TypeOK
  <2>6. \A c \in Checkpoints :
           checkpoints'[c] # NoSnapshot => Restored(checkpoints'[c])
    BY <1>2, <2>2, <2>5
  <2> QED
    BY <1>1, <1>2, <2>1, <2>2, <2>4, <2>6, OwnList
<1>11. CASE DemoteActive(w)
  <2>1. /\ task[w] \in RestoreTask /\ At(w, "demote")
        /\ learned' = learned /\ checkpoints' = checkpoints
    BY <1>11, TaskShape DEF DemoteActive, At
  <2>2. task'[w] = Idle \/ task'[w] = [task[w] EXCEPT !.pc = "restore"]
    BY <1>11 DEF DemoteActive, Finish, Goto, TypeOK
  <2>3. \/ task'[w].pc = "idle"
        \/ task'[w].pc = "restore" /\ task'[w].c = task[w].c
    BY <2>1, <2>2 DEF Idle, RestoreTask
  <2>4. ASSUME NEW s \in StrategyIds
        PROVE  strategies'[s].status # "ACTIVE"
    <3>1. CASE strategies[s].status = "ACTIVE"
      <4>1. strategies[s] \in Row
        BY <3>1 DEF TypeOK, NoRow
      <4> QED
        BY <1>11, <3>1, <4>1 DEF DemoteActive, Row
    <3>2. CASE strategies[s].status # "ACTIVE"
      BY <1>11, <3>2 DEF DemoteActive
    <3> QED
      BY <3>1, <3>2
  <2>5. ListOf(w)'
    BY <1>2, <2>1, <2>3 DEF ListOf, Relisting, At
  <2> QED
    BY <1>3, <2>1, <2>4, <2>5
<1>12. ASSUME NEW x \in StrategyIds, RestoreRow(w, x)
       PROVE  ActiveTold'
  <2>1. /\ task[w] \in RestoreTask /\ At(w, "restore") /\ x \in task[w].todo
        /\ learned' = learned /\ checkpoints' = checkpoints
    BY <1>12, TaskShape DEF RestoreRow, At
  <2>2. task'[w] = Idle \/ task'[w] = [task[w] EXCEPT !.todo = @ \ {x}]
    BY <1>12 DEF RestoreRow, Finish, TypeOK
  <2>3. \/ task'[w].pc = "idle"
        \/ task'[w].pc = "restore" /\ task'[w].c = task[w].c
    BY <2>1, <2>2 DEF Idle, RestoreTask, At
  <2>4. ListOf(w)'
    BY <1>2, <2>1, <2>3 DEF ListOf, Relisting, At
  <2>5. Unlisted(w) = {}
    BY <2>1 DEF Unlisted, Relisting, Pending, At
  <2> DEFINE snapshot == checkpoints[task[w].c]
  <2>6. /\ task[w].c \in Checkpoints /\ learned = snapshot.learned
        /\ snapshot \in Snapshot
    BY <1>2, <2>1 DEF ListOf, At, RowsKept, RestoreTask
  <2>7. Restored(snapshot)
    BY <1>2, <2>6, NoSnapshotIsNone
  <2>8. strategies'[x].status = snapshot.statuses[x]
    <3>1. snapshot.statuses[x] # "absent"
      BY <2>1 DEF RowsKept, At
    <3>2. strategies[x] \in Row
      BY <2>6, <3>1 DEF RowsKept, Present, TypeOK
    <3> QED
      BY <1>12, <3>2 DEF RestoreRow, TypeOK, Row
  <2>9. \A s \in StrategyIds : s # x => strategies'[s] = strategies[s]
    BY <1>12 DEF RestoreRow, TypeOK
  <2>10. \A s \in StrategyIds : strategies'[s].status = "ACTIVE" => s \in learned
    BY <1>2, <2>5, <2>6, <2>7, <2>8, <2>9 DEF Restored
  <2> QED
    BY <1>3, <2>1, <2>4, <2>10
<1> QED
  BY <1>4, <1>5, <1>6, <1>7, <1>8, <1>9, <1>10, <1>11, <1>12 DEF Step

(***************************************************************************)
(* While handlers do not overlap and each runs to its end, every strategy  *)
(* that reason() may select is among the learned_strategies of the state   *)
(* between requests, the restoration of a checkpoint included.             *)
(***************************************************************************)
THEOREM SelectedIsLearned ==
    ASSUME MayCrash = FALSE, MaySeal = FALSE
    PROVE  Spec /\ []OneAtATime => []ActiveIsLearned
<1>1. Init => ActiveTold
  BY DEF Init, ActiveTold, ListOf, ActiveIds, Relisting, At, Idle, NoRow
<1>2. /\ TypeOK /\ RowsKept /\ MoveInv /\ ActiveTold /\ [Next]_vars
      /\ OneAtATime /\ OneAtATime'
      => ActiveTold'
  <2> SUFFICES ASSUME TypeOK, RowsKept, MoveInv, ActiveTold, [Next]_vars,
                      OneAtATime, OneAtATime'
               PROVE  ActiveTold'
    OBVIOUS
  <2>1. CASE UNCHANGED vars
    BY <2>1
    DEF vars, ActiveTold, ListOf, ActiveIds, Unlisted, Relisting, Restored,
        RowsOf, Pending, At
  <2> QED
    BY <2>1, NextRuns, StepList, RequestList
<1>3. ActiveTold => ActiveIsLearned
  BY DEF ActiveTold, ActiveIds, Unlisted, Relisting, Pending, At,
         ActiveIsLearned, AllIdle, IsIdle
<1> QED
  BY <1>1, <1>2, <1>3, MovesHold, PTL DEF Spec
=============================================================================
