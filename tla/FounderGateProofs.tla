-------------------------- MODULE FounderGateProofs --------------------------
(***************************************************************************)
(* The founder gate, the audit log and the finality of decisions of        *)
(* LearningGovernance, for any number of workers and proposals, any        *)
(* interleaving and stops anywhere; and LearningGovernance implements      *)
(* GovernedLearning.                                                       *)
(***************************************************************************)
EXTENDS LearningGovernanceProofs

(***************************************************************************)
(* What a handler may conclude from the status it reads.                   *)
(***************************************************************************)
LEMMA MoveSource ==
    /\ \A st : MayMove(st, "APPROVED") => st = "EVALUATED"
    /\ \A st : MayMove(st, "PROMOTED") => st = "APPROVED"
    /\ \A st : MayMove(st, "ACTIVE") => st = "PROMOTED"
    /\ \A st : MayMove(st, "ROLLED_BACK") => st \in {"PROMOTED", "ACTIVE"}
BY DEF MayMove, AllowedTransitions

\* The steps that change a proposal.
LEMMA WhoMoves ==
    ASSUME [Next]_vars
    PROVE  \/ proposals' = proposals
           \/ \E w \in Workers : WriteStatus(w)
           \/ \E w \in Workers, l \in Proposals : Learn(w, l) \/ AdvancedProposal(w, l)
BY ZenonT(60)
   DEF Next, Step, Request, vars, tables, Start, StartApprove, StartReject,
       BeginCheckpoint, BeginRestore, Recheck, LogTransition, Materialise,
       RetagStrategies, RetagRecords, ReadState, ReadIds, SaveState,
       SnapshotRows, StoreCheckpoint, DemoteActive, RestoreRow, SealRefuses,
       Crash

(***************************************************************************)
(* Evaluations and approvals are never taken back.                         *)
(***************************************************************************)
LEMMA Permanent ==
    ASSUME TypeOK, [Next]_vars
    PROVE  /\ \A l \in Proposals : proposals[l].evaluated => proposals'[l].evaluated
           /\ \A l \in Proposals : proposals[l].approved => proposals'[l].approved
           /\ approvals \subseteq approvals'
<1>1. ASSUME NEW w \in Workers, WriteStatus(w)
      PROVE  /\ \A l \in Proposals : proposals[l].evaluated => proposals'[l].evaluated
             /\ \A l \in Proposals : proposals[l].approved => proposals'[l].approved
  <2> SUFFICES ASSUME NEW l \in Proposals
               PROVE  /\ proposals[l].evaluated => proposals'[l].evaluated
                      /\ proposals[l].approved => proposals'[l].approved
    OBVIOUS
  <2>1. CASE l = task[w].l
    BY <1>1, <2>1 DEF WriteStatus, TypeOK
  <2>2. CASE l # task[w].l
    BY <1>1, <2>2 DEF WriteStatus, TypeOK
  <2> QED BY <2>1, <2>2
<1>2. ASSUME NEW w \in Workers, NEW x \in Proposals,
             Learn(w, x) \/ AdvancedProposal(w, x)
      PROVE  /\ \A l \in Proposals : proposals[l].evaluated => proposals'[l].evaluated
             /\ \A l \in Proposals : proposals[l].approved => proposals'[l].approved
  <2>1. PICK st \in Statuses : proposals' = [proposals EXCEPT ![x].status = st]
    BY <1>2 DEF Learn, AdvancedProposal, Statuses
  <2> SUFFICES ASSUME NEW l \in Proposals
               PROVE  /\ proposals'[l].evaluated = proposals[l].evaluated
                      /\ proposals'[l].approved = proposals[l].approved
    OBVIOUS
  <2>2. proposals[l] \in Proposal /\ l \in DOMAIN proposals
    BY DEF TypeOK
  <2> QED
    BY <2>1, <2>2 DEF Proposal
<1>3. \/ proposals' = proposals
      \/ \E w \in Workers : WriteStatus(w)
      \/ \E w \in Workers, l \in Proposals : Learn(w, l) \/ AdvancedProposal(w, l)
  BY WhoMoves
<1>4. \/ approvals' = approvals
      \/ \E w \in Workers, l \in Proposals, by \in Callers : StartApprove(w, l, by)
  BY ZenonT(60)
     DEF Next, Step, Request, vars, tables, Learn, AdvancedProposal, Start,
         StartReject, BeginCheckpoint, BeginRestore, Recheck, WriteStatus,
         LogTransition, Materialise, RetagStrategies, RetagRecords, ReadState,
         ReadIds, SaveState, SnapshotRows, StoreCheckpoint, DemoteActive,
         RestoreRow, SealRefuses, Crash
<1>5. approvals \subseteq approvals'
  BY <1>4 DEF StartApprove
<1> QED BY <1>1, <1>2, <1>3, <1>5

\* A handler is moved by its own statements and by stops, and by nothing else.
LEMMA OnlyOwn ==
    ASSUME TypeOK, NEW w \in Workers, NEW v \in Workers, v # w,
           Step(v) \/ Request(v) \/ SealRefuses(v)
    PROVE  task'[w] = task[w]
BY DEF Step, Request, TypeOK, Learn, AdvancedProposal, Start,
       StartApprove, StartReject, BeginCheckpoint, BeginRestore,
       Recheck, WriteStatus, LogTransition, Materialise,
       RetagStrategies, RetagRecords, ReadState, ReadIds, SaveState,
       SnapshotRows, StoreCheckpoint, DemoteActive, RestoreRow,
       SealRefuses, Finish, Goto

LEMMA InitGate == Init => GateInv
BY DEF Init, GateInv, StatusesGoverned, HandlersGoverned, RecordsGoverned,
       Governed, Pending, Idle, RecordStatuses, NoRow

LEMMA StepStatuses ==
    ASSUME TypeOK, GateInv, [Next]_vars
    PROVE  StatusesGoverned'
<1>1. ASSUME NEW w \in Workers, WriteStatus(w), NEW l \in Proposals
      PROVE  /\ proposals'[l].status \in {"EVALUATED", "APPROVED"} \cup RecordStatuses
                   => proposals'[l].evaluated
             /\ proposals'[l].status \in {"APPROVED"} \cup RecordStatuses
                   => proposals'[l].approved
             /\ proposals'[l].approved => Governed(l)'
  <2>1. task[w] \in MoveTask
    BY <1>1, TaskShape DEF WriteStatus, At
  <2>2. approvals' = approvals
    BY <1>1 DEF WriteStatus
  <2>3. CASE l # task[w].l
    <3>1. proposals'[l] = proposals[l]
      BY <1>1, <2>3 DEF WriteStatus, TypeOK
    <3> QED BY <2>2, <3>1 DEF GateInv, StatusesGoverned, Governed
  <2>4. CASE l = task[w].l
    <3> DEFINE target == task[w].target
    <3>1. proposals'[l] =
            [status    |-> target,
             evaluated |-> proposals[l].evaluated \/ target = "EVALUATED",
             approved  |-> proposals[l].approved \/ target = "APPROVED"]
      BY <1>1, <2>4 DEF WriteStatus, TypeOK
    <3>2. proposals[l].evaluated \in BOOLEAN /\ proposals[l].approved \in BOOLEAN
      BY DEF TypeOK, Proposal
    <3>3. proposals[l].approved => Governed(l)
      BY DEF GateInv, StatusesGoverned
    <3>4. /\ target = "APPROVED" => /\ proposals[l].evaluated
                                    /\ <<l, FOUNDER>> \in approvals
          /\ target \in RecordStatuses => proposals[l].approved
      BY <1>1, <2>4 DEF GateInv, HandlersGoverned, Pending, WriteStatus, At
    <3>5. /\ proposals'[l].status = target
          /\ proposals'[l].evaluated <=> proposals[l].evaluated \/ target = "EVALUATED"
          /\ proposals'[l].approved <=> proposals[l].approved \/ target = "APPROVED"
      <4> DEFINE e == proposals[l].evaluated \/ target = "EVALUATED"
                 a == proposals[l].approved \/ target = "APPROVED"
      <4>1. proposals'[l] = [status |-> target, evaluated |-> e, approved |-> a]
        BY <3>1, Zenon
      <4> HIDE DEF target, e, a
      <4>2. /\ proposals'[l].status = target
            /\ proposals'[l].evaluated = e
            /\ proposals'[l].approved = a
        BY <4>1
      <4> QED BY <4>2, Zenon DEF e, a
    <3>6. Governed(l)' <=> /\ proposals'[l].evaluated
                           /\ proposals'[l].approved
                           /\ <<l, FOUNDER>> \in approvals
      BY <2>2 DEF Governed
    <3>7. Governed(l) <=> /\ proposals[l].evaluated
                          /\ proposals[l].approved
                          /\ <<l, FOUNDER>> \in approvals
      BY DEF Governed
    <3>8. "APPROVED" \notin RecordStatuses /\ "EVALUATED" \notin RecordStatuses
      BY DEF RecordStatuses
    <3> HIDE DEF target
    <3>9. CASE target = "EVALUATED"
      BY <3>3, <3>5, <3>6, <3>7, <3>8, <3>9, Zenon
    <3>10. CASE target = "APPROVED"
      BY <3>3, <3>4, <3>5, <3>6, <3>7, <3>8, <3>10, Zenon
    <3>11. CASE target \in RecordStatuses
      BY <3>3, <3>4, <3>5, <3>6, <3>7, <3>8, <3>11, Zenon
    <3>12. CASE target \notin {"EVALUATED", "APPROVED"} \cup RecordStatuses
      BY <3>3, <3>5, <3>6, <3>7, <3>12, Zenon
    <3> QED BY <3>9, <3>10, <3>11, <3>12
  <2> QED BY <2>3, <2>4
<1>2. ASSUME NEW w \in Workers, WriteStatus(w)
      PROVE  StatusesGoverned'
  BY <1>1, <1>2 DEF StatusesGoverned
<1>3. ASSUME NEW w \in Workers, NEW x \in Proposals,
             Learn(w, x) \/ AdvancedProposal(w, x)
      PROVE  StatusesGoverned'
  <2>1. \A l \in Proposals :
           /\ \/ proposals'[l].status = proposals[l].status
              \/ proposals'[l].status \in {"OBSERVED", "PROPOSED"}
           /\ proposals'[l].evaluated = proposals[l].evaluated
           /\ proposals'[l].approved = proposals[l].approved
    <3> SUFFICES ASSUME NEW l \in Proposals
                 PROVE  /\ \/ proposals'[l].status = proposals[l].status
                           \/ proposals'[l].status \in {"OBSERVED", "PROPOSED"}
                        /\ proposals'[l].evaluated = proposals[l].evaluated
                        /\ proposals'[l].approved = proposals[l].approved
      OBVIOUS
    <3>1. PICK st \in {"OBSERVED", "PROPOSED"} :
             proposals' = [proposals EXCEPT ![x].status = st]
      BY <1>3 DEF Learn, AdvancedProposal
    <3>2. proposals[l] \in Proposal
      BY DEF TypeOK
    <3>3. CASE l = x
      <4>1. proposals'[l] = [proposals[l] EXCEPT !.status = st]
        BY <3>1, <3>3 DEF TypeOK
      <4> QED BY <3>2, <4>1 DEF Proposal
    <3>4. CASE l # x
      BY <3>1, <3>4 DEF TypeOK
    <3> QED BY <3>3, <3>4
  <2>2. approvals' = approvals
    BY <1>3 DEF Learn, AdvancedProposal
  <2> QED BY <2>1, <2>2 DEF GateInv, StatusesGoverned, Governed, RecordStatuses
<1>4. CASE proposals' = proposals
  BY <1>4, Permanent DEF GateInv, StatusesGoverned, Governed
<1>5. \/ proposals' = proposals
      \/ \E w \in Workers : WriteStatus(w)
      \/ \E w \in Workers, l \in Proposals : Learn(w, l) \/ AdvancedProposal(w, l)
  BY WhoMoves
<1> QED BY <1>2, <1>3, <1>4, <1>5

(***************************************************************************)
(* A handler's own step is justified by the status it reads there and then;*)
(* afterwards, whatever the others do, its justification is permanent.     *)
(***************************************************************************)
Justified(w) ==
    /\ Pending(w, {"recheck", "write"}, {"APPROVED"})
          => <<task[w].l, FOUNDER>> \in approvals
    /\ Pending(w, {"write"}, {"APPROVED"})
          => proposals[task[w].l].evaluated
    /\ Pending(w, {"write", "emit"}, RecordStatuses)
          => proposals[task[w].l].approved
    /\ task[w].pc = "materialise" => proposals[task[w].l].approved

LEMMA Unmoved ==
    ASSUME TypeOK, GateInv, [Next]_vars, NEW w \in Workers, task'[w] = task[w]
    PROVE  Justified(w)'
<1>1. Justified(w)
  BY DEF GateInv, HandlersGoverned, Justified
<1>2. CASE task[w].pc \in {"recheck", "write", "emit", "materialise"}
  <2>1. task[w].l \in Proposals
    BY <1>2, TaskShape DEF MoveTask, EffectTask
  <2> QED BY <1>1, <2>1, Permanent DEF Justified, Pending
<1>3. CASE task[w].pc \notin {"recheck", "write", "emit", "materialise"}
  BY <1>3 DEF Justified, Pending
<1> QED BY <1>2, <1>3

\* The steps that take worker w to a place where it must be justified.
LEMMA HandlerSteps ==
    ASSUME TypeOK, [Next]_vars, NEW w \in Workers
    PROVE  \/ task'[w] = task[w]
           \/ task'[w].pc \notin {"recheck", "write", "emit", "materialise"}
           \/ \E l \in Proposals : Learn(w, l)
           \/ \E l \in Proposals, target \in Targets : Start(w, target, l)
           \/ \E l \in Proposals, by \in Callers :
                 StartApprove(w, l, by) \/ StartReject(w, l, by)
           \/ Recheck(w) \/ WriteStatus(w) \/ LogTransition(w)
<1> DEFINE Harmless == \/ task'[w] = task[w]
                       \/ task'[w].pc \notin {"recheck", "write", "emit", "materialise"}
<1>1. ASSUME NEW v \in Workers, v # w, Step(v) \/ Request(v) \/ SealRefuses(v)
      PROVE  task'[w] = task[w]
  BY <1>1, OnlyOwn
<1>2. ASSUME \/ Materialise(w) \/ SaveState(w) \/ StoreCheckpoint(w)
             \/ SealRefuses(w) \/ Crash
      PROVE  Harmless
  BY <1>2 DEF Materialise, SaveState, StoreCheckpoint, SealRefuses, Crash,
              Finish, Idle, TypeOK
<1>3. ASSUME RetagStrategies(w) \/ RetagRecords(w) \/ ReadState(w) \/ ReadIds(w)
      PROVE  Harmless
  <2>1. task[w] \in EffectTask
    BY <1>3, TaskShape DEF RetagStrategies, RetagRecords, ReadState, ReadIds, At
  <2> QED BY <1>3, <2>1 DEF RetagStrategies, RetagRecords, ReadState, ReadIds,
                            Goto, TypeOK, EffectTask
<1>4. ASSUME DemoteActive(w) \/ \E s \in StrategyIds : RestoreRow(w, s)
      PROVE  Harmless
  <2>1. task[w] \in RestoreTask
    BY <1>4, TaskShape DEF DemoteActive, RestoreRow, At
  <2> QED BY <1>4, <2>1 DEF DemoteActive, RestoreRow, Goto, Finish, Idle,
                            TypeOK, RestoreTask
<1>5. ASSUME \/ SnapshotRows(w)
             \/ \E c \in Checkpoints : BeginCheckpoint(w, c) \/ BeginRestore(w, c)
      PROVE  Harmless
  BY <1>5 DEF SnapshotRows, BeginCheckpoint, BeginRestore, TypeOK
<1>6. ASSUME NEW l \in Proposals, AdvancedProposal(w, l)
      PROVE  Harmless
  BY <1>6 DEF AdvancedProposal
<1>7. ASSUME UNCHANGED vars
      PROVE  Harmless
  BY <1>7 DEF vars
<1> QED BY <1>1, <1>2, <1>3, <1>4, <1>5, <1>6, <1>7 DEF Next, Step, Request

LEMMA StepHandlers ==
    ASSUME TypeOK, GateInv, [Next]_vars
    PROVE  HandlersGoverned'
<1> SUFFICES ASSUME NEW w \in Workers PROVE Justified(w)'
  BY DEF HandlersGoverned, Justified
<1>1. CASE task'[w] = task[w]
  BY <1>1, Unmoved
<1>2. CASE task'[w].pc \notin {"recheck", "write", "emit", "materialise"}
  BY <1>2 DEF Justified, Pending
<1>3. ASSUME NEW l \in Proposals, Learn(w, l)
      PROVE  Justified(w)'
  <2>1. task'[w] = Move("PROPOSED", l, "recheck")
    BY <1>3 DEF Learn, TypeOK
  <2> QED BY <2>1 DEF Justified, Pending, Move, RecordStatuses
<1>4. ASSUME NEW l \in Proposals, NEW target \in Targets, Start(w, target, l)
      PROVE  Justified(w)'
  <2>1. task'[w] = Move(target, l, "write") /\ target # "APPROVED"
    BY <1>4 DEF Start, TypeOK
  <2>2. target \in RecordStatuses => proposals[l].approved
    <3>1. MayMove(proposals[l].status, target)
      BY <1>4 DEF Start
    <3> QED BY <3>1, MoveSource DEF GateInv, StatusesGoverned, RecordStatuses
  <2>3. target \in RecordStatuses => proposals'[l].approved
    BY <2>2, Permanent
  <2> QED BY <2>1, <2>3 DEF Justified, Pending, Move
<1>5. ASSUME NEW l \in Proposals, NEW by \in Callers,
             StartApprove(w, l, by) \/ StartReject(w, l, by)
      PROVE  Justified(w)'
  <2>1. CASE StartApprove(w, l, by)
    <3>1. task'[w] = Move("APPROVED", l, "recheck") /\ <<l, FOUNDER>> \in approvals'
      BY <2>1 DEF StartApprove, TypeOK, IsFounder
    <3> QED BY <3>1 DEF Justified, Pending, Move, RecordStatuses
  <2>2. CASE StartReject(w, l, by)
    <3>1. task'[w] = Move("REJECTED", l, "recheck")
      BY <2>2 DEF StartReject, TypeOK
    <3> QED BY <3>1 DEF Justified, Pending, Move, RecordStatuses
  <2> QED BY <1>5, <2>1, <2>2
<1>6. ASSUME Recheck(w)
      PROVE  Justified(w)'
  <2> DEFINE l == task[w].l
             target == task[w].target
  <2>1. task[w] \in MoveTask
    BY <1>6, TaskShape DEF Recheck, At
  <2>2. l \in Proposals
    BY <2>1 DEF MoveTask
  <2>3. CASE ~MayMove(proposals[l].status, target)
    BY <1>6, <2>3 DEF Recheck, TypeOK, Justified, Pending, Idle
  <2>4. CASE MayMove(proposals[l].status, target)
    <3>1. task'[w] = [task[w] EXCEPT !.pc = "write", !.seen = proposals[l].status]
      BY <1>6, <2>4 DEF Recheck, TypeOK
    <3>2. task'[w].l = l /\ task'[w].target = target /\ task'[w].pc = "write"
      BY <2>1, <3>1 DEF MoveTask
    <3>3. target = "APPROVED" =>
             <<l, FOUNDER>> \in approvals /\ proposals[l].evaluated
      BY <1>6, <2>2, <2>4, MoveSource
         DEF GateInv, StatusesGoverned, HandlersGoverned, Pending, Recheck, At
    <3>4. target \in RecordStatuses => proposals[l].approved
      BY <2>2, <2>4, MoveSource DEF GateInv, StatusesGoverned, RecordStatuses
    <3>5. proposals' = proposals /\ approvals' = approvals
      BY <1>6 DEF Recheck, tables
    <3> QED BY <3>2, <3>3, <3>4, <3>5 DEF Justified, Pending
  <2> QED BY <2>3, <2>4
<1>7. ASSUME WriteStatus(w)
      PROVE  Justified(w)'
  <2>1. task[w] \in MoveTask
    BY <1>7, TaskShape DEF WriteStatus, At
  <2>2. task'[w] = [task[w] EXCEPT !.pc = "emit"]
    BY <1>7 DEF WriteStatus, Goto, TypeOK
  <2>3. task'[w].pc = "emit" /\ task'[w].l = task[w].l /\ task'[w].target = task[w].target
    BY <2>1, <2>2 DEF MoveTask
  <2>4. task[w].target \in RecordStatuses => proposals[task[w].l].approved
    BY <1>7 DEF GateInv, HandlersGoverned, Pending, WriteStatus, At
  <2>5. task[w].target \in RecordStatuses => proposals'[task[w].l].approved
    BY <2>1, <2>4, Permanent DEF MoveTask
  <2> QED BY <2>3, <2>5 DEF Justified, Pending
<1>8. ASSUME LogTransition(w)
      PROVE  Justified(w)'
  <2>1. task'[w] = Effect(task[w].target, task[w].l)
    BY <1>8 DEF LogTransition, TypeOK
  <2>2. CASE task[w].target = "PROMOTED"
    <3>1. proposals[task[w].l].approved
      BY <1>8, <2>2 DEF GateInv, HandlersGoverned, Pending, LogTransition, At, RecordStatuses
    <3>2. task'[w].pc = "materialise" /\ task'[w].l = task[w].l
      BY <2>1, <2>2 DEF Effect
    <3>3. proposals' = proposals
      BY <1>8 DEF LogTransition, tables
    <3> QED BY <3>1, <3>2, <3>3 DEF Justified, Pending
  <2>3. CASE task[w].target # "PROMOTED"
    <3>1. task'[w].pc \in {"idle", "retag_strategies"}
      BY <2>1, <2>3 DEF Effect, Idle
    <3> QED BY <3>1 DEF Justified, Pending
  <2> QED BY <2>2, <2>3
<1>9. \/ task'[w] = task[w]
      \/ task'[w].pc \notin {"recheck", "write", "emit", "materialise"}
      \/ \E l \in Proposals : Learn(w, l)
      \/ \E l \in Proposals, target \in Targets : Start(w, target, l)
      \/ \E l \in Proposals, by \in Callers :
            StartApprove(w, l, by) \/ StartReject(w, l, by)
      \/ Recheck(w) \/ WriteStatus(w) \/ LogTransition(w)
  BY HandlerSteps
<1> QED BY <1>1, <1>2, <1>3, <1>4, <1>5, <1>6, <1>7, <1>8, <1>9

(***************************************************************************)
(* Only promotion leaves a record of a proposal that had none; the other   *)
(* steps change the status of rows, not where they come from.              *)
(***************************************************************************)
SameOrigins ==
    /\ \A s \in StrategyIds :
          /\ strategies'[s] # NoRow <=> strategies[s] # NoRow
          /\ strategies[s] # NoRow => strategies'[s].learning = strategies[s].learning
    /\ \A l \in Proposals : records'[l] # <<>> <=> records[l] # <<>>

LEMMA Retagged ==
    ASSUME NEW q \in Seq(RecordStatuses), NEW x
    PROVE  [i \in DOMAIN q |-> x] # <<>> <=> q # <<>>
<1>1. DOMAIN q = 1..Len(q) /\ Len(q) \in Nat
  OBVIOUS
<1>2. q # <<>> <=> Len(q) # 0
  OBVIOUS
<1>3. CASE Len(q) = 0
  <2>1. [i \in DOMAIN q |-> x] = <<>>
    BY <1>1, <1>3
  <2> QED BY <1>2, <1>3, <2>1
<1>4. CASE Len(q) # 0
  <2>1. 1 \in DOMAIN [i \in DOMAIN q |-> x]
    BY <1>1, <1>4
  <2> QED BY <1>2, <1>4, <2>1
<1> QED BY <1>3, <1>4

LEMMA OriginSteps ==
    ASSUME TypeOK, RowsKept, [Next]_vars
    PROVE  SameOrigins \/ \E w \in Workers : Materialise(w)
<1>1. ASSUME NEW w \in Workers, RetagStrategies(w)
      PROVE  SameOrigins
  <2>1. task[w] \in EffectTask
    BY <1>1, TaskShape DEF RetagStrategies, At
  <2>2. task[w].target \in RecordStatuses
    BY <2>1 DEF EffectTask
  <2>3. ASSUME NEW s \in StrategyIds
        PROVE  /\ strategies'[s] # NoRow <=> strategies[s] # NoRow
               /\ strategies[s] # NoRow => strategies'[s].learning = strategies[s].learning
    <3>1. CASE s \in RowsOf(task[w].l)
      <4>1. strategies[s] \in Row
        BY <3>1 DEF RowsOf, TypeOK
      <4>2. strategies'[s] = [strategies[s] EXCEPT !.status = task[w].target]
        BY <1>1, <3>1 DEF RetagStrategies
      <4>3. strategies'[s] \in Row /\ strategies'[s].learning = strategies[s].learning
        BY <2>2, <4>1, <4>2 DEF Row
      <4> QED BY <4>1, <4>3, RowIsARow
    <3>2. CASE s \notin RowsOf(task[w].l)
      BY <1>1, <3>2 DEF RetagStrategies
    <3> QED BY <3>1, <3>2
  <2> QED BY <1>1, <2>3 DEF RetagStrategies, SameOrigins
<1>2. ASSUME NEW w \in Workers, RetagRecords(w)
      PROVE  SameOrigins
  <2>1. ASSUME NEW l \in Proposals
        PROVE  records'[l] # <<>> <=> records[l] # <<>>
    <3>1. CASE l = task[w].l
      <4>1. records'[l] = [i \in DOMAIN records[l] |-> task[w].target]
        BY <1>2, <3>1 DEF RetagRecords, TypeOK
      <4>2. records[l] \in Seq(RecordStatuses)
        BY DEF TypeOK
      <4> QED BY <4>1, <4>2, Retagged
    <3>2. CASE l # task[w].l
      BY <1>2, <3>2 DEF RetagRecords, TypeOK
    <3> QED BY <3>1, <3>2
  <2> QED BY <1>2, <2>1 DEF RetagRecords, SameOrigins
<1>3. ASSUME NEW w \in Workers, DemoteActive(w)
      PROVE  SameOrigins
  <2>1. ASSUME NEW s \in StrategyIds
        PROVE  /\ strategies'[s] # NoRow <=> strategies[s] # NoRow
               /\ strategies[s] # NoRow => strategies'[s].learning = strategies[s].learning
    <3>1. CASE strategies[s].status = "ACTIVE"
      <4>1. strategies[s] \in Row
        BY <3>1 DEF TypeOK, NoRow
      <4>2. strategies'[s] = [strategies[s] EXCEPT !.status = "ROLLED_BACK"]
        BY <1>3, <3>1 DEF DemoteActive
      <4>3. strategies'[s] \in Row /\ strategies'[s].learning = strategies[s].learning
        BY <4>1, <4>2 DEF Row, RecordStatuses
      <4> QED BY <4>1, <4>3, RowIsARow
    <3>2. CASE strategies[s].status # "ACTIVE"
      BY <1>3, <3>2 DEF DemoteActive
    <3> QED BY <3>1, <3>2
  <2> QED BY <1>3, <2>1 DEF DemoteActive, SameOrigins
<1>4. ASSUME NEW w \in Workers, NEW x \in StrategyIds, RestoreRow(w, x)
      PROVE  SameOrigins
  <2>1. task[w] \in RestoreTask
    BY <1>4, TaskShape DEF RestoreRow, At
  <2> DEFINE snapshot == checkpoints[task[w].c]
  <2>2. task[w].c \in Checkpoints /\ snapshot \in Snapshot
        /\ snapshot.statuses[x] # "absent"
    BY <1>4, <2>1 DEF RowsKept, RestoreRow, At, RestoreTask
  <2>3. strategies[x] \in Row
    BY <2>2 DEF RowsKept, Present, TypeOK
  <2>4. snapshot.statuses[x] \in RecordStatuses
    BY <2>2 DEF Snapshot
  <2>5. strategies' = [strategies EXCEPT ![x].status = snapshot.statuses[x]]
    BY <1>4 DEF RestoreRow
  <2> HIDE DEF snapshot
  <2>6. strategies'[x] \in Row /\ strategies'[x].learning = strategies[x].learning
    BY <2>3, <2>4, <2>5 DEF TypeOK, Row
  <2>7. \A s \in StrategyIds : s # x => strategies'[s] = strategies[s]
    BY <2>5 DEF TypeOK
  <2> QED BY <1>4, <2>3, <2>6, <2>7, RowIsARow DEF RestoreRow, SameOrigins
<1>5. ASSUME strategies' = strategies, records' = records
      PROVE  SameOrigins
  BY <1>5 DEF SameOrigins
<1>6. \/ strategies' = strategies /\ records' = records
      \/ \E w \in Workers : Materialise(w)
      \/ \E w \in Workers : RetagStrategies(w)
      \/ \E w \in Workers : RetagRecords(w)
      \/ \E w \in Workers : DemoteActive(w)
      \/ \E w \in Workers, s \in StrategyIds : RestoreRow(w, s)
  <2>1. ASSUME NEW w \in Workers, Step(w)
        PROVE  \/ strategies' = strategies /\ records' = records
               \/ Materialise(w) \/ RetagStrategies(w) \/ RetagRecords(w)
               \/ DemoteActive(w) \/ \E s \in StrategyIds : RestoreRow(w, s)
    BY <2>1 DEF Step, tables, Recheck, WriteStatus, LogTransition, ReadState,
                ReadIds, SaveState, SnapshotRows, StoreCheckpoint
  <2>2. ASSUME NEW w \in Workers, Request(w) \/ SealRefuses(w) \/ Crash
        PROVE  strategies' = strategies /\ records' = records
    BY <2>2 DEF Request, tables, Learn, AdvancedProposal, Start, StartApprove,
                StartReject, BeginCheckpoint, BeginRestore, SealRefuses, Crash
  <2>3. CASE UNCHANGED vars
    BY <2>3 DEF vars
  <2>4. CASE Next
    BY <2>1, <2>2, <2>4 DEF Next, Crash
  <2> QED BY <2>3, <2>4
<1> QED BY <1>1, <1>2, <1>3, <1>4, <1>5, <1>6

LEMMA StepRecords ==
    ASSUME TypeOK, RowsKept, GateInv, [Next]_vars
    PROVE  RecordsGoverned'
<1>1. CASE SameOrigins
  <2>1. \A s \in StrategyIds : strategies[s] # NoRow => strategies[s].learning \in Proposals
    BY DEF TypeOK, Row
  <2> QED BY <1>1, <2>1, Permanent DEF SameOrigins, GateInv, RecordsGoverned
<1>2. ASSUME NEW w \in Workers, Materialise(w)
      PROVE  RecordsGoverned'
  <2> DEFINE l == task[w].l
  <2>1. l \in Proposals
    BY <1>2, TaskShape DEF Materialise, At, EffectTask
  <2>2. proposals' = proposals /\ proposals[l].approved
    BY <1>2 DEF Materialise, GateInv, HandlersGoverned, At
  <2>3. \A s \in StrategyIds : \/ strategies'[s] = strategies[s]
                               \/ strategies'[s].learning = l
    BY <1>2 DEF Materialise, TypeOK
  <2>4. \A k \in Proposals : k # l => records'[k] = records[k]
    BY <1>2 DEF Materialise, TypeOK
  <2> QED BY <2>1, <2>2, <2>3, <2>4 DEF GateInv, RecordsGoverned
<1> QED BY <1>1, <1>2, OriginSteps

LEMMA StepGate == TypeOK /\ RowsKept /\ GateInv /\ [Next]_vars => GateInv'
BY StepStatuses, StepHandlers, StepRecords DEF GateInv

LEMMA GateImpliesFounderGate == TypeOK /\ GateInv => FounderGate
BY DEF TypeOK, Row, GateInv, RecordsGoverned, StatusesGoverned, FounderGate,
       HasRecord, RowsOf

(***************************************************************************)
(* Whatever the handlers interleave and wherever they stop, a proposal     *)
(* that left a strategy, a memory or a skill carries its evaluation, its   *)
(* approval_id and a row of the founder in approvals (promote_learning).   *)
(***************************************************************************)
THEOREM FounderGateHolds == Spec => []FounderGate
<1>1. Init => TypeOK /\ RowsKept /\ GateInv
  BY InitType, InitRows, InitGate
<1>2. TypeOK /\ RowsKept /\ GateInv /\ [Next]_vars
         => (TypeOK /\ RowsKept /\ GateInv)'
  BY StepType, StepRows, StepGate
<1>3. TypeOK /\ RowsKept /\ GateInv => FounderGate
  BY GateImpliesFounderGate
<1> QED BY <1>1, <1>2, <1>3, PTL DEF Spec

(***************************************************************************)
(* Refinement: the initial states and the steps of LearningGovernance are  *)
(* those of GovernedLearning under the mapping of Promise.                 *)
(***************************************************************************)
Evaluated == {l \in Proposals : proposals[l].evaluated}
Approved == {l \in Proposals : proposals[l].approved}
Behavioural == {l \in Proposals : HasRecord(l)}

LEMMA InitPromise == Init => Promise!GInit
BY DEF Init, Promise!GInit, HasRecord, RowsOf

\* A step that changes no record leaves the set of their proposals alone.
LEMMA SameRecords == TypeOK /\ SameOrigins => Behavioural' = Behavioural
<1> SUFFICES ASSUME TypeOK, SameOrigins, NEW l \in Proposals
             PROVE  HasRecord(l)' <=> HasRecord(l)
  BY DEF Behavioural
<1>1. RowsOf(l)' = RowsOf(l)
  BY DEF SameOrigins, RowsOf
<1> QED BY <1>1 DEF HasRecord, SameOrigins

LEMMA StepPromise ==
    ASSUME TypeOK, RowsKept, GateInv, [Next]_vars
    PROVE  [Promise!GNext]_(Promise!gvars)
<1> USE DEF Promise!GNext, Promise!gvars, Evaluated, Approved, Behavioural
<1>1. ASSUME NEW w \in Workers, WriteStatus(w)
      PROVE  [Promise!GNext]_(Promise!gvars)
  <2> DEFINE l == task[w].l
             target == task[w].target
  <2>1. l \in Proposals
    BY <1>1, TaskShape DEF WriteStatus, At, MoveTask
  <2>2. Behavioural' = Behavioural
    BY <1>1, SameRecords DEF WriteStatus, SameOrigins
  <2>3. \A k \in Proposals : k # l => proposals'[k] = proposals[k]
    BY <1>1 DEF WriteStatus, TypeOK
  <2>4. /\ proposals'[l].evaluated <=> proposals[l].evaluated \/ target = "EVALUATED"
        /\ proposals'[l].approved <=> proposals[l].approved \/ target = "APPROVED"
    <3> DEFINE e == proposals[l].evaluated \/ target = "EVALUATED"
               a == proposals[l].approved \/ target = "APPROVED"
    <3>1. proposals'[l] = [status |-> target, evaluated |-> e, approved |-> a]
      BY <1>1, <2>1 DEF WriteStatus, TypeOK
    <3> HIDE DEF target, e, a
    <3>2. proposals'[l].evaluated = e /\ proposals'[l].approved = a
      BY <3>1
    <3> QED BY <3>2, Zenon DEF e, a
  <2> HIDE DEF l
  <2>5. CASE target = "EVALUATED"
    <3>1. Evaluated' = Evaluated \cup {l} /\ Approved' = Approved
      BY <2>1, <2>3, <2>4, <2>5
    <3> QED BY <2>1, <2>2, <3>1 DEF Promise!Evaluate
  <2>6. CASE target = "APPROVED"
    <3>1. Evaluated' = Evaluated /\ Approved' = Approved \cup {l}
      BY <2>1, <2>3, <2>4, <2>6
    <3>2. l \in Evaluated
      BY <1>1, <2>1, <2>6
         DEF l, GateInv, HandlersGoverned, Pending, WriteStatus, At
    <3> QED BY <2>1, <2>2, <3>1, <3>2 DEF Promise!Approve
  <2>7. CASE target \notin {"EVALUATED", "APPROVED"}
    <3>1. Evaluated' = Evaluated /\ Approved' = Approved
      BY <2>1, <2>3, <2>4, <2>7
    <3> QED BY <2>2, <3>1
  <2> QED BY <2>5, <2>6, <2>7
<1>2. ASSUME NEW w \in Workers, Materialise(w)
      PROVE  [Promise!GNext]_(Promise!gvars)
  <2>1. PICK l \in Proposals : l = task[w].l
    BY <1>2, TaskShape DEF Materialise, At, EffectTask
  <2>2. l \in Approved
    BY <1>2, <2>1 DEF Materialise, GateInv, HandlersGoverned, At
  <2>3. Evaluated' = Evaluated /\ Approved' = Approved
    BY <1>2 DEF Materialise
  <2>4. CASE KindOf[l] = "none"
    <3>1. strategies' = strategies /\ records' = records
      BY <1>2, <2>1, <2>4 DEF Materialise
    <3> QED BY <2>3, <3>1, SameRecords DEF SameOrigins
  <2>5. CASE KindOf[l] # "none"
    <3> DEFINE displaced == Behavioural \ Behavioural'
    <3>1. KindOf[l] \in {"strategy", "memory", "skill"}
      BY <2>1, <2>5, GovernanceAssumption DEF Kinds
    <3>2. HasRecord(l)'
      <4>1. CASE KindOf[l] = "strategy"
        <5>1. StrategyOf[l] \in StrategyIds
          BY <2>1, GovernanceAssumption
        <5>2. strategies'[StrategyOf[l]] = [learning |-> l, status |-> "PROMOTED"]
          BY <1>2, <2>1, <4>1, <5>1 DEF Materialise, TypeOK
        <5>3. strategies'[StrategyOf[l]] # NoRow
          BY <5>2 DEF NoRow
        <5>4. strategies'[StrategyOf[l]].learning = l
          BY <5>2
        <5>5. StrategyOf[l] \in RowsOf(l)'
          BY <5>1, <5>3, <5>4 DEF RowsOf
        <5> QED BY <5>5 DEF HasRecord
      <4>2. CASE KindOf[l] \in {"memory", "skill"}
        <5>1. records'[l] = Append(records[l], "PROMOTED")
          BY <1>2, <2>1, <4>2 DEF Materialise, TypeOK
        <5>2. records[l] \in Seq(RecordStatuses)
          BY <2>1 DEF TypeOK
        <5>3. records'[l] # <<>>
          <6>1. \A q \in Seq(RecordStatuses), x \in RecordStatuses : Append(q, x) # <<>>
            <7> SUFFICES ASSUME NEW q \in Seq(RecordStatuses), NEW x \in RecordStatuses
                         PROVE  Len(Append(q, x)) # Len(<<>>)
              OBVIOUS
            <7> QED OBVIOUS
          <6>2. "PROMOTED" \in RecordStatuses
            BY DEF RecordStatuses
          <6> QED BY <5>1, <5>2, <6>1, <6>2
        <5> QED BY <5>3 DEF HasRecord
      <4> QED BY <3>1, <4>1, <4>2
    <3>3. \A k \in Proposals : k # l /\ HasRecord(k)' => HasRecord(k)
      <4> SUFFICES ASSUME NEW k \in Proposals, k # l, HasRecord(k)'
                   PROVE  HasRecord(k)
        OBVIOUS
      <4>1. records'[k] = records[k]
        BY <1>2, <2>1 DEF Materialise, TypeOK
      <4>2. ASSUME NEW s \in StrategyIds, strategies'[s] # NoRow,
                   strategies'[s].learning = k
            PROVE  strategies'[s] = strategies[s]
        BY <1>2, <2>1, <4>2 DEF Materialise, TypeOK
      <4> QED BY <4>1, <4>2 DEF HasRecord, RowsOf
    <3>4. Behavioural' = (Behavioural \ displaced) \cup {l}
      BY <2>1, <3>2, <3>3
    <3>5. displaced \in SUBSET Proposals
      OBVIOUS
    <3> QED BY <2>1, <2>2, <2>3, <3>4, <3>5 DEF Promise!Promote
  <2> QED BY <2>4, <2>5
<1>3. ASSUME NEW w \in Workers, NEW x \in Proposals,
             Learn(w, x) \/ AdvancedProposal(w, x)
      PROVE  [Promise!GNext]_(Promise!gvars)
  <2>1. Behavioural' = Behavioural
    BY <1>3, SameRecords DEF Learn, AdvancedProposal, SameOrigins
  <2>2. \A l \in Proposals : /\ proposals'[l].evaluated = proposals[l].evaluated
                             /\ proposals'[l].approved = proposals[l].approved
    <3> SUFFICES ASSUME NEW l \in Proposals
                 PROVE  /\ proposals'[l].evaluated = proposals[l].evaluated
                        /\ proposals'[l].approved = proposals[l].approved
      OBVIOUS
    <3>1. PICK st : proposals' = [proposals EXCEPT ![x].status = st]
      BY <1>3 DEF Learn, AdvancedProposal
    <3>2. proposals[l] \in Proposal
      BY DEF TypeOK
    <3>3. CASE l = x
      <4>1. proposals'[l] = [proposals[l] EXCEPT !.status = st]
        BY <3>1, <3>3 DEF TypeOK
      <4> QED BY <3>2, <4>1 DEF Proposal
    <3>4. CASE l # x
      BY <3>1, <3>4 DEF TypeOK
    <3> QED BY <3>3, <3>4
  <2> QED BY <2>1, <2>2
<1>4. CASE proposals' = proposals /\ SameOrigins
  BY <1>4, SameRecords
<1>5. \/ proposals' = proposals
      \/ \E w \in Workers : WriteStatus(w)
      \/ \E w \in Workers, l \in Proposals : Learn(w, l) \/ AdvancedProposal(w, l)
  BY WhoMoves
<1> QED BY <1>1, <1>2, <1>3, <1>4, <1>5, OriginSteps

(***************************************************************************)
(* The handlers implement the promise: proposals are approved only after   *)
(* their evaluation and leave a record only after their approval.          *)
(***************************************************************************)
THEOREM PromiseKept == Spec => KeepsPromise
<1>1. Init => Promise!GInit /\ TypeOK /\ RowsKept /\ GateInv
  BY InitType, InitRows, InitGate, InitPromise
<1>2. TypeOK /\ RowsKept /\ GateInv /\ [Next]_vars
         => (TypeOK /\ RowsKept /\ GateInv)'
  BY StepType, StepRows, StepGate
<1>3. TypeOK /\ RowsKept /\ GateInv /\ [Next]_vars
         => [Promise!GNext]_(Promise!gvars)
  BY StepPromise
<1> QED BY <1>1, <1>2, <1>3, PTL DEF Spec, KeepsPromise, Promise!GSpec

(***************************************************************************)
(* The audit log: events are only added, by the handler that has set the   *)
(* status and stands at its event until it logs it or stops.               *)
(***************************************************************************)
LEMMA EventsGrow ==
    ASSUME TypeOK, [Next]_vars
    PROVE  \A l \in Proposals : events[l] \subseteq events'[l]
<1>1. events' = events \/ \E w \in Workers : LogTransition(w)
  BY ZenonT(60)
     DEF Next, Step, Request, vars, tables, log, Learn, AdvancedProposal, Start,
         StartApprove, StartReject, BeginCheckpoint, BeginRestore, Recheck,
         WriteStatus, Materialise, RetagStrategies, RetagRecords, ReadState,
         ReadIds, SaveState, SnapshotRows, StoreCheckpoint, DemoteActive,
         RestoreRow, SealRefuses, Crash
<1>2. ASSUME NEW w \in Workers, LogTransition(w)
      PROVE  \A l \in Proposals : events[l] \subseteq events'[l]
  BY <1>2 DEF LogTransition, TypeOK
<1> QED BY <1>1, <1>2

LEMMA EmitStays ==
    ASSUME TypeOK, [Next]_vars, NEW w \in Workers, task[w].pc = "emit",
           ~LogTransition(w), ~Crash
    PROVE  task'[w] = task[w]
<1>1. ASSUME Step(w) \/ Request(w) \/ SealRefuses(w)
      PROVE  task'[w] = task[w]
  BY <1>1
     DEF Step, Request, Learn, AdvancedProposal, Start, StartApprove,
         StartReject, BeginCheckpoint, BeginRestore, Recheck, WriteStatus,
         Materialise, RetagStrategies, RetagRecords, ReadState, ReadIds,
         SaveState, SnapshotRows, StoreCheckpoint, DemoteActive, RestoreRow,
         SealRefuses, At, IsIdle
<1>2. CASE UNCHANGED vars
  BY <1>2 DEF vars
<1> QED BY <1>1, <1>2, OnlyOwn DEF Next

LEMMA UnloggedStays ==
    ASSUME [Next]_vars
    PROVE  \/ unlogged' = unlogged
           \/ \E w \in Workers : WriteStatus(w)
           \/ Crash
BY ZenonT(60)
   DEF Next, Step, Request, vars, tables, log, Learn, AdvancedProposal, Start,
       StartApprove, StartReject, BeginCheckpoint, BeginRestore, Recheck,
       LogTransition, Materialise, RetagStrategies, RetagRecords, ReadState,
       ReadIds, SaveState, SnapshotRows, StoreCheckpoint, DemoteActive,
       RestoreRow, SealRefuses

\* StatusIsLogged for one proposal.
Logged(l) == \/ proposals[l].status \in Inserted(l) \cup events[l]
             \/ l \in unlogged
             \/ \E w \in Workers : AboutToLog(w, l)

LEMMA StepLogged ==
    ASSUME TypeOK, StatusIsLogged, [Next]_vars
    PROVE  StatusIsLogged'
<1> SUFFICES ASSUME NEW l \in Proposals PROVE Logged(l)'
  BY DEF StatusIsLogged, Logged
<1>0. Logged(l)
  BY DEF StatusIsLogged, Logged
<1>1. events[l] \subseteq events'[l]
  BY EventsGrow
<1>2. ASSUME NEW w \in Workers, WriteStatus(w)
      PROVE  Logged(l)'
  <2>1. task[w] \in MoveTask
    BY <1>2, TaskShape DEF WriteStatus, At
  <2>2. task'[w] = [task[w] EXCEPT !.pc = "emit"]
    BY <1>2 DEF WriteStatus, Goto, TypeOK
  <2>3. task'[w].pc = "emit" /\ task'[w].l = task[w].l /\ task'[w].target = task[w].target
    BY <2>1, <2>2 DEF MoveTask
  <2>4. CASE l = task[w].l
    <3>1. proposals'[l].status = task[w].target
      BY <1>2, <2>4 DEF WriteStatus, TypeOK
    <3>2. AboutToLog(w, l)'
      BY <2>3, <2>4, <3>1 DEF AboutToLog, At
    <3> QED BY <3>2 DEF Logged
  <2>5. CASE l # task[w].l
    <3>1. proposals'[l] = proposals[l]
      BY <1>2, <2>5 DEF WriteStatus, TypeOK
    <3>2. l \in unlogged => l \in unlogged'
      BY <1>2, <2>5 DEF WriteStatus
    <3>3. ASSUME NEW v \in Workers, AboutToLog(v, l)
          PROVE  AboutToLog(v, l)'
      <4>1. v # w
        BY <1>2, <3>3 DEF AboutToLog, WriteStatus, At
      <4>2. task'[v] = task[v]
        BY <1>2, <4>1 DEF WriteStatus, Goto, TypeOK
      <4> QED BY <3>1, <3>3, <4>2 DEF AboutToLog, At
    <3> QED BY <1>0, <1>1, <3>1, <3>2, <3>3 DEF Logged, Inserted
  <2> QED BY <2>4, <2>5
<1>3. ASSUME NEW w \in Workers, NEW x \in Proposals,
             Learn(w, x) \/ AdvancedProposal(w, x)
      PROVE  Logged(l)'
  <2>1. CASE l = x
    <3>1. proposals'[l].status \in Inserted(l)
      <4>1. PICK st \in Inserted(l) : proposals' = [proposals EXCEPT ![l].status = st]
        BY <1>3, <2>1 DEF Learn, AdvancedProposal, Inserted
      <4>2. proposals[l] \in Proposal
        BY DEF TypeOK
      <4>3. proposals'[l] = [proposals[l] EXCEPT !.status = st]
        BY <4>1 DEF TypeOK
      <4> QED BY <4>2, <4>3 DEF Proposal
    <3> QED BY <3>1 DEF Logged, Inserted
  <2>2. CASE l # x
    <3>1. proposals'[l] = proposals[l] /\ unlogged' = unlogged
      BY <1>3, <2>2 DEF Learn, AdvancedProposal, TypeOK, log
    <3>2. ASSUME NEW v \in Workers, AboutToLog(v, l)
          PROVE  AboutToLog(v, l)'
      <4>1. task'[v] = task[v]
        BY <1>3, <3>2 DEF Learn, AdvancedProposal, AboutToLog, At, IsIdle, TypeOK
      <4> QED BY <3>1, <3>2, <4>1 DEF AboutToLog, At
    <3> QED BY <1>0, <1>1, <3>1, <3>2 DEF Logged, Inserted
  <2> QED BY <2>1, <2>2
<1>4. ASSUME NEW w \in Workers, LogTransition(w)
      PROVE  Logged(l)'
  <2>1. proposals' = proposals /\ unlogged' = unlogged
    BY <1>4 DEF LogTransition, tables
  <2>2. CASE AboutToLog(w, l)
    <3>1. proposals[l].status \in events'[l]
      BY <1>4, <2>2 DEF LogTransition, AboutToLog, TypeOK
    <3> QED BY <2>1, <3>1 DEF Logged
  <2>3. CASE ~AboutToLog(w, l)
    <3>1. ASSUME NEW v \in Workers, AboutToLog(v, l)
          PROVE  AboutToLog(v, l)'
      <4>1. task'[v] = task[v]
        BY <1>4, <2>3, <3>1 DEF LogTransition, TypeOK
      <4> QED BY <2>1, <3>1, <4>1 DEF AboutToLog, At
    <3> QED BY <1>0, <1>1, <2>1, <3>1 DEF Logged, Inserted
  <2> QED BY <2>2, <2>3
<1>5. ASSUME Crash
      PROVE  Logged(l)'
  <2>1. PICK w \in Workers :
           /\ unlogged' = IF LeavesUntold(w) THEN unlogged \cup {task[w].l}
                                            ELSE unlogged
           /\ Finish(w)
    BY <1>5 DEF Crash
  <2>2. proposals' = proposals
    BY <1>5 DEF Crash, tables
  <2>3. CASE AboutToLog(w, l)
    <3>1. l \in unlogged'
      BY <2>1, <2>3 DEF AboutToLog, LeavesUntold
    <3> QED BY <3>1 DEF Logged
  <2>4. CASE ~AboutToLog(w, l)
    <3>1. ASSUME NEW v \in Workers, AboutToLog(v, l)
          PROVE  AboutToLog(v, l)'
      <4>1. task'[v] = task[v]
        BY <2>1, <2>4, <3>1 DEF Finish, TypeOK
      <4> QED BY <2>2, <3>1, <4>1 DEF AboutToLog, At
    <3>2. l \in unlogged => l \in unlogged'
      BY <2>1
    <3> QED BY <1>0, <1>1, <2>2, <3>1, <3>2 DEF Logged, Inserted
  <2> QED BY <2>3, <2>4
<1>6. CASE /\ proposals' = proposals /\ unlogged' = unlogged
           /\ ~Crash /\ \A w \in Workers : ~LogTransition(w)
  <2>1. ASSUME NEW v \in Workers, AboutToLog(v, l)
        PROVE  AboutToLog(v, l)'
    <3>1. task'[v] = task[v]
      BY <1>6, <2>1, EmitStays DEF AboutToLog, At
    <3> QED BY <1>6, <2>1, <3>1 DEF AboutToLog, At
  <2> QED BY <1>0, <1>1, <1>6, <2>1 DEF Logged, Inserted
<1> QED BY <1>2, <1>3, <1>4, <1>5, <1>6, WhoMoves, UnloggedStays

(***************************************************************************)
(* "Every transition is validated and emitted to the audit log": whatever  *)
(* the handlers interleave, the log has the status of every proposal, save *)
(* while a handler is about to log it or after one stopped short of it     *)
(* (_transition_learning).                                                 *)
(***************************************************************************)
THEOREM StatusesAreLogged == Spec => []StatusIsLogged
<1>1. Init => TypeOK /\ RowsKept /\ StatusIsLogged
  BY InitType, InitRows DEF Init, StatusIsLogged, Inserted
<1>2. TypeOK /\ RowsKept /\ StatusIsLogged /\ [Next]_vars
         => (TypeOK /\ RowsKept /\ StatusIsLogged)'
  BY StepType, StepRows, StepLogged
<1> QED BY <1>1, <1>2, PTL DEF Spec

(***************************************************************************)
(* What a handler does after its transition, it does once that is logged;  *)
(* only a promotion materialises.                                          *)
(***************************************************************************)
EffectsLogged ==
    \A w \in Workers :
        /\ task[w].pc \in {"materialise", "retag_strategies", "retag_records"}
              => task[w].target \in events[task[w].l]
        /\ task[w].pc = "materialise" => task[w].target = "PROMOTED"

\* The steps that take worker w to one of these places.
LEMMA EffectSteps ==
    ASSUME TypeOK, [Next]_vars, NEW w \in Workers
    PROVE  \/ task'[w] = task[w]
           \/ task'[w].pc \notin {"materialise", "retag_strategies", "retag_records"}
           \/ LogTransition(w) \/ RetagStrategies(w)
<1>1. ASSUME Recheck(w) \/ WriteStatus(w)
      PROVE  task'[w].pc \in {"idle", "write", "emit"}
  <2>1. task[w] \in MoveTask
    BY <1>1, TaskShape DEF Recheck, WriteStatus, At
  <2>2. CASE Recheck(w)
    <3>1. \/ task'[w] = Idle
          \/ task'[w] = [task[w] EXCEPT !.pc = "write",
                                        !.seen = proposals[task[w].l].status]
      BY <2>2 DEF Recheck, TypeOK
    <3>2. Idle.pc = "idle"
      BY DEF Idle
    <3>3. \A x : [task[w] EXCEPT !.pc = "write", !.seen = x].pc = "write"
      BY <2>1 DEF MoveTask
    <3> QED BY <3>1, <3>2, <3>3
  <2>3. CASE WriteStatus(w)
    <3>1. task'[w] = [task[w] EXCEPT !.pc = "emit"]
      BY <2>3 DEF WriteStatus, Goto, TypeOK
    <3> QED BY <2>1, <3>1 DEF MoveTask
  <2> QED BY <1>1, <2>2, <2>3
<1>2. ASSUME RetagRecords(w) \/ ReadState(w) \/ ReadIds(w)
      PROVE  task'[w].pc \in {"read_state", "read_ids", "save"}
  <2>1. task[w] \in EffectTask
    BY <1>2, TaskShape DEF RetagRecords, ReadState, ReadIds, At
  <2> QED BY <1>2, <2>1 DEF RetagRecords, ReadState, ReadIds, Goto, TypeOK, EffectTask
<1>3. ASSUME DemoteActive(w) \/ \E s \in StrategyIds : RestoreRow(w, s)
      PROVE  task'[w].pc \in {"idle", "restore"}
  <2>1. task[w] \in RestoreTask
    BY <1>3, TaskShape DEF DemoteActive, RestoreRow, At
  <2> QED BY <1>3, <2>1 DEF DemoteActive, RestoreRow, Goto, Finish, Idle,
                            TypeOK, RestoreTask, At
<1>4. ASSUME \/ Materialise(w) \/ SaveState(w) \/ StoreCheckpoint(w)
             \/ SealRefuses(w) \/ Crash
      PROVE  task'[w] = task[w] \/ task'[w].pc = "idle"
  BY <1>4 DEF Materialise, SaveState, StoreCheckpoint, SealRefuses, Crash,
              Finish, Idle, TypeOK
<1>5. ASSUME SnapshotRows(w)
      PROVE  task'[w].pc = "snap_store"
  BY <1>5 DEF SnapshotRows, TypeOK
<1>6. ASSUME NEW c \in Checkpoints, BeginCheckpoint(w, c) \/ BeginRestore(w, c)
      PROVE  task'[w].pc \in {"snap_rows", "demote"}
  BY <1>6 DEF BeginCheckpoint, BeginRestore, TypeOK
<1>7. ASSUME NEW l \in Proposals,
             \/ Learn(w, l) \/ AdvancedProposal(w, l)
             \/ \E target \in Targets : Start(w, target, l)
             \/ \E by \in Callers : StartApprove(w, l, by) \/ StartReject(w, l, by)
      PROVE  task'[w] = task[w] \/ task'[w].pc \in {"recheck", "write"}
  BY <1>7 DEF Learn, AdvancedProposal, Start, StartApprove, StartReject, Move, TypeOK
<1>8. CASE UNCHANGED vars
  BY <1>8 DEF vars
<1> QED BY <1>1, <1>2, <1>3, <1>4, <1>5, <1>6, <1>7, <1>8, OnlyOwn
        DEF Next, Step, Request

LEMMA StepEffects ==
    ASSUME TypeOK, EffectsLogged, [Next]_vars
    PROVE  EffectsLogged'
<1> SUFFICES ASSUME NEW w \in Workers
             PROVE  /\ task'[w].pc \in {"materialise", "retag_strategies", "retag_records"}
                          => task'[w].target \in events'[task'[w].l]
                    /\ task'[w].pc = "materialise" => task'[w].target = "PROMOTED"
  BY DEF EffectsLogged
<1>1. CASE task'[w] = task[w]
  <2>1. task[w].pc \in {"materialise", "retag_strategies", "retag_records"}
           => task[w].l \in Proposals
    BY TaskShape DEF EffectTask
  <2> QED BY <1>1, <2>1, EventsGrow DEF EffectsLogged
<1>2. CASE LogTransition(w)
  <2>1. task[w] \in MoveTask
    BY <1>2, TaskShape DEF LogTransition, At
  <2>2. task'[w] = Effect(task[w].target, task[w].l)
    BY <1>2 DEF LogTransition, TypeOK
  <2>3. task[w].target \in events'[task[w].l]
    BY <1>2, <2>1 DEF LogTransition, TypeOK, MoveTask
  <2>4. \/ task'[w].pc = "idle"
        \/ /\ task'[w].target = task[w].target /\ task'[w].l = task[w].l
           /\ task'[w].pc = "materialise" => task[w].target = "PROMOTED"
    BY <2>2 DEF Effect, Idle
  <2> QED BY <2>3, <2>4
<1>3. CASE RetagStrategies(w)
  <2>1. task[w] \in EffectTask
    BY <1>3, TaskShape DEF RetagStrategies, At
  <2>2. task'[w] = [task[w] EXCEPT !.pc = "retag_records"]
    BY <1>3 DEF RetagStrategies, Goto, TypeOK
  <2>3. /\ task'[w].pc = "retag_records"
        /\ task'[w].target = task[w].target /\ task'[w].l = task[w].l
    BY <2>1, <2>2 DEF EffectTask
  <2>4. events' = events /\ task[w].target \in events[task[w].l]
    BY <1>3 DEF RetagStrategies, log, EffectsLogged, At
  <2> QED BY <2>3, <2>4
<1> QED BY <1>1, <1>2, <1>3, EffectSteps

\* The steps that change the memory and skills rows of a proposal.
LEMMA RecordSteps ==
    ASSUME [Next]_vars
    PROVE  \/ records' = records
           \/ \E w \in Workers : Materialise(w) \/ RetagRecords(w)
BY ZenonT(60)
   DEF Next, Step, Request, vars, tables, Learn, AdvancedProposal, Start,
       StartApprove, StartReject, BeginCheckpoint, BeginRestore, Recheck,
       WriteStatus, LogTransition, RetagStrategies, ReadState, ReadIds,
       SaveState, SnapshotRows, StoreCheckpoint, DemoteActive, RestoreRow,
       SealRefuses, Crash

LEMMA StepAudit ==
    ASSUME TypeOK, RowsKept, EffectsLogged, AuditFirst, [Next]_vars
    PROVE  AuditFirst'
<1> SUFFICES ASSUME NEW l \in Proposals
             PROVE  /\ HasRecord(l)' => "PROMOTED" \in events'[l]
                    /\ \A i \in DOMAIN records'[l] : records'[l][i] \in events'[l]
  BY DEF AuditFirst
<1>0. events[l] \subseteq events'[l]
  BY EventsGrow
<1>1. HasRecord(l)' => "PROMOTED" \in events'[l]
  <2>1. CASE SameOrigins
    <3>1. HasRecord(l)' <=> HasRecord(l)
      BY <2>1 DEF SameOrigins, HasRecord, RowsOf
    <3> QED BY <1>0, <3>1 DEF AuditFirst
  <2>2. ASSUME NEW w \in Workers, Materialise(w)
        PROVE  HasRecord(l)' => "PROMOTED" \in events'[l]
    <3>1. CASE l = task[w].l
      BY <1>0, <2>2, <3>1 DEF EffectsLogged, Materialise, At
    <3>2. CASE l # task[w].l
      <4>1. records'[l] = records[l]
        BY <2>2, <3>2 DEF Materialise, TypeOK
      <4>2. ASSUME NEW s \in StrategyIds, strategies'[s] # NoRow,
                   strategies'[s].learning = l
            PROVE  strategies'[s] = strategies[s]
        BY <2>2, <3>2, <4>2 DEF Materialise, TypeOK
      <4>3. HasRecord(l)' => HasRecord(l)
        BY <4>1, <4>2 DEF HasRecord, RowsOf
      <4> QED BY <1>0, <4>3 DEF AuditFirst
    <3> QED BY <3>1, <3>2
  <2> QED BY <2>1, <2>2, OriginSteps
<1>2. \A i \in DOMAIN records'[l] : records'[l][i] \in events'[l]
  <2>1. CASE records'[l] = records[l]
    BY <1>0, <2>1 DEF AuditFirst
  <2>2. ASSUME NEW w \in Workers, Materialise(w), l = task[w].l
        PROVE  \A i \in DOMAIN records'[l] : records'[l][i] \in events'[l]
    <3>1. "PROMOTED" \in events'[l]
      BY <1>0, <2>2 DEF EffectsLogged, Materialise, At
    <3>2. records'[l] = records[l] \/ records'[l] = Append(records[l], "PROMOTED")
      BY <2>2 DEF Materialise, TypeOK
    <3>3. records[l] \in Seq(RecordStatuses)
      BY DEF TypeOK
    <3>4. \A q \in Seq(RecordStatuses) : \A x :
             \A i \in DOMAIN Append(q, x) :
                \/ i \in DOMAIN q /\ Append(q, x)[i] = q[i]
                \/ Append(q, x)[i] = x
      OBVIOUS
    <3> QED BY <1>0, <3>1, <3>2, <3>3, <3>4 DEF AuditFirst
  <2>3. ASSUME NEW w \in Workers, RetagRecords(w), l = task[w].l
        PROVE  \A i \in DOMAIN records'[l] : records'[l][i] \in events'[l]
    <3>1. task[w].target \in events'[l]
      BY <1>0, <2>3 DEF EffectsLogged, RetagRecords, At
    <3>2. records'[l] = [i \in DOMAIN records[l] |-> task[w].target]
      BY <2>3 DEF RetagRecords, TypeOK
    <3> QED BY <3>1, <3>2
  <2>4. ASSUME NEW w \in Workers, Materialise(w) \/ RetagRecords(w), l # task[w].l
        PROVE  records'[l] = records[l]
    BY <2>4 DEF Materialise, RetagRecords, TypeOK
  <2> QED BY <2>1, <2>2, <2>3, <2>4, RecordSteps
<1> QED BY <1>1, <1>2

(***************************************************************************)
(* No proposal has a behavioural record before its promotion is logged,    *)
(* and no memory or skill has a status that is not: the audit log is ahead *)
(* of the tables, wherever handlers stop or overtake each other            *)
(* (promote_learning, activate_learning, rollback_learning).               *)
(***************************************************************************)
THEOREM AuditComesFirst == Spec => []AuditFirst
<1>1. Init => TypeOK /\ RowsKept /\ EffectsLogged /\ AuditFirst
  <2>1. ASSUME Init PROVE EffectsLogged
    BY <2>1 DEF Init, EffectsLogged, Idle
  <2>2. ASSUME Init PROVE AuditFirst
    BY <2>2 DEF Init, AuditFirst, HasRecord, RowsOf
  <2> QED BY <2>1, <2>2, InitType, InitRows
<1>2. TypeOK /\ RowsKept /\ EffectsLogged /\ AuditFirst /\ [Next]_vars
         => (TypeOK /\ RowsKept /\ EffectsLogged /\ AuditFirst)'
  BY StepType, StepRows, StepEffects, StepAudit
<1> QED BY <1>1, <1>2, PTL DEF Spec

(***************************************************************************)
(* A proposal whose rejection or rollback is settled stays as it is.       *)
(***************************************************************************)
LEMMA FinalStatuses ==
    \A st \in {"REJECTED", "ROLLED_BACK"} : \A target : ~MayMove(st, target)
BY DEF MayMove, AllowedTransitions

LEMMA SettledStatus ==
    ASSUME TypeOK, [Next]_vars, NEW l \in Proposals, Settled(l)
    PROVE  proposals'[l].status = proposals[l].status
<1>1. ASSUME NEW w \in Workers, WriteStatus(w)
      PROVE  proposals'[l] = proposals[l]
  <2>1. task[w].l # l
    BY <1>1 DEF Settled, Late, WriteStatus, At
  <2> QED BY <1>1, <2>1 DEF WriteStatus, TypeOK
<1>2. ASSUME NEW w \in Workers, NEW x \in Proposals,
             Learn(w, x) \/ AdvancedProposal(w, x)
      PROVE  proposals'[l] = proposals[l]
  <2>1. x # l
    BY <1>2 DEF Settled, Learn, AdvancedProposal
  <2> QED BY <1>2, <2>1 DEF Learn, AdvancedProposal, TypeOK
<1> QED BY <1>1, <1>2, WhoMoves

LEMMA StaysSettled ==
    ASSUME TypeOK, [Next]_vars, NEW l \in Proposals, Settled(l)
    PROVE  Settled(l)'
<1>1. proposals'[l].status \in {"REJECTED", "ROLLED_BACK"}
  BY SettledStatus DEF Settled
<1>2. ASSUME NEW w \in Workers
      PROVE  ~Late(w, l)'
  <2>1. ~Late(w, l)
    BY DEF Settled
  <2>2. CASE task'[w] = task[w]
    BY <2>1, <2>2 DEF Late
  <2>3. CASE task'[w].pc \notin {"recheck", "write", "emit", "materialise"}
    BY <2>3 DEF Late
  <2>4. ASSUME NEW x \in Proposals,
               \/ Learn(w, x)
               \/ \E by \in Callers : StartApprove(w, x, by) \/ StartReject(w, x, by)
        PROVE  ~Late(w, l)'
    <3>1. \E target \in Targets : task'[w] = Move(target, x, "recheck")
      BY <2>4 DEF Learn, StartApprove, StartReject, Targets, TypeOK
    <3> QED BY <3>1 DEF Move, Late
  <2>5. ASSUME NEW x \in Proposals, NEW target \in Targets, Start(w, target, x)
        PROVE  ~Late(w, l)'
    <3>1. x # l
      BY <2>5, FinalStatuses DEF Start, Settled
    <3>2. task'[w] = Move(target, x, "write")
      BY <2>5 DEF Start, TypeOK
    <3> QED BY <3>1, <3>2 DEF Move, Late
  <2>6. CASE Recheck(w)
    <3>1. task[w] \in MoveTask
      BY <2>6, TaskShape DEF Recheck, At
    <3>2. CASE task[w].l = l
      <4>1. task'[w] = Idle
        BY <2>6, <3>2, FinalStatuses DEF Recheck, Settled, TypeOK
      <4> QED BY <4>1 DEF Late, Idle
    <3>3. CASE task[w].l # l
      <4>1. \/ task'[w] = Idle
            \/ task'[w] = [task[w] EXCEPT !.pc = "write",
                                          !.seen = proposals[task[w].l].status]
        BY <2>6 DEF Recheck, TypeOK
      <4>2. Idle.pc = "idle"
        BY DEF Idle
      <4>3. \A x : [task[w] EXCEPT !.pc = "write", !.seen = x].l = task[w].l
        BY <3>1 DEF MoveTask
      <4> QED BY <3>3, <4>1, <4>2, <4>3 DEF Late
    <3> QED BY <3>2, <3>3
  <2>7. CASE WriteStatus(w)
    <3>1. task[w] \in MoveTask /\ task[w].l # l
      BY <2>1, <2>7, TaskShape DEF WriteStatus, At, Late
    <3>2. task'[w] = [task[w] EXCEPT !.pc = "emit"]
      BY <2>7 DEF WriteStatus, Goto, TypeOK
    <3> QED BY <3>1, <3>2 DEF Late, MoveTask
  <2>8. CASE LogTransition(w)
    <3>1. task[w].l # l
      BY <2>1, <2>8 DEF LogTransition, At, Late
    <3>2. task'[w] = Effect(task[w].target, task[w].l)
      BY <2>8 DEF LogTransition, TypeOK
    <3> QED BY <3>1, <3>2 DEF Late, Effect, Idle
  <2> QED BY <2>2, <2>3, <2>4, <2>5, <2>6, <2>7, <2>8, HandlerSteps
<1> QED BY <1>1, <1>2 DEF Settled

LEMMA SettledRecords ==
    ASSUME TypeOK, RowsKept, [Next]_vars, NEW l \in Proposals, Settled(l)
    PROVE  /\ RowsOf(l)' \subseteq RowsOf(l)
           /\ DOMAIN records'[l] = DOMAIN records[l]
<1>0. ASSUME NEW w \in Workers, Materialise(w)
      PROVE  task[w].l # l
  BY <1>0 DEF Settled, Late, Materialise, At
<1>1. RowsOf(l)' \subseteq RowsOf(l)
  <2>1. CASE SameOrigins
    BY <2>1 DEF SameOrigins, RowsOf
  <2>2. ASSUME NEW w \in Workers, Materialise(w)
        PROVE  RowsOf(l)' \subseteq RowsOf(l)
    <3>1. ASSUME NEW s \in StrategyIds, strategies'[s] # NoRow,
                 strategies'[s].learning = l
          PROVE  strategies'[s] = strategies[s]
      BY <1>0, <2>2, <3>1 DEF Materialise, TypeOK
    <3> QED BY <3>1 DEF RowsOf
  <2> QED BY <2>1, <2>2, OriginSteps
<1>2. DOMAIN records'[l] = DOMAIN records[l]
  <2>1. ASSUME NEW w \in Workers, Materialise(w)
        PROVE  records'[l] = records[l]
    BY <1>0, <2>1 DEF Materialise, TypeOK
  <2>2. ASSUME NEW w \in Workers, RetagRecords(w)
        PROVE  DOMAIN records'[l] = DOMAIN records[l]
    <3>1. CASE l = task[w].l
      <4>1. records'[l] = [i \in DOMAIN records[l] |-> task[w].target]
        BY <2>2, <3>1 DEF RetagRecords, TypeOK
      <4> QED BY <4>1
    <3>2. CASE l # task[w].l
      BY <2>2, <3>2 DEF RetagRecords, TypeOK
    <3> QED BY <3>1, <3>2
  <2> QED BY <2>1, <2>2, RecordSteps
<1> QED BY <1>1, <1>2

(***************************************************************************)
(* A rejection and a rollback are final: once no handler that had passed   *)
(* its check before is left to write or to promote, the proposal keeps its *)
(* status, nobody passes the check again, and no record is added to it     *)
(* (reject_learning, rollback_learning, promote_learning).                 *)
(***************************************************************************)
THEOREM DecisionsAreFinal == Spec => DecisionsStand
<1>1. Init => TypeOK /\ RowsKept
  BY InitType, InitRows
<1>2. TypeOK /\ RowsKept /\ [Next]_vars => (TypeOK /\ RowsKept)'
  BY StepType, StepRows
<1>3. TypeOK /\ RowsKept /\ [Next]_vars
        => \A l \in Proposals : Settled(l) =>
              /\ Settled(l)' /\ UNCHANGED proposals[l].status
              /\ RowsOf(l)' \subseteq RowsOf(l)
              /\ DOMAIN records'[l] = DOMAIN records[l]
  BY SettledStatus, StaysSettled, SettledRecords
<1> QED BY <1>1, <1>2, <1>3, PTL DEF Spec, DecisionsStand
=============================================================================
