------------------------ MODULE ExperienceLoopProofs ------------------------
(***************************************************************************)
(* Proofs about ExperienceLoop, for any number of handlers that overlap    *)
(* and stop: its types, that approvals and evidence stay with what they    *)
(* were given for although rows are written back from stale copies, and    *)
(* that outcomes and references settle.  The last section is about         *)
(* handlers that do not overlap.                                           *)
(***************************************************************************)
EXTENDS ExperienceLoop, TLAPS

\* A handler's place tells the shape of its task record.
LEMMA TaskShape ==
  ASSUME TypeOK, NEW w \in Workers
  PROVE  /\ At(w, "observe") => task[w] \in ObserveTask
         /\ At(w, "verify_read") => task[w] \in ReadTask
         /\ At(w, "write") => task[w] \in WriteTask
         /\ At(w, "evaluate") => task[w] \in ScoreTask
         /\ At(w, "train") => task[w] \in TrainTask
         /\ At(w, "consolidate") => task[w] \in ConsolidateTask
         /\ At(w, "derive") => task[w] \in DeriveTask
         /\ At(w, "concept") => task[w] \in ConceptTask
         /\ At(w, "select") =>
               \E found \in SUBSET Experiences : task[w] \in SelectTask(found)
<1>1. task[w] \in Tasks
  BY DEF TypeOK
<1>2. \/ task[w] \in {Idle} \cup ObserveTask \cup ReadTask \cup WriteTask
                       \cup ScoreTask \cup TrainTask \cup ConsolidateTask
                       \cup DeriveTask \cup ConceptTask
      \/ \E found \in SUBSET Experiences : task[w] \in SelectTask(found)
  BY <1>1 DEF Tasks
<1> QED
  BY <1>2 DEF At, Idle, ObserveTask, ReadTask, WriteTask, ScoreTask,
              TrainTask, ConsolidateTask, DeriveTask, ConceptTask, SelectTask

\* Putting a well-typed task in the place of one leaves them all so.
LEMMA TaskType ==
  ASSUME TypeOK, NEW w \in Workers, NEW t \in Tasks,
         task' = [task EXCEPT ![w] = t]
  PROVE  task' \in [Workers -> Tasks]
  BY DEF TypeOK

\* A handler that ends, or stops, is idle and the others are where they were.
LEMMA FinishType ==
  ASSUME TypeOK, NEW w \in Workers, Finish(w)
  PROVE  task' \in [Workers -> Tasks]
  BY TaskType DEF Finish, Tasks

\* A row that exists is a Row, and its parts are what Row says.
LEMMA RowShape ==
  ASSUME TypeOK, NEW e \in Experiences, Exists(e)
  PROVE  /\ rows[e] \in Row
         /\ rows[e].status \in Statuses
         /\ rows[e].data \in Payload
         /\ ContentOf(rows[e].data) \in Content
<1>1. rows[e] \in Row
  BY DEF TypeOK, Exists
<1> QED
  BY <1>1 DEF Row, Payload, ContentOf, Content

\* What a handler is about to write back is a Row again.
LEMMA CopyShape ==
  ASSUME NEW row \in Row
  PROVE  /\ \A o \in Outcomes : [row.data EXCEPT !.outcome = o] \in Payload
         /\ \A v \in Verifications, s \in Statuses :
               [row.data EXCEPT !.refs = @ \cup {v}, !.state = s] \in Payload
         /\ \A c \in Content, a \in Approvals :
               [row.data EXCEPT !.state = "APPROVED_FOR_LEARNING",
                                !.learning = [approval |-> a, content |-> c]]
                  \in Payload
<1>1. row.data \in Payload
  BY DEF Row
<1>2. \A c \in Content, a \in Approvals :
         [approval |-> a, content |-> c] \in Approved
  BY DEF Approved
<1> QED
  BY <1>1, <1>2 DEF Payload, Statuses

\* What ReadVerified and ApproveForLearning will write are Rows.
LEMMA NewRows ==
  ASSUME NEW row \in Row
  PROVE  /\ \A v \in Verifications :
               verifications[v] \in Verification => VerifiedRow(row, v) \in Row
         /\ \A a \in Approvals : ApprovedRow(row, a) \in Row
<1>1. row.status \in Statuses /\ row.data \in Payload
  BY DEF Row
<1>2. ContentOf(row.data) \in Content
  BY <1>1 DEF Payload, ContentOf, Content
<1>3. ASSUME NEW v \in Verifications, verifications[v] \in Verification
      PROVE  VerifiedRow(row, v) \in Row
  <2>1. NewStatus(row, v) \in Statuses
    BY <1>1, <1>3 DEF NewStatus, Verification, Statuses
  <2> QED
    BY <2>1, CopyShape DEF VerifiedRow, Row
<1>4. ASSUME NEW a \in Approvals PROVE ApprovedRow(row, a) \in Row
  BY <1>2, CopyShape DEF ApprovedRow, Row, Statuses
<1> QED
  BY <1>3, <1>4

-----------------------------------------------------------------------------
LEMMA InitType == Init => TypeOK
<1> SUFFICES ASSUME Init PROVE TypeOK
  OBVIOUS
<1>1. task \in [Workers -> Tasks]
  BY DEF Init, Tasks
<1> QED
  BY <1>1 DEF Init, TypeOK

\* The task that derives a record.
LEMMA DeriveType ==
  ASSUME TypeOK, NEW w \in Workers, NEW es \in SUBSET Experiences,
         Derive(w, es)
  PROVE  TypeOK'
<1>1. [pc |-> "derive", from |-> es] \in Tasks
  BY DEF Tasks, DeriveTask
<1>2. task' \in [Workers -> Tasks]
  BY <1>1, TaskType DEF Derive, Start
<1> QED
  BY <1>2 DEF Derive, TypeOK, tables

\* What is still to be read of a concept, and what has been.
LEMMA CollectType ==
  ASSUME NEW left \in SUBSET Experiences, NEW from \in SUBSET Experiences
  PROVE  Collect(left, from) \in Tasks
  BY DEF Collect, Tasks, DeriveTask, ConceptTask

LEMMA RequestType ==
  ASSUME TypeOK, NEW w \in Workers, Request(w)
  PROVE  TypeOK'
<1>1. ASSUME NEW e \in Experiences, RecordExperience(w, e)
      PROVE  TypeOK'
  <2>1. rows'[e] \in Row /\ \A f \in Experiences : f # e => rows'[f] = rows[f]
    BY <1>1 DEF RecordExperience, TypeOK, Row, Payload, Statuses
  <2> QED
    BY <1>1, <2>1 DEF RecordExperience, TypeOK, tables
<1>2. ASSUME NEW e \in Experiences, NEW o \in Outcomes, Observe(w, e, o)
      PROVE  TypeOK'
  <2>1. [pc |-> "observe", e |-> e,
         data |-> [rows[e].data EXCEPT !.outcome = o]] \in ObserveTask
    BY <1>2, RowShape, CopyShape DEF Observe, ObserveTask
  <2>2. task' \in [Workers -> Tasks]
    BY <1>2, <2>1, TaskType DEF Observe, Start, Tasks
  <2> QED
    BY <1>2, <2>2 DEF Observe, TypeOK, tables
<1>3. ASSUME NEW e \in Experiences, NEW v \in Verifications,
             NEW status \in {"VERIFIED", "UNVERIFIED"},
             VerifyExperience(w, e, v, status)
      PROVE  TypeOK'
  <2>1. [pc |-> "verify_read", e |-> e, v |-> v] \in ReadTask
    BY DEF ReadTask
  <2>2. task' \in [Workers -> Tasks]
    BY <1>3, <2>1, TaskType DEF VerifyExperience, Start, Tasks
  <2>3. verifications' \in [Verifications -> {Unused} \cup Verification]
    BY <1>3 DEF VerifyExperience, TypeOK, Verification
  <2> QED
    BY <1>3, <2>2, <2>3 DEF VerifyExperience, TypeOK
<1>4. ASSUME NEW e \in Experiences, Evaluate(w, e)
      PROVE  TypeOK'
  <2>1. [pc |-> "evaluate", e |-> e, outcome |-> rows[e].data.outcome]
           \in ScoreTask
    BY <1>4, RowShape DEF Evaluate, ScoreTask, Payload
  <2>2. task' \in [Workers -> Tasks]
    BY <1>4, <2>1, TaskType DEF Evaluate, Start, Tasks
  <2> QED
    BY <1>4, <2>2 DEF Evaluate, TypeOK, tables
<1>5. ASSUME NEW e \in Experiences, NEW a \in Approvals,
             ApproveForLearning(w, e, a)
      PROVE  TypeOK'
  <2>1. [pc |-> "write", e |-> e, row |-> ApprovedRow(rows[e], a)]
           \in WriteTask
    BY <1>5, RowShape, NewRows DEF ApproveForLearning, WriteTask
  <2>2. task' \in [Workers -> Tasks]
    BY <1>5, <2>1, TaskType DEF ApproveForLearning, Start, Tasks
  <2> QED
    BY <1>5, <2>2 DEF ApproveForLearning, TypeOK, tables
<1>6. ASSUME BeginDataset(w)
      PROVE  TypeOK'
  <2> DEFINE found == WithStatus({"APPROVED_FOR_LEARNING"})
  <2>1. \A e \in found : rows[e].data \in Payload
    BY RowShape DEF Exists, NoRow, WithStatus
  <2>2. [pc |-> "select", left |-> found, kept |-> {},
         read |-> [e \in found |-> rows[e].data]] \in SelectTask(found)
    BY <2>1 DEF SelectTask
  <2>a. found \in SUBSET Experiences
    BY DEF WithStatus
  <2>3. task' \in [Workers -> Tasks]
    BY <1>6, <2>2, <2>a, TaskType DEF BeginDataset, Start, Tasks
  <2> QED
    BY <1>6, <2>3 DEF BeginDataset, TypeOK, tables
<1>7. ASSUME NEW d \in datasets, Train(w, d)
      PROVE  TypeOK'
  <2>1. d.train \in SUBSET Experiences
    BY DEF TypeOK, Dataset
  <2>2. [pc |-> "train", members |-> d.train, seen |-> {}] \in TrainTask
    BY <2>1 DEF TrainTask
  <2>3. task' \in [Workers -> Tasks]
    BY <1>7, <2>2, TaskType DEF Train, Start, Tasks
  <2> QED
    BY <1>7, <2>3 DEF Train, TypeOK, tables
<1>8. ASSUME NEW e \in Experiences, NEW x \in evaluations,
             AssignCredit(w, e, x)
      PROVE  TypeOK'
  <2>1. {x.experience} \in SUBSET Experiences
    BY DEF TypeOK
  <2> QED
    BY <1>8, <2>1, DeriveType DEF AssignCredit
<1>9. CASE Calibrate(w)
  <2>1. {x.experience : x \in evaluations} \in SUBSET Experiences
    BY DEF TypeOK
  <2> QED
    BY <1>9, <2>1, DeriveType DEF Calibrate
<1>10. CASE Replay(w)
  <2>1. PICK chosen \in SUBSET WithStatus(Settled) : Derive(w, chosen)
    BY <1>10 DEF Replay
  <2> QED
    BY <2>1, DeriveType DEF WithStatus
<1>11. CASE Consolidate(w)
  <2>1. Support \subseteq {e \in Experiences : Exists(e)}
    BY DEF Support, SharingGoal, WithOutcome, WithStatus, Exists, NoRow
  <2>2. {<<e, rows[e].data.outcome>> : e \in Support} \in SUBSET Pairs
    BY <2>1, RowShape DEF Pairs, Payload
  <2>3. [pc |-> "consolidate",
         seen |-> {<<e, rows[e].data.outcome>> : e \in Support}]
           \in ConsolidateTask
    BY <2>2 DEF ConsolidateTask
  <2>4. task' \in [Workers -> Tasks]
    BY <1>11, <2>3, TaskType DEF Consolidate, Start, Tasks
  <2> QED
    BY <1>11, <2>4 DEF Consolidate, TypeOK, tables
<1>12. ASSUME NEW es \in SUBSET Experiences, FormConcept(w, es)
       PROVE  TypeOK'
  <2>1. PICK e \in es : Start(w, Collect(es \ {e}, {e}))
    BY <1>12 DEF FormConcept
  <2>2. task' \in [Workers -> Tasks]
    BY <2>1, CollectType, TaskType DEF Start
  <2> QED
    BY <1>12, <2>2 DEF FormConcept, TypeOK, tables
<1> QED
  BY <1>1, <1>2, <1>3, <1>4, <1>5, <1>6, <1>7, <1>8, <1>9, <1>10, <1>11,
     <1>12 DEF Request

LEMMA StepType ==
  ASSUME TypeOK, NEW w \in Workers, Step(w), SoundTask(w)
  PROVE  TypeOK'
<1>1. CASE WriteObserved(w)
  <2>1. task[w] \in ObserveTask /\ Exists(task[w].e)
    BY <1>1, TaskShape DEF WriteObserved, SoundTask
  <2>2. task' \in [Workers -> Tasks]
    BY <1>1, FinishType DEF WriteObserved
  <2>3. rows[task[w].e] \in Row /\ task[w].data \in Payload
    BY <2>1, RowShape DEF ObserveTask
  <2>4. [rows[task[w].e] EXCEPT !.data = task[w].data] \in Row
    BY <2>3 DEF Row
  <2>5. rows' \in [Experiences -> {NoRow} \cup Row]
    BY <1>1, <2>1, <2>4 DEF WriteObserved, TypeOK
  <2> QED
    BY <1>1, <2>2, <2>5 DEF WriteObserved, TypeOK, tables
<1>2. CASE ReadVerified(w)
  <2>1. task[w] \in ReadTask /\ Known(task[w].v)
    BY <1>2, TaskShape DEF ReadVerified, SoundTask
  <2>2. task[w].e \in Experiences /\ verifications[task[w].v] \in Verification
    BY <2>1 DEF ReadTask, TypeOK, Known
  <2>3. ASSUME Exists(task[w].e)
        PROVE  [pc |-> "write", e |-> task[w].e,
                row |-> VerifiedRow(rows[task[w].e], task[w].v)] \in WriteTask
    BY <2>1, <2>2, <2>3, RowShape, NewRows DEF WriteTask, ReadTask
  <2>4. task' \in [Workers -> Tasks]
    BY <1>2, <2>3, TaskType, FinishType DEF ReadVerified, Tasks
  <2> QED
    BY <1>2, <2>4 DEF ReadVerified, TypeOK, tables
<1>3. CASE WriteRow(w)
  <2>1. task[w] \in WriteTask
    BY <1>3, TaskShape DEF WriteRow
  <2>2. task' \in [Workers -> Tasks]
    BY <1>3, FinishType DEF WriteRow
  <2> QED
    BY <1>3, <2>1, <2>2 DEF WriteRow, WriteTask, TypeOK, tables
<1>4. CASE StoreEvaluation(w)
  <2>1. task[w] \in ScoreTask
    BY <1>4, TaskShape DEF StoreEvaluation
  <2>2. task' \in [Workers -> Tasks]
    BY <1>4, FinishType DEF StoreEvaluation
  <2> QED
    BY <1>4, <2>1, <2>2 DEF StoreEvaluation, ScoreTask, TypeOK
<1>5. CASE SelectMember(w)
  <2>1. PICK found \in SUBSET Experiences : task[w] \in SelectTask(found)
    BY <1>5, TaskShape DEF SelectMember
  <2>2. PICK e \in task[w].left :
           task' = [task EXCEPT ![w] =
                      [task[w] EXCEPT !.left = task[w].left \ {e},
                                      !.kept = IF Eligible(w, e)
                                               THEN task[w].kept \cup {e}
                                               ELSE task[w].kept]]
    BY <1>5 DEF SelectMember, TypeOK
  <2>3. task'[w] \in SelectTask(found)
    BY <2>1, <2>2 DEF SelectTask, TypeOK
  <2>4. task' \in [Workers -> Tasks]
    BY <2>2, <2>3 DEF Tasks, TypeOK
  <2> QED
    BY <1>5, <2>4 DEF SelectMember, TypeOK, tables
<1>6. CASE StoreDataset(w)
  <2>1. PICK found \in SUBSET Experiences : task[w] \in SelectTask(found)
    BY <1>6, TaskShape DEF StoreDataset
  <2>2. task' \in [Workers -> Tasks]
    BY <1>6, FinishType DEF StoreDataset
  <2>3. ASSUME NEW train \in SUBSET task[w].kept
        PROVE  [train |-> train,
                approval |-> [e \in task[w].kept |->
                                task[w].read[e].learning.approval]]
                  \in Dataset(task[w].kept)
    <3>1. \A e \in task[w].kept : task[w].read[e].learning \in Approved
      BY <1>6, <2>1 DEF StoreDataset, SoundTask, SelectTask, Payload
    <3> QED
      BY <3>1 DEF Dataset, Approved
  <2>4. task[w].kept \in SUBSET Experiences
    BY <2>1 DEF SelectTask
  <2>5. \A d \in datasets' : \E source \in SUBSET Experiences :
           d \in Dataset(source)
    BY <1>6, <2>3, <2>4 DEF StoreDataset, TypeOK
  <2> QED
    BY <1>6, <2>2, <2>5 DEF StoreDataset, TypeOK
<1>7. CASE LearnFrom(w)
  <2>1. task[w] \in TrainTask
    BY <1>7, TaskShape DEF LearnFrom
  <2>2. PICK e \in task[w].members :
           task' = [task EXCEPT ![w] =
                      [task[w] EXCEPT !.seen = task[w].seen \cup
                                        {<<e, rows[e].data.outcome>>}]]
    BY <1>7 DEF LearnFrom, TypeOK
  <2>3. e \in Experiences /\ Exists(e)
    BY <1>7, <2>1, <2>2 DEF LearnFrom, SoundTask, TrainTask
  <2>4. <<e, rows[e].data.outcome>> \in Pairs
    BY <2>3, RowShape DEF Payload, Pairs
  <2>5. [task[w] EXCEPT !.seen = task[w].seen \cup {<<e, rows[e].data.outcome>>}]
           \in TrainTask
    BY <2>1, <2>3, <2>4 DEF TrainTask
  <2>6. task' \in [Workers -> Tasks]
    BY <2>2, <2>5, TaskType DEF Tasks
  <2> QED
    BY <1>7, <2>6 DEF LearnFrom, TypeOK, tables
<1>8. CASE StoreParameters(w)
  <2>1. task[w] \in TrainTask
    BY <1>8, TaskShape DEF StoreParameters
  <2>2. task' \in [Workers -> Tasks]
    BY <1>8, FinishType DEF StoreParameters
  <2> QED
    BY <1>8, <2>1, <2>2 DEF StoreParameters, TrainTask, TypeOK
<1>9. CASE StoreConsolidation(w)
  <2>1. task[w] \in ConsolidateTask
    BY <1>9, TaskShape DEF StoreConsolidation
  <2>2. task' \in [Workers -> Tasks]
    BY <1>9, FinishType DEF StoreConsolidation
  <2> QED
    BY <1>9, <2>1, <2>2 DEF StoreConsolidation, ConsolidateTask, TypeOK
<1>10. CASE ReadSupport(w)
  <2>1. task[w] \in ConceptTask
    BY <1>10, TaskShape DEF ReadSupport
  <2>2. ASSUME NEW e \in task[w].left
        PROVE  Collect(task[w].left \ {e}, task[w].from \cup {e}) \in Tasks
    BY <2>1, CollectType DEF ConceptTask
  <2>3. task' \in [Workers -> Tasks]
    BY <1>10, <2>2, TaskType, FinishType DEF ReadSupport
  <2> QED
    BY <1>10, <2>3 DEF ReadSupport, TypeOK, tables
<1>11. CASE StoreDerived(w)
  <2>1. task[w] \in DeriveTask
    BY <1>11, TaskShape DEF StoreDerived
  <2>2. task' \in [Workers -> Tasks]
    BY <1>11, FinishType DEF StoreDerived
  <2> QED
    BY <1>11, <2>1, <2>2 DEF StoreDerived, DeriveTask, TypeOK
<1> QED
  BY <1>1, <1>2, <1>3, <1>4, <1>5, <1>6, <1>7, <1>8, <1>9, <1>10, <1>11
  DEF Step

LEMMA NextType ==
  ASSUME TypeOK, ExperienceInv, [Next]_vars
  PROVE  TypeOK'
<1>1. ASSUME NEW a \in Approvals, NEW e \in Experiences, Sign(a, e)
      PROVE  TypeOK'
  <2>1. approvals' \in [Approvals -> {Unsigned} \cup Approval]
    BY <1>1, RowShape DEF Sign, TypeOK, Approval
  <2> QED
    BY <1>1, <2>1 DEF Sign, TypeOK
<1>2. ASSUME NEW a \in Approvals, Withdraw(a)
      PROVE  TypeOK'
  <2>1. approvals[a] \in Approval
    BY <1>2 DEF Withdraw, IsSigned, TypeOK
  <2>2. approvals' \in [Approvals -> {Unsigned} \cup Approval]
    BY <1>2, <2>1 DEF Withdraw, TypeOK, Approval
  <2> QED
    BY <1>2, <2>2 DEF Withdraw, TypeOK
<1>3. CASE Crash
  <2>1. task' \in [Workers -> Tasks]
    BY <1>3, FinishType DEF Crash
  <2> QED
    BY <1>3, <2>1 DEF Crash, TypeOK, tables
<1>4. CASE UNCHANGED vars
  BY <1>4 DEF vars, tables, TypeOK
<1>5. ASSUME NEW w \in Workers, Request(w) \/ Step(w)
      PROVE  TypeOK'
  BY <1>5, RequestType, StepType DEF ExperienceInv
<1> QED
  BY <1>1, <1>2, <1>3, <1>4, <1>5 DEF Next, Founder

-----------------------------------------------------------------------------
(***************************************************************************)
(* The invariant.  Facts about verifications and approvals only grow, and  *)
(* a row never goes away, so what is known of copies and of other rows     *)
(* stays true whatever a step does.                                        *)
(***************************************************************************)
Grows == /\ \A e \in Experiences : Exists(e) => Exists(e)'
         /\ \A v \in Verifications : Known(v) =>
               verifications'[v] = verifications[v]
         /\ \A a \in Approvals : IsSigned(a) =>
               /\ IsSigned(a)'
               /\ approvals'[a].experience = approvals[a].experience
               /\ approvals'[a].content = approvals[a].content

\* Every step lets them grow.
LEMMA StepsGrow ==
  ASSUME TypeOK, [Next]_vars
  PROVE  Grows
<1>1. CASE UNCHANGED <<rows, verifications, approvals>>
  BY <1>1 DEF Grows, Exists, Known, IsSigned
<1>2. ASSUME NEW a \in Approvals, Withdraw(a)
      PROVE  Grows
  <2>1. approvals[a] \in Approval
    BY <1>2 DEF Withdraw, IsSigned, TypeOK
  <2> QED
    BY <1>2, <2>1 DEF Withdraw, Grows, Exists, Known, IsSigned, Approval,
                      Unsigned, TypeOK
<1>3. ASSUME NEW a \in Approvals, NEW e \in Experiences, Sign(a, e)
      PROVE  Grows
  BY <1>3 DEF Sign, Grows, Exists, Known, IsSigned, TypeOK
<1>4. ASSUME NEW w \in Workers, NEW e \in Experiences, RecordExperience(w, e)
      PROVE  Grows
  BY <1>4 DEF RecordExperience, Grows, Exists, Known, IsSigned, TypeOK, tables
<1>5. ASSUME NEW w \in Workers, NEW e \in Experiences, NEW v \in Verifications,
             NEW status \in {"VERIFIED", "UNVERIFIED"},
             VerifyExperience(w, e, v, status)
      PROVE  Grows
  BY <1>5 DEF VerifyExperience, Grows, Exists, Known, IsSigned, TypeOK
<1>6. ASSUME NEW w \in Workers, WriteObserved(w)
      PROVE  Grows
  <2>1. task[w] \in ObserveTask
    BY <1>6, TaskShape DEF WriteObserved
  <2>2. \A e \in Experiences : Exists(e) => rows'[e].status = rows[e].status
    BY <1>6, <2>1, RowShape DEF WriteObserved, ObserveTask, TypeOK, Row
  <2>3. \A e \in Experiences : Exists(e) => Exists(e)'
    BY <2>2, RowShape DEF Exists, NoRow, Statuses
  <2> QED
    BY <1>6, <2>3 DEF WriteObserved, Grows, Known, IsSigned, tables
<1>7. ASSUME NEW w \in Workers, WriteRow(w)
      PROVE  Grows
  <2>1. task[w] \in WriteTask
    BY <1>7, TaskShape DEF WriteRow
  <2>2. task[w].row # NoRow
    BY <2>1 DEF WriteTask, Row, Statuses, NoRow
  <2> QED
    BY <1>7, <2>2 DEF WriteRow, Grows, Exists, Known, IsSigned, tables, TypeOK
<1> QED
  BY <1>1, <1>2, <1>3, <1>4, <1>5, <1>6, <1>7, ZenonT(60)
  DEF Next, Founder, Request, Step, Observe, Evaluate, ApproveForLearning,
      BeginDataset, Train, ReadVerified, StoreEvaluation, SelectMember,
      StoreDataset, LearnFrom, StoreParameters, AssignCredit, Calibrate,
      Replay, Derive, Consolidate, StoreConsolidation, FormConcept,
      ReadSupport, StoreDerived, Crash, vars, tables

\* So what is sound stays sound.
LEMMA SoundStays ==
  ASSUME TypeOK, Grows, NEW e \in Experiences
  PROVE  /\ Proven(e) => Proven(e)'
         /\ \A data \in Payload : AsSigned(e, data) => AsSigned(e, data)'
         /\ \A data \in Payload : OwnEvidence(e, data) => OwnEvidence(e, data)'
         /\ \A row \in Row : Sound(e, row) => Sound(e, row)'
<1>1. Proven(e) => Proven(e)'
  BY DEF Proven, Grows, Known, Unused
<1>2. ASSUME NEW data \in Payload, AsSigned(e, data)
      PROVE  AsSigned(e, data)'
  <2>1. data.learning # Unapproved => data.learning.approval \in Approvals
    BY DEF Payload, Approved
  <2> QED
    BY <1>2, <2>1 DEF AsSigned, Grows
<1>3. ASSUME NEW data \in Payload, OwnEvidence(e, data)
      PROVE  OwnEvidence(e, data)'
  <2>1. data.refs \subseteq Verifications
    BY DEF Payload
  <2> QED
    BY <1>3, <2>1 DEF OwnEvidence, Grows, Known
<1>4. ASSUME NEW row \in Row, Sound(e, row)
      PROVE  Sound(e, row)'
  <2>1. row.data \in Payload
    BY DEF Row
  <2> QED
    BY <1>1, <1>2, <1>3, <1>4, <2>1 DEF Sound
<1> QED
  BY <1>1, <1>2, <1>3, <1>4

\* Handlers that a step leaves alone keep sound tasks.
LEMMA OthersSound ==
  ASSUME TypeOK, ExperienceInv, Grows, NEW v \in Workers, task'[v] = task[v]
  PROVE  SoundTask(v)'
<1>1. SoundTask(v) /\ task[v] \in Tasks
  BY DEF ExperienceInv, TypeOK
<1>2. ASSUME At(v, "observe")
      PROVE  /\ Exists(task[v].e)'
             /\ task[v].data.learning = Unapproved
             /\ OwnEvidence(task[v].e, task[v].data)'
  <2>1. task[v].e \in Experiences /\ task[v].data \in Payload
    BY <1>2, TaskShape DEF ObserveTask
  <2> QED
    BY <1>1, <1>2, <2>1, SoundStays DEF SoundTask, Grows
<1>3. ASSUME At(v, "verify_read")
      PROVE  /\ Known(task[v].v)'
             /\ verifications'[task[v].v].experience = task[v].e
  <2>1. task[v].v \in Verifications
    BY <1>3, TaskShape DEF ReadTask
  <2> QED
    BY <1>1, <1>3, <2>1 DEF SoundTask, Grows, Known
<1>4. ASSUME At(v, "write")
      PROVE  Sound(task[v].e, task[v].row)'
  <2>1. task[v].e \in Experiences /\ task[v].row \in Row
    BY <1>4, TaskShape DEF WriteTask
  <2>2. Sound(task[v].e, task[v].row)
    BY <1>1, <1>4 DEF SoundTask
  <2> QED
    BY <2>1, <2>2, SoundStays
<1>5. ASSUME At(v, "select")
      PROVE  /\ \A e \in DOMAIN task[v].read :
                   Exists(e)' /\ Proven(e)' /\ AsSigned(e, task[v].read[e])'
             /\ \A e \in task[v].kept :
                   e \notin Private /\ task[v].read[e].learning # Unapproved
  <2>1. /\ DOMAIN task[v].read \subseteq Experiences
        /\ \A e \in DOMAIN task[v].read : task[v].read[e] \in Payload
    BY <1>5, TaskShape DEF SelectTask
  <2> QED
    BY <1>1, <1>5, <2>1, SoundStays DEF SoundTask, Grows
<1>6. ASSUME At(v, "train")
      PROVE  \A e \in task[v].members : Exists(e)'
  <2>1. task[v].members \subseteq Experiences
    BY <1>6, TaskShape DEF TrainTask
  <2> QED
    BY <1>1, <1>6, <2>1 DEF SoundTask, Grows
<1>7. ASSUME At(v, "evaluate")
      PROVE  Proven(task[v].e)'
  <2>1. PICK e \in Experiences : e = task[v].e
    BY <1>7, TaskShape DEF ScoreTask
  <2>2. Proven(e)'
    BY <1>1, <1>7, <2>1, SoundStays DEF SoundTask
  <2> QED
    BY <2>1, <2>2 DEF Proven
<1>8. ASSUME At(v, "derive") \/ At(v, "concept")
      PROVE  \A e \in task[v].from : Proven(e)'
  <2>1. task[v].from \subseteq Experiences
    BY <1>8, TaskShape DEF DeriveTask, ConceptTask
  <2> QED
    BY <1>1, <1>8, <2>1, SoundStays DEF SoundTask
<1> QED
  BY <1>2, <1>3, <1>4, <1>5, <1>6, <1>7, <1>8 DEF SoundTask, At, Proven

\* A handler that ends has nothing left to be sound about.
LEMMA EndsSound ==
  ASSUME TypeOK, ExperienceInv, Grows, NEW w \in Workers, Finish(w)
  PROVE  \A v \in Workers : SoundTask(v)'
<1>1. task'[w] = Idle /\ \A v \in Workers : v # w => task'[v] = task[v]
  BY DEF Finish, TypeOK
<1>2. SoundTask(w)'
  BY <1>1 DEF SoundTask, At, Idle
<1> QED
  BY <1>1, <1>2, OthersSound

\* A row that is written is sound if what is written is.
LEMMA WrittenSound ==
  ASSUME TypeOK, Grows, NEW e \in Experiences, NEW row \in Row, Sound(e, row),
         rows'[e] = row
  PROVE  Sound(e, rows[e])'
<1>1. Sound(e, row)'
  BY SoundStays
<1> QED
  BY <1>1 DEF Sound, AsSigned, OwnEvidence

\* Rows that a step leaves alone are still sound, and so are datasets.
LEMMA RowsSound ==
  ASSUME TypeOK, ExperienceInv, Grows, NEW e \in Experiences,
         rows'[e] = rows[e], Exists(e)'
  PROVE  Sound(e, rows[e])'
<1>1. rows[e] \in Row /\ Sound(e, rows[e])
  BY RowShape DEF ExperienceInv, Exists
<1> QED
  BY <1>1, WrittenSound

LEMMA DatasetsStay ==
  ASSUME TypeOK, ExperienceInv, Grows, NEW d \in datasets,
         NEW e \in DOMAIN d.approval
  PROVE  /\ Exists(e)' /\ e \notin Private /\ Proven(e)'
         /\ IsSigned(d.approval[e])'
         /\ approvals'[d.approval[e]].experience = e
<1>1. e \in Experiences /\ d.approval[e] \in Approvals
  BY DEF TypeOK, Dataset
<1> QED
  BY <1>1, SoundStays DEF ExperienceInv, DatasetsSigned, Grows

LEMMA DatasetsSound ==
  ASSUME TypeOK, ExperienceInv, Grows, UNCHANGED datasets
  PROVE  DatasetsSigned'
  BY DatasetsStay DEF DatasetsSigned

\* A row that counts as verified has its verification.
LEMMA SettledProven ==
  ASSUME ExperienceInv, NEW e \in Experiences, rows[e].status \in Settled
  PROVE  Proven(e)
<1>1. Exists(e)
  BY DEF Exists, NoRow, Settled
<1> QED
  BY <1>1 DEF ExperienceInv, Sound

\* A request that only reads hands its handler a sound task.
LEMMA RequestSound ==
  ASSUME TypeOK, ExperienceInv, DerivedIsProven, Grows, NEW w \in Workers,
         Request(w)
  PROVE  ExperienceInv'
<1>1. ASSUME NEW e \in Experiences, RecordExperience(w, e)
      PROVE  ExperienceInv'
  <2>1. Sound(e, rows[e])'
    BY <1>1 DEF RecordExperience, Sound, AsSigned, OwnEvidence, Settled, TypeOK
  <2>2. \A f \in Experiences : f # e /\ Exists(f)' => Sound(f, rows[f])'
    BY <1>1, RowsSound DEF RecordExperience, TypeOK
  <2>3. \A v \in Workers : SoundTask(v)'
    BY <1>1, OthersSound DEF RecordExperience
  <2>4. DatasetsSigned'
    BY <1>1, DatasetsSound DEF RecordExperience, tables
  <2> QED
    BY <2>1, <2>2, <2>3, <2>4 DEF ExperienceInv
<1>2. ASSUME UNCHANGED <<rows, datasets>>, SoundTask(w)',
             \A v \in Workers : v # w => task'[v] = task[v]
      PROVE  ExperienceInv'
  <2>1. \A v \in Workers : SoundTask(v)'
    BY <1>2, OthersSound
  <2>2. \A e \in Experiences : Exists(e)' => Sound(e, rows[e])'
    BY <1>2, RowsSound
  <2> QED
    BY <1>2, <2>1, <2>2, DatasetsSound DEF ExperienceInv
<1>3. ASSUME NEW e \in Experiences, NEW o \in Outcomes, Observe(w, e, o)
      PROVE  ExperienceInv'
  <2>1. Sound(e, rows[e]) /\ rows[e] \in Row /\ rows[e].status \notin Settled
    BY <1>3, RowShape DEF Observe, ExperienceInv
  <2>2. /\ rows[e].data.learning = Unapproved
        /\ OwnEvidence(e, [rows[e].data EXCEPT !.outcome = o])
    BY <2>1 DEF Sound, Settled, OwnEvidence, Row, Payload
  <2>3. /\ task'[w] = [pc |-> "observe", e |-> e,
                       data |-> [rows[e].data EXCEPT !.outcome = o]]
        /\ \A v \in Workers : v # w => task'[v] = task[v]
        /\ UNCHANGED <<rows, tables>>
    BY <1>3 DEF Observe, Start, TypeOK
  <2>4. SoundTask(w)'
    BY <1>3, <2>1, <2>2, <2>3
    DEF Observe, SoundTask, At, OwnEvidence, Known, Exists, tables, Row, Payload
  <2> QED
    BY <1>2, <2>3, <2>4 DEF tables
<1>4. ASSUME NEW e \in Experiences, NEW x \in Verifications,
             NEW status \in {"VERIFIED", "UNVERIFIED"},
             VerifyExperience(w, e, x, status)
      PROVE  ExperienceInv'
  <2>1. /\ task'[w] = [pc |-> "verify_read", e |-> e, v |-> x]
        /\ \A v \in Workers : v # w => task'[v] = task[v]
        /\ verifications'[x] = [status |-> status, experience |-> e]
        /\ UNCHANGED <<rows, datasets>>
    BY <1>4 DEF VerifyExperience, Start, TypeOK
  <2>2. SoundTask(w)'
    BY <2>1 DEF SoundTask, At, Known, Unused
  <2> QED
    BY <1>2, <2>1, <2>2
<1>5. ASSUME NEW e \in Experiences, Evaluate(w, e)
      PROVE  ExperienceInv'
  <2>1. /\ task'[w].pc = "evaluate" /\ task'[w].e = e
        /\ \A v \in Workers : v # w => task'[v] = task[v]
        /\ UNCHANGED <<rows, tables>>
    BY <1>5 DEF Evaluate, Start, TypeOK
  <2>2. Proven(e)
    BY <1>5, SettledProven DEF Evaluate, Settled
  <2>3. SoundTask(w)'
    BY <2>1, <2>2 DEF SoundTask, At, Proven, tables
  <2> QED
    BY <1>2, <2>1, <2>3 DEF tables
<1>6. ASSUME NEW e \in Experiences, NEW a \in Approvals,
             ApproveForLearning(w, e, a)
      PROVE  ExperienceInv'
  <2>1. /\ task'[w] = [pc |-> "write", e |-> e, row |-> ApprovedRow(rows[e], a)]
        /\ \A v \in Workers : v # w => task'[v] = task[v]
        /\ UNCHANGED <<rows, tables>>
    BY <1>6 DEF ApproveForLearning, Start, TypeOK
  <2>2. Sound(e, ApprovedRow(rows[e], a))
    <3>1. Sound(e, rows[e]) /\ rows[e] \in Row /\ rows[e].status \in Settled
      BY <1>6, RowShape DEF ApproveForLearning, ExperienceInv, Settled
    <3>2. /\ ApprovedRow(rows[e], a).status = "APPROVED_FOR_LEARNING"
          /\ ApprovedRow(rows[e], a).data.learning =
                [approval |-> a, content |-> ContentOf(rows[e].data)]
          /\ ApprovedRow(rows[e], a).data.refs = rows[e].data.refs
          /\ ApprovedRow(rows[e], a).data.outcome = rows[e].data.outcome
      BY <3>1 DEF ApprovedRow, Row, Payload
    <3>3. /\ IsSigned(a) /\ approvals[a].experience = e
          /\ approvals[a].content = ContentOf(rows[e].data)
      BY <1>6 DEF ApproveForLearning, Verify
    <3>4. ContentOf(rows[e].data).outcome = rows[e].data.outcome
      BY DEF ContentOf
    <3> HIDE DEF ApprovedRow, ContentOf
    <3>5. AsSigned(e, ApprovedRow(rows[e], a).data)
      BY <3>2, <3>3, <3>4 DEF AsSigned
    <3>6. OwnEvidence(e, ApprovedRow(rows[e], a).data)
      BY <3>1, <3>2 DEF Sound, OwnEvidence
    <3> QED
      BY <3>1, <3>2, <3>5, <3>6 DEF Sound
  <2>3. Sound(e, ApprovedRow(rows[e], a))'
    BY <2>1, <2>2 DEF Sound, AsSigned, OwnEvidence, Proven, Known, IsSigned,
                      tables, ApprovedRow, ContentOf
  <2>4. SoundTask(w)'
    BY <2>1, <2>3 DEF SoundTask, At
  <2> QED
    BY <1>2, <2>1, <2>4 DEF tables
<1>7. ASSUME BeginDataset(w)
      PROVE  ExperienceInv'
  <2> DEFINE found == WithStatus({"APPROVED_FOR_LEARNING"})
  <2>1. /\ task'[w] = [pc |-> "select", left |-> found, kept |-> {},
                       read |-> [e \in found |-> rows[e].data]]
        /\ \A v \in Workers : v # w => task'[v] = task[v]
        /\ UNCHANGED <<rows, tables>>
    BY <1>7 DEF BeginDataset, Start, TypeOK
  <2>2. \A e \in found : Exists(e) /\ Proven(e) /\ AsSigned(e, rows[e].data)
    <3>1. \A e \in found : Exists(e) /\ Sound(e, rows[e])
      BY DEF Exists, NoRow, ExperienceInv, WithStatus
    <3> QED
      BY <3>1 DEF Sound, Settled, WithStatus
  <2>3. \A e \in found : Exists(e)' /\ Proven(e)' /\ AsSigned(e, rows[e].data)'
    BY <2>1, <2>2 DEF Exists, Proven, AsSigned, IsSigned, tables
  <2>4. SoundTask(w)'
    <3> HIDE DEF found
    <3>1. /\ task'[w].pc = "select" /\ task'[w].kept = {}
          /\ DOMAIN task'[w].read = found
          /\ \A e \in found : task'[w].read[e] = rows'[e].data
      BY <2>1
    <3>2. \A e \in DOMAIN task'[w].read :
             Exists(e)' /\ Proven(e)' /\ AsSigned(e, task[w].read[e])'
      BY <2>3, <3>1 DEF AsSigned
    <3> QED
      BY <3>1, <3>2 DEF SoundTask, At
  <2> QED
    BY <1>2, <2>1, <2>4 DEF tables
<1>8. ASSUME NEW d \in datasets, Train(w, d)
      PROVE  ExperienceInv'
  <2>1. /\ task'[w] = [pc |-> "train", members |-> d.train, seen |-> {}]
        /\ \A v \in Workers : v # w => task'[v] = task[v]
        /\ UNCHANGED <<rows, tables>>
    BY <1>8 DEF Train, Start, TypeOK
  <2>2. \A e \in d.train : Exists(e)'
    BY DatasetsStay DEF TypeOK, Dataset
  <2>3. SoundTask(w)'
    BY <2>1, <2>2 DEF SoundTask, At
  <2> QED
    BY <1>2, <2>1, <2>3 DEF tables
<1>9. ASSUME NEW es, \A e \in es : Proven(e), Derive(w, es)
      PROVE  ExperienceInv'
  <2>1. /\ task'[w] = [pc |-> "derive", from |-> es]
        /\ \A v \in Workers : v # w => task'[v] = task[v]
        /\ UNCHANGED <<rows, tables>>
    BY <1>9 DEF Derive, Start, TypeOK
  <2>2. SoundTask(w)'
    BY <1>9, <2>1 DEF SoundTask, At, Proven, tables
  <2> QED
    BY <1>2, <2>1, <2>2 DEF tables
<1>10. ASSUME NEW e \in Experiences, NEW x \in evaluations,
              AssignCredit(w, e, x)
       PROVE  ExperienceInv'
  BY <1>9, <1>10 DEF AssignCredit, DerivedIsProven
<1>11. CASE Calibrate(w)
  BY <1>9, <1>11 DEF Calibrate, DerivedIsProven
<1>12. CASE Replay(w)
  <2>1. PICK chosen \in SUBSET WithStatus(Settled) : Derive(w, chosen)
    BY <1>12 DEF Replay
  <2>2. \A e \in chosen : Proven(e)
    BY <2>1, SettledProven DEF WithStatus
  <2> QED
    BY <1>9, <2>1, <2>2
<1>13. CASE Consolidate(w)
  <2>1. /\ task'[w].pc = "consolidate"
        /\ \A v \in Workers : v # w => task'[v] = task[v]
        /\ UNCHANGED <<rows, tables>>
    BY <1>13 DEF Consolidate, Start, TypeOK
  <2> QED
    BY <1>2, <2>1 DEF SoundTask, At, tables
<1>14. ASSUME NEW es \in SUBSET Experiences, FormConcept(w, es)
       PROVE  ExperienceInv'
  <2>1. PICK e \in es : IsApproved(e) /\ Start(w, Collect(es \ {e}, {e}))
    BY <1>14 DEF FormConcept
  <2>2. Proven(e)
    BY <2>1, SettledProven DEF IsApproved, Settled
  <2>3. /\ task'[w] = Collect(es \ {e}, {e})
        /\ \A v \in Workers : v # w => task'[v] = task[v]
        /\ UNCHANGED <<rows, tables>>
    BY <1>14, <2>1 DEF FormConcept, Start, TypeOK
  <2>4. SoundTask(w)'
    BY <2>2, <2>3 DEF SoundTask, At, Collect, Proven, tables
  <2> QED
    BY <1>2, <2>3, <2>4 DEF tables
<1> QED
  BY <1>1, <1>3, <1>4, <1>5, <1>6, <1>7, <1>8, <1>10, <1>11, <1>12, <1>13,
     <1>14 DEF Request

\* A step of a handler writes what was sound, and passes on what is.
LEMMA StepSound ==
  ASSUME TypeOK, ExperienceInv, Grows, NEW w \in Workers, Step(w)
  PROVE  ExperienceInv'
<1>0. SoundTask(w)
  BY DEF ExperienceInv
<1>1. CASE WriteObserved(w)
  <2>1. /\ task[w].e \in Experiences /\ Exists(task[w].e)
        /\ task[w].data \in Payload /\ task[w].data.learning = Unapproved
        /\ OwnEvidence(task[w].e, task[w].data)
    BY <1>0, <1>1, TaskShape DEF WriteObserved, SoundTask, ObserveTask
  <2>2. Sound(task[w].e, rows[task[w].e]) /\ rows[task[w].e] \in Row
    BY <2>1, RowShape DEF ExperienceInv
  <2>3. /\ rows'[task[w].e] = [rows[task[w].e] EXCEPT !.data = task[w].data]
        /\ \A e \in Experiences : e # task[w].e => rows'[e] = rows[e]
    BY <1>1, <2>1 DEF WriteObserved, TypeOK
  <2>4. /\ rows'[task[w].e] \in Row
        /\ Sound(task[w].e, rows'[task[w].e])
    <3>1. /\ rows'[task[w].e].data = task[w].data
          /\ rows'[task[w].e].status = rows[task[w].e].status
      BY <2>2, <2>3 DEF Row
    <3> QED
      BY <2>1, <2>2, <2>3, <3>1 DEF Sound, AsSigned, Row
  <2>5. \A e \in Experiences : Exists(e)' => Sound(e, rows[e])'
    BY <2>1, <2>3, <2>4, WrittenSound, RowsSound
  <2>6. DatasetsSigned'
    BY <1>1, DatasetsSound DEF WriteObserved, tables
  <2>7. \A v \in Workers : SoundTask(v)'
    BY <1>1, EndsSound DEF WriteObserved
  <2> QED
    BY <2>5, <2>6, <2>7 DEF ExperienceInv
<1>2. CASE WriteRow(w)
  <2>1. /\ task[w].e \in Experiences /\ task[w].row \in Row
        /\ Sound(task[w].e, task[w].row)
    BY <1>0, <1>2, TaskShape DEF WriteRow, SoundTask, WriteTask
  <2>2. /\ rows'[task[w].e] = task[w].row
        /\ \A e \in Experiences : e # task[w].e => rows'[e] = rows[e]
    BY <1>2, <2>1 DEF WriteRow, TypeOK
  <2>3. \A e \in Experiences : Exists(e)' => Sound(e, rows[e])'
    BY <2>1, <2>2, WrittenSound, RowsSound
  <2>4. DatasetsSigned'
    BY <1>2, DatasetsSound DEF WriteRow, tables
  <2>5. \A v \in Workers : SoundTask(v)'
    BY <1>2, EndsSound DEF WriteRow
  <2> QED
    BY <2>3, <2>4, <2>5 DEF ExperienceInv
<1>3. CASE /\ UNCHANGED <<rows, datasets>>
           /\ \A v \in Workers : SoundTask(v)'
  <2>1. \A e \in Experiences : Exists(e)' => Sound(e, rows[e])'
    BY <1>3, RowsSound
  <2> QED
    BY <1>3, <2>1, DatasetsSound DEF ExperienceInv
<1>4. CASE \/ StoreEvaluation(w) \/ StoreParameters(w)
           \/ StoreConsolidation(w) \/ StoreDerived(w)
  BY <1>3, <1>4, EndsSound
  DEF StoreEvaluation, StoreParameters, StoreConsolidation, StoreDerived
<1>5. CASE ReadVerified(w)
  <2>1. CASE Exists(task[w].e)
    <3>1. task[w] \in ReadTask
      BY <1>5, TaskShape DEF ReadVerified
    <3>2. PICK e \in Experiences, x \in Verifications :
             /\ e = task[w].e /\ x = task[w].v
             /\ Known(x) /\ verifications[x].experience = e
             /\ Exists(e) /\ Sound(e, rows[e]) /\ rows[e] \in Row
      BY <1>0, <1>5, <2>1, <3>1, RowShape
      DEF ReadVerified, SoundTask, ReadTask, ExperienceInv
    <3>3. /\ task'[w] = [pc |-> "write", e |-> e,
                         row |-> VerifiedRow(rows[e], x)]
          /\ \A v \in Workers : v # w => task'[v] = task[v]
          /\ UNCHANGED <<rows, tables>>
      BY <1>5, <2>1, <3>2 DEF ReadVerified, TypeOK
    <3>4. Sound(e, VerifiedRow(rows[e], x))
      <4>1. /\ VerifiedRow(rows[e], x).status = NewStatus(rows[e], x)
            /\ VerifiedRow(rows[e], x).data.learning = rows[e].data.learning
            /\ VerifiedRow(rows[e], x).data.outcome = rows[e].data.outcome
            /\ VerifiedRow(rows[e], x).data.refs = rows[e].data.refs \cup {x}
        BY <3>2 DEF VerifiedRow, Row, Payload
      <4>2. verifications[x] \in Verification
        BY <3>2 DEF TypeOK, Known
      <4>3. NewStatus(rows[e], x) \in Settled => Proven(e)
        <5>1. CASE rows[e].status \in Settled
          BY <3>2, <5>1 DEF Sound
        <5>2. CASE rows[e].status \notin Settled
          BY <3>2, <4>2, <5>2 DEF NewStatus, Proven, Settled, Verification
        <5> QED
          BY <5>1, <5>2
      <4> QED
        BY <3>2, <4>1, <4>3
        DEF Sound, AsSigned, OwnEvidence, NewStatus, Settled
    <3>5. PICK row \in Row : row = VerifiedRow(rows[e], x)
      BY <3>2, NewRows DEF TypeOK, Known
    <3>6. SoundTask(w)'
      <4>1. Sound(e, row)'
        BY <3>4, <3>5, SoundStays
      <4>2. task'[w] = [pc |-> "write", e |-> e, row |-> row]
        BY <3>3, <3>5
      <4> QED
        BY <4>1, <4>2 DEF SoundTask, At, Sound, AsSigned, OwnEvidence
    <3> QED
      BY <1>3, <3>3, <3>6, OthersSound DEF tables
  <2>2. CASE ~Exists(task[w].e)
    BY <1>3, <1>5, <2>2, EndsSound DEF ReadVerified, tables
  <2> QED
    BY <2>1, <2>2
<1>6. CASE SelectMember(w)
  <2>1. PICK found \in SUBSET Experiences : task[w] \in SelectTask(found)
    BY <1>6, TaskShape DEF SelectMember
  <2>2. PICK e \in task[w].left :
           task' = [task EXCEPT ![w] =
                      [task[w] EXCEPT !.left = task[w].left \ {e},
                                      !.kept = IF Eligible(w, e)
                                               THEN task[w].kept \cup {e}
                                               ELSE task[w].kept]]
    BY <1>6 DEF SelectMember, TypeOK
  <2>3. /\ task'[w].pc = "select" /\ task'[w].read = task[w].read
        /\ task'[w].kept \subseteq task[w].kept \cup {e}
        /\ e \in task'[w].kept => e \in task[w].kept \/ Eligible(w, e)
        /\ \A v \in Workers : v # w => task'[v] = task[v]
    BY <2>1, <2>2 DEF SelectTask, TypeOK
  <2>4. \A k \in task'[w].kept :
           k \notin Private /\ task[w].read[k].learning # Unapproved
    BY <1>0, <1>6, <2>3 DEF SelectMember, SoundTask, Eligible
  <2>5. \A k \in DOMAIN task[w].read :
           Exists(k) /\ Proven(k) /\ AsSigned(k, task[w].read[k])
    BY <1>0, <1>6 DEF SelectMember, SoundTask
  <2>6. ASSUME NEW k \in DOMAIN task[w].read
        PROVE  Exists(k)' /\ Proven(k)' /\ AsSigned(k, task[w].read[k])'
    <3>1. k \in Experiences
      BY <2>1 DEF SelectTask
    <3>2. PICK data \in Payload : data = task[w].read[k]
      BY <2>1 DEF SelectTask
    <3>3. Exists(k)' /\ Proven(k)' /\ AsSigned(k, data)'
      BY <2>5, <3>1, <3>2, SoundStays DEF Grows
    <3> QED
      BY <2>3, <3>2, <3>3 DEF AsSigned
  <2>7. SoundTask(w)'
    BY <2>3, <2>4, <2>6 DEF SoundTask, At
  <2> QED
    BY <1>3, <1>6, <2>3, <2>7, OthersSound DEF SelectMember, tables
<1>7. CASE LearnFrom(w)
  <2>1. task[w] \in TrainTask
    BY <1>7, TaskShape DEF LearnFrom
  <2>2. /\ task'[w].pc = "train" /\ task'[w].members = task[w].members
        /\ \A v \in Workers : v # w => task'[v] = task[v]
    BY <1>7, <2>1 DEF LearnFrom, TrainTask, TypeOK
  <2>3. \A e \in task[w].members : Exists(e)'
    BY <1>0, <1>7 DEF LearnFrom, SoundTask, Exists
  <2>4. SoundTask(w)'
    BY <2>2, <2>3 DEF SoundTask, At
  <2> QED
    BY <1>3, <1>7, <2>2, <2>4, OthersSound DEF LearnFrom, tables
<1>8. CASE StoreDataset(w)
  <2>1. PICK found \in SUBSET Experiences : task[w] \in SelectTask(found)
    BY <1>8, TaskShape DEF StoreDataset
  <2>2. /\ task[w].kept \subseteq DOMAIN task[w].read
        /\ DOMAIN task[w].read \subseteq Experiences
        /\ \A e \in DOMAIN task[w].read : task[w].read[e] \in Payload
    BY <2>1 DEF SelectTask
  <2>3. ASSUME NEW e \in task[w].kept
        PROVE  /\ Exists(e)' /\ e \notin Private /\ Proven(e)'
               /\ approvals'[task[w].read[e].learning.approval] # Unsigned
               /\ approvals'[task[w].read[e].learning.approval].experience = e
    <3>1. /\ Exists(e) /\ Proven(e) /\ AsSigned(e, task[w].read[e])
          /\ e \notin Private /\ task[w].read[e].learning # Unapproved
      BY <1>0, <1>8, <2>2 DEF StoreDataset, SoundTask
    <3>2. UNCHANGED <<rows, verifications, approvals>>
      BY <1>8 DEF StoreDataset
    <3> QED
      BY <3>1, <3>2 DEF AsSigned, Exists, Proven, IsSigned
  <2>4. ASSUME NEW d \in datasets', NEW e \in DOMAIN d.approval
        PROVE  /\ Exists(e)' /\ e \notin Private /\ Proven(e)'
               /\ IsSigned(d.approval[e])'
               /\ approvals'[d.approval[e]].experience = e
    <3>1. CASE d \in datasets
      BY <3>1, DatasetsStay
    <3>2. CASE d \notin datasets
      <4>1. d.approval = [k \in task[w].kept |->
                            task[w].read[k].learning.approval]
        BY <1>8, <3>2 DEF StoreDataset
      <4> QED
        BY <2>3, <4>1 DEF IsSigned
    <3> QED
      BY <3>1, <3>2
  <2>5. DatasetsSigned'
    BY <2>4 DEF DatasetsSigned
  <2>6. \A v \in Workers : SoundTask(v)'
    BY <1>8, EndsSound DEF StoreDataset
  <2>7. \A e \in Experiences : Exists(e)' => Sound(e, rows[e])'
    BY <1>8, RowsSound DEF StoreDataset
  <2> QED
    BY <2>5, <2>6, <2>7 DEF ExperienceInv
<1>9. CASE ReadSupport(w)
  <2>1. CASE UNCHANGED rows /\ Finish(w)
    BY <1>3, <1>9, <2>1, EndsSound DEF ReadSupport, tables
  <2>2. CASE ~Finish(w)
    <3>1. task[w] \in ConceptTask
      BY <1>9, TaskShape DEF ReadSupport
    <3>2. PICK e \in task[w].left :
             /\ IsApproved(e)
             /\ task' = [task EXCEPT ![w] = Collect(task[w].left \ {e},
                                                    task[w].from \cup {e})]
      BY <1>9, <2>2 DEF ReadSupport
    <3>3. Proven(e)
      BY <3>1, <3>2, SettledProven DEF IsApproved, Settled, ConceptTask
    <3>4. /\ task'[w] = Collect(task[w].left \ {e}, task[w].from \cup {e})
          /\ \A v \in Workers : v # w => task'[v] = task[v]
          /\ UNCHANGED <<rows, tables>>
      BY <1>9, <3>2 DEF ReadSupport, TypeOK
    <3>5. \A d \in task[w].from : Proven(d)
      BY <1>0, <1>9 DEF ReadSupport, SoundTask
    <3>6. SoundTask(w)'
      BY <3>3, <3>4, <3>5 DEF SoundTask, At, Collect, Proven, tables
    <3> QED
      BY <1>3, <3>4, <3>6, OthersSound DEF tables
  <2> QED
    BY <1>9, <2>1, <2>2 DEF ReadSupport
<1> QED
  BY <1>1, <1>2, <1>4, <1>5, <1>6, <1>7, <1>8, <1>9 DEF Step

\* The founder's steps and a handler that stops.
LEMMA OutsideSound ==
  ASSUME TypeOK, ExperienceInv, Grows, Founder \/ Crash \/ UNCHANGED vars
  PROVE  ExperienceInv'
<1>1. UNCHANGED <<rows, datasets>>
  BY DEF Founder, Sign, Withdraw, Crash, vars, tables
<1>2. \A v \in Workers : SoundTask(v)'
  <2>1. CASE Crash
    BY <2>1, EndsSound DEF Crash
  <2>2. CASE UNCHANGED task
    BY <2>2, OthersSound
  <2> QED
    BY <2>1, <2>2 DEF Founder, Sign, Withdraw, vars
<1>3. \A e \in Experiences : Exists(e)' => Sound(e, rows[e])'
  BY <1>1, RowsSound
<1> QED
  BY <1>1, <1>2, <1>3, DatasetsSound DEF ExperienceInv

LEMMA InitSound == Init => ExperienceInv /\ DerivedIsProven
  BY DEF Init, ExperienceInv, SoundTask, DatasetsSigned, DerivedIsProven,
         Exists, At, Idle

\* Evaluations and records are added by handlers that have read proven rows.
LEMMA DerivedStays ==
  ASSUME TypeOK, ExperienceInv, DerivedIsProven, Grows, [Next]_vars
  PROVE  DerivedIsProven'
<1>1. ASSUME NEW e \in Experiences, Proven(e) PROVE Proven(e)'
  BY <1>1, SoundStays
<1>2. ASSUME NEW w \in Workers, StoreEvaluation(w)
      PROVE  DerivedIsProven'
  <2>1. task[w].e \in Experiences /\ Proven(task[w].e)
    BY <1>2, TaskShape DEF StoreEvaluation, ExperienceInv, SoundTask, ScoreTask
  <2>2. /\ derived' = derived
        /\ \A x \in evaluations' : x \in evaluations
                                     \/ x.experience = task[w].e
    BY <1>2 DEF StoreEvaluation
  <2>3. \A x \in evaluations' : x.experience \in Experiences
                                  /\ Proven(x.experience)
    BY <2>1, <2>2 DEF DerivedIsProven, TypeOK
  <2>4. \A es \in derived' : \A e \in es : e \in Experiences /\ Proven(e)
    BY <2>2 DEF DerivedIsProven, TypeOK
  <2> QED
    BY <1>1, <2>3, <2>4 DEF DerivedIsProven, Proven
<1>3. ASSUME NEW w \in Workers, StoreDerived(w)
      PROVE  DerivedIsProven'
  <2>1. \A e \in task[w].from : e \in Experiences /\ Proven(e)
    BY <1>3, TaskShape DEF StoreDerived, ExperienceInv, SoundTask, DeriveTask
  <2>2. /\ evaluations' = evaluations
        /\ derived' = derived \cup {task[w].from}
    BY <1>3 DEF StoreDerived
  <2>3. \A x \in evaluations' : x.experience \in Experiences
                                  /\ Proven(x.experience)
    BY <2>2 DEF DerivedIsProven, TypeOK
  <2>4. \A es \in derived' : \A e \in es : e \in Experiences /\ Proven(e)
    BY <2>1, <2>2 DEF DerivedIsProven, TypeOK
  <2> QED
    BY <1>1, <2>3, <2>4 DEF DerivedIsProven, Proven
<1>4. CASE UNCHANGED <<evaluations, derived>>
  <2>1. \A x \in evaluations : x.experience \in Experiences
                                 /\ Proven(x.experience)
    BY DEF DerivedIsProven, TypeOK
  <2>2. \A es \in derived : \A e \in es : e \in Experiences /\ Proven(e)
    BY DEF DerivedIsProven, TypeOK
  <2> QED
    BY <1>1, <1>4, <2>1, <2>2 DEF DerivedIsProven, Proven
<1> QED
  BY <1>2, <1>3, <1>4, ZenonT(60)
  DEF Next, Founder, Sign, Withdraw, Request, Step, RecordExperience, Observe,
      VerifyExperience, Evaluate, ApproveForLearning, BeginDataset, Train,
      AssignCredit, Calibrate, Replay, Derive, Consolidate, FormConcept,
      WriteObserved, ReadVerified, WriteRow, SelectMember, StoreDataset,
      LearnFrom, StoreParameters, StoreConsolidation, ReadSupport, Crash,
      vars, tables

-----------------------------------------------------------------------------
(***************************************************************************)
(* Types and the invariant hold together: a handler that writes a payload  *)
(* back relies on the row to be there still.                               *)
(***************************************************************************)
THEOREM InvariantHolds ==
  Spec => [](TypeOK /\ ExperienceInv /\ DerivedIsProven)
<1>1. Init => TypeOK /\ ExperienceInv /\ DerivedIsProven
  BY InitType, InitSound
<1>2. TypeOK /\ ExperienceInv /\ DerivedIsProven /\ [Next]_vars
         => TypeOK' /\ ExperienceInv' /\ DerivedIsProven'
  <2> SUFFICES ASSUME TypeOK, ExperienceInv, DerivedIsProven, [Next]_vars
               PROVE  TypeOK' /\ ExperienceInv' /\ DerivedIsProven'
    OBVIOUS
  <2>1. Grows
    BY StepsGrow
  <2>2. ExperienceInv'
    BY <2>1, RequestSound, StepSound, OutsideSound DEF Next
  <2> QED
    BY <2>1, <2>2, NextType, DerivedStays
<1> QED
  BY <1>1, <1>2, PTL DEF Spec

\* The variables of the experience loop keep their types.
THEOREM ExperienceTypeCorrect == Spec => []TypeOK
  BY InvariantHolds, PTL

(***************************************************************************)
(* A row that carries an approval has the outcome that the founder signed, *)
(* whatever observations, verifications and approvals overlap.             *)
(***************************************************************************)
THEOREM ApprovalCoversOutcome == Spec => []ApprovedAsSigned
<1>1. ExperienceInv => ApprovedAsSigned
  BY DEF ExperienceInv, Sound, ApprovedAsSigned
<1> QED
  BY <1>1, InvariantHolds, PTL

\* No experience counts as verified without a verification of its own.
THEOREM VerificationExists == Spec => []VerifiedIsProven
<1>1. ExperienceInv => VerifiedIsProven
  BY DEF ExperienceInv, Sound, VerifiedIsProven, Exists, NoRow, Settled
<1> QED
  BY <1>1, InvariantHolds, PTL

(***************************************************************************)
(* Evaluations, and the experiences behind credit, calibrations, replays,  *)
(* curricula and concepts, have been verified, whatever stale write has    *)
(* since overwritten their status.                                         *)
(***************************************************************************)
THEOREM DerivedFromProven == Spec => []DerivedIsProven
  BY InvariantHolds, PTL

\* A dataset holds public, verified experiences that the founder signed for.
THEOREM DatasetsAreSigned == Spec => []DatasetsSigned
<1>1. ExperienceInv => DatasetsSigned
  BY DEF ExperienceInv
<1> QED
  BY <1>1, InvariantHolds, PTL

-----------------------------------------------------------------------------
(***************************************************************************)
(* What is settled.  Who writes a row, and who takes a copy of one.        *)
(***************************************************************************)
\* The requests that a worker is busy with for more than one step.
Opens(w) ==
    \/ \E e \in Experiences, o \in Outcomes : Observe(w, e, o)
    \/ \E e \in Experiences, v \in Verifications,
          status \in {"VERIFIED", "UNVERIFIED"} :
             VerifyExperience(w, e, v, status)
    \/ \E e \in Experiences : Evaluate(w, e)
    \/ \E e \in Experiences, a \in Approvals : ApproveForLearning(w, e, a)
    \/ BeginDataset(w)
    \/ \E d \in datasets : Train(w, d)
    \/ Consolidate(w)
    \/ \E es \in SUBSET Experiences : Derive(w, es) \/ FormConcept(w, es)

LEMMA RequestKinds ==
  ASSUME TypeOK, NEW w \in Workers, Request(w)
  PROVE  Opens(w) \/ \E e \in Experiences : RecordExperience(w, e)
<1>1. ASSUME NEW e \in Experiences, NEW x \in evaluations, AssignCredit(w, e, x)
      PROVE  Opens(w)
  <2>1. {x.experience} \in SUBSET Experiences
    BY DEF TypeOK
  <2> QED
    BY <1>1, <2>1 DEF AssignCredit, Opens
<1>2. CASE Calibrate(w)
  <2>1. {x.experience : x \in evaluations} \in SUBSET Experiences
    BY DEF TypeOK
  <2> QED
    BY <1>2, <2>1 DEF Calibrate, Opens
<1>3. CASE Replay(w)
  <2>1. PICK chosen \in SUBSET WithStatus(Settled) : Derive(w, chosen)
    BY <1>3 DEF Replay
  <2>2. chosen \in SUBSET Experiences
    BY DEF WithStatus
  <2> QED
    BY <2>1, <2>2 DEF Opens
<1> QED
  BY <1>1, <1>2, <1>3 DEF Request, Opens

\* They leave the worker with a task, and the rows as they are.
LEMMA OpensTask ==
  ASSUME TypeOK, NEW w \in Workers, Opens(w)
  PROVE  /\ IsIdle(w) /\ task'[w].pc # "idle"
         /\ \A v \in Workers : v # w => task'[v] = task[v]
         /\ UNCHANGED <<rows, datasets, taught>>
<1>1. ASSUME NEW t, t.pc # "idle", Start(w, t)
      PROVE  /\ IsIdle(w) /\ task'[w].pc # "idle"
             /\ \A v \in Workers : v # w => task'[v] = task[v]
  BY <1>1 DEF Start, TypeOK
<1>2. CASE \/ \E e \in Experiences, o \in Outcomes : Observe(w, e, o)
           \/ \E e \in Experiences : Evaluate(w, e)
           \/ \E e \in Experiences, a \in Approvals : ApproveForLearning(w, e, a)
           \/ \E d \in datasets : Train(w, d)
  BY <1>1, <1>2 DEF Observe, Evaluate, ApproveForLearning, Train, tables
<1>3. ASSUME NEW e \in Experiences, NEW v \in Verifications,
             NEW status \in {"VERIFIED", "UNVERIFIED"},
             VerifyExperience(w, e, v, status)
      PROVE  /\ IsIdle(w) /\ task'[w].pc # "idle"
             /\ \A u \in Workers : u # w => task'[u] = task[u]
             /\ UNCHANGED <<rows, datasets, taught>>
  BY <1>1, <1>3 DEF VerifyExperience
<1>4. CASE BeginDataset(w) \/ Consolidate(w)
  BY <1>1, <1>4 DEF BeginDataset, Consolidate, tables
<1>5. ASSUME NEW es \in SUBSET Experiences, Derive(w, es)
      PROVE  /\ IsIdle(w) /\ task'[w].pc # "idle"
             /\ \A v \in Workers : v # w => task'[v] = task[v]
             /\ UNCHANGED <<rows, datasets, taught>>
  BY <1>1, <1>5 DEF Derive, tables
<1>6. ASSUME NEW es \in SUBSET Experiences, FormConcept(w, es)
      PROVE  /\ IsIdle(w) /\ task'[w].pc # "idle"
             /\ \A v \in Workers : v # w => task'[v] = task[v]
             /\ UNCHANGED <<rows, datasets, taught>>
  <2>1. PICK e \in es : Start(w, Collect(es \ {e}, {e}))
    BY <1>6 DEF FormConcept
  <2>2. Collect(es \ {e}, {e}).pc # "idle"
    BY DEF Collect
  <2> QED
    BY <1>1, <1>6, <2>1, <2>2 DEF FormConcept, tables
<1> QED
  BY <1>2, <1>3, <1>4, <1>5, <1>6 DEF Opens

\* Of the steps of a task only one handler makes one.
LEMMA StepTask ==
  ASSUME TypeOK, NEW w \in Workers, Step(w)
  PROVE  /\ ~IsIdle(w)
         /\ \A v \in Workers : v # w => task'[v] = task[v]
<1>1. task \in [Workers -> Tasks]
  BY DEF TypeOK
<1>2. CASE \/ WriteObserved(w) \/ WriteRow(w) \/ StoreEvaluation(w)
           \/ StoreDataset(w) \/ StoreParameters(w)
           \/ StoreConsolidation(w) \/ StoreDerived(w)
  BY <1>1, <1>2
  DEF WriteObserved, WriteRow, StoreEvaluation, StoreDataset, StoreParameters,
      StoreConsolidation, StoreDerived, Finish, IsIdle, At
<1>3. CASE ReadVerified(w)
  BY <1>1, <1>3 DEF ReadVerified, Finish, IsIdle, At
<1>4. CASE SelectMember(w) \/ LearnFrom(w)
  BY <1>1, <1>4 DEF SelectMember, LearnFrom, IsIdle, At
<1>5. CASE ReadSupport(w)
  BY <1>1, <1>5 DEF ReadSupport, Finish, IsIdle, At
<1> QED
  BY <1>2, <1>3, <1>4, <1>5 DEF Step

LEMMA RowWriters ==
  ASSUME TypeOK, [Next]_vars, NEW e \in Experiences, Exists(e)
  PROVE  \/ rows'[e] = rows[e]
         \/ \E w \in Workers : WriteObserved(w) /\ task[w].e = e
         \/ \E w \in Workers : WriteRow(w) /\ task[w].e = e
<1>1. ASSUME NEW w \in Workers, NEW f \in Experiences, RecordExperience(w, f)
      PROVE  rows'[e] = rows[e]
  BY <1>1 DEF RecordExperience, TypeOK
<1>2. ASSUME NEW w \in Workers, WriteObserved(w) \/ WriteRow(w), task[w].e # e
      PROVE  rows'[e] = rows[e]
  BY <1>2 DEF WriteObserved, WriteRow, TypeOK
<1>3. ASSUME NEW w \in Workers, Opens(w)
      PROVE  rows' = rows
  BY <1>3, OpensTask
<1>4. \/ rows' = rows
      \/ \E w \in Workers, f \in Experiences : RecordExperience(w, f)
      \/ \E w \in Workers : Opens(w) \/ WriteObserved(w) \/ WriteRow(w)
  BY RequestKinds, ZenonT(60)
  DEF Next, Founder, Sign, Withdraw, Step, ReadVerified, StoreEvaluation,
      SelectMember, StoreDataset, LearnFrom, StoreParameters,
      StoreConsolidation, ReadSupport, StoreDerived, Crash, vars
<1> QED
  BY <1>1, <1>2, <1>3, <1>4

LEMMA CopyTakers ==
  ASSUME TypeOK, [Next]_vars, NEW w \in Workers, NEW e \in Experiences,
         Holds(w, e)'
  PROVE  \/ task'[w] = task[w]
         \/ \E o \in Outcomes : Observe(w, e, o)
         \/ \E a \in Approvals : ApproveForLearning(w, e, a)
         \/ ReadVerified(w) /\ Exists(e) /\ task[w].e = e
<1>1. ASSUME NEW v \in Workers, v # w, Request(v) \/ Step(v)
      PROVE  task'[w] = task[w]
  BY <1>1, RequestKinds, OpensTask, StepTask DEF RecordExperience
<1>2. CASE Crash
  BY <1>2 DEF Crash, Finish, Holds, Idle, TypeOK
<1>3. CASE Founder \/ UNCHANGED vars
  BY <1>3 DEF Founder, Sign, Withdraw, vars
<1>4. CASE Step(w)
  <2>1. CASE \/ WriteObserved(w) \/ WriteRow(w) \/ StoreEvaluation(w)
             \/ StoreDataset(w) \/ StoreParameters(w)
             \/ StoreConsolidation(w) \/ StoreDerived(w)
    <3>1. Finish(w)
      BY <2>1 DEF WriteObserved, WriteRow, StoreEvaluation, StoreDataset,
                  StoreParameters, StoreConsolidation, StoreDerived
    <3> QED
      BY <3>1 DEF Finish, Holds, Idle, TypeOK
  <2>2. CASE ReadVerified(w)
    <3>1. task[w].e \in Experiences
      BY <2>2, TaskShape DEF ReadVerified, ReadTask
    <3>2. CASE Exists(task[w].e)
      <4>1. task'[w] = [pc |-> "write", e |-> task[w].e,
                        row |-> VerifiedRow(rows[task[w].e], task[w].v)]
        BY <2>2, <3>2 DEF ReadVerified, TypeOK
      <4> QED
        BY <2>2, <3>2, <4>1 DEF Holds
    <3>3. CASE ~Exists(task[w].e)
      BY <2>2, <3>3 DEF ReadVerified, Finish, Holds, Idle, TypeOK
    <3> QED
      BY <3>2, <3>3
  <2>3. CASE SelectMember(w)
    <3>1. PICK found \in SUBSET Experiences : task[w] \in SelectTask(found)
      BY <2>3, TaskShape DEF SelectMember
    <3>2. PICK f \in task[w].left :
              task' = [task EXCEPT ![w].left = @ \ {f},
                                   ![w].kept = IF Eligible(w, f) THEN @ \cup {f}
                                               ELSE @]
      BY <2>3 DEF SelectMember
    <3>3. task'[w].pc = "select"
      BY <3>1, <3>2 DEF SelectTask, TypeOK
    <3> QED
      BY <3>3 DEF Holds
  <2>4. CASE LearnFrom(w)
    <3>1. task[w] \in TrainTask
      BY <2>4, TaskShape DEF LearnFrom
    <3>2. PICK x : task'[w] = [task[w] EXCEPT !.seen = x]
      BY <2>4 DEF LearnFrom, TypeOK
    <3>3. task'[w].pc = "train"
      BY <3>1, <3>2 DEF TrainTask
    <3> QED
      BY <3>3 DEF Holds
  <2>5. CASE ReadSupport(w)
    <3>1. task'[w] = Idle \/ \E x, y : task'[w] = Collect(x, y)
      BY <2>5 DEF ReadSupport, Finish, TypeOK
    <3>2. Idle.pc = "idle" /\ \A x, y : Collect(x, y).pc \in {"derive", "concept"}
      BY DEF Collect, Idle
    <3>3. task'[w].pc \notin {"observe", "write"}
      BY <3>1, <3>2
    <3> QED
      BY <3>3 DEF Holds
  <2>6. \/ WriteObserved(w) \/ ReadVerified(w) \/ WriteRow(w)
        \/ StoreEvaluation(w) \/ SelectMember(w) \/ StoreDataset(w)
        \/ LearnFrom(w) \/ StoreParameters(w)
        \/ StoreConsolidation(w) \/ ReadSupport(w) \/ StoreDerived(w)
    BY <1>4 DEF Step
  <2> QED
    BY <2>1, <2>2, <2>3, <2>4, <2>5, <2>6
<1>5. CASE Request(w)
  <2>1. ASSUME NEW f \in Experiences, NEW o \in Outcomes, Observe(w, f, o)
        PROVE  f = e
    <3>1. task'[w].e = f
      BY <2>1 DEF Observe, Start, TypeOK
    <3> QED
      BY <3>1 DEF Holds
  <2>2. ASSUME NEW f \in Experiences, NEW a \in Approvals,
               ApproveForLearning(w, f, a)
        PROVE  f = e
    <3>1. task'[w].e = f
      BY <2>2 DEF ApproveForLearning, Start, TypeOK
    <3> QED
      BY <3>1 DEF Holds
  <2>3. ASSUME \/ \E f \in Experiences, v \in Verifications,
                     status \in {"VERIFIED", "UNVERIFIED"} :
                        VerifyExperience(w, f, v, status)
               \/ \E f \in Experiences : Evaluate(w, f)
               \/ BeginDataset(w) \/ Consolidate(w)
               \/ \E d \in datasets : Train(w, d)
               \/ \E es \in SUBSET Experiences : Derive(w, es)
        PROVE  FALSE
    <3>1. task'[w].pc \in {"verify_read", "evaluate", "select", "consolidate",
                           "train", "derive"}
      BY <2>3 DEF VerifyExperience, Evaluate, BeginDataset, Consolidate, Train,
                  Derive, Start, TypeOK
    <3> QED
      BY <3>1 DEF Holds
  <2>4. ASSUME NEW es \in SUBSET Experiences, FormConcept(w, es)
        PROVE  FALSE
    <3>1. PICK f \in es : task'[w] = Collect(es \ {f}, {f})
      BY <2>4 DEF FormConcept, Start, TypeOK
    <3> QED
      BY <3>1 DEF Collect, Holds
  <2>5. CASE \E f \in Experiences : RecordExperience(w, f)
    BY <2>5 DEF RecordExperience
  <2> QED
    BY <1>5, <2>1, <2>2, <2>3, <2>4, <2>5, RequestKinds DEF Opens
<1> QED
  BY <1>1, <1>2, <1>3, <1>4, <1>5 DEF Next

\* What the copies take over from the row they were made of.
LEMMA CopiesAgree ==
  ASSUME TypeOK, NEW w \in Workers, NEW e \in Experiences, Exists(e)
  PROVE  /\ \A o \in Outcomes : Observe(w, e, o) =>
               /\ rows[e].status \notin Settled
               /\ task'[w].pc = "observe" /\ rows' = rows
               /\ CopyOf(w)'.refs = rows[e].data.refs
         /\ \A a \in Approvals : ApproveForLearning(w, e, a) =>
               /\ task'[w].row.status \in Settled
               /\ task'[w].pc = "write" /\ rows' = rows
               /\ CopyOf(w)'.outcome = rows[e].data.outcome
               /\ CopyOf(w)'.refs = rows[e].data.refs
         /\ ReadVerified(w) /\ task[w].e = e =>
               /\ rows[e].status \in Settled => task'[w].row.status \in Settled
               /\ task'[w].pc = "write" /\ rows' = rows
               /\ CopyOf(w)'.outcome = rows[e].data.outcome
               /\ rows[e].data.refs \subseteq CopyOf(w)'.refs
<1>1. rows[e] \in Row /\ rows[e].data \in Payload
  BY RowShape
<1>2. ASSUME NEW o \in Outcomes, Observe(w, e, o)
      PROVE  /\ rows[e].status \notin Settled
             /\ task'[w].pc = "observe" /\ rows' = rows
             /\ CopyOf(w)'.refs = rows[e].data.refs
  <2>1. /\ task'[w] = [pc |-> "observe", e |-> e,
                       data |-> [rows[e].data EXCEPT !.outcome = o]]
        /\ rows[e].status \notin Settled /\ rows' = rows
    BY <1>2 DEF Observe, Start, TypeOK
  <2>2. CopyOf(w)' = [rows[e].data EXCEPT !.outcome = o]
    BY <2>1 DEF CopyOf, At
  <2>3. [rows[e].data EXCEPT !.outcome = o].refs = rows[e].data.refs
    BY <1>1 DEF Payload
  <2> QED
    BY <2>1, <2>2, <2>3
<1>3. ASSUME NEW a \in Approvals, ApproveForLearning(w, e, a)
      PROVE  /\ task'[w].row.status \in Settled
             /\ task'[w].pc = "write" /\ rows' = rows
             /\ CopyOf(w)'.outcome = rows[e].data.outcome
             /\ CopyOf(w)'.refs = rows[e].data.refs
  <2>1. /\ task'[w] = [pc |-> "write", e |-> e, row |-> ApprovedRow(rows[e], a)]
        /\ rows' = rows
    BY <1>3 DEF ApproveForLearning, Start, TypeOK
  <2>2. CopyOf(w)' = ApprovedRow(rows[e], a).data
    BY <2>1 DEF CopyOf, At
  <2>3. /\ ApprovedRow(rows[e], a).status \in Settled
        /\ ApprovedRow(rows[e], a).data.outcome = rows[e].data.outcome
        /\ ApprovedRow(rows[e], a).data.refs = rows[e].data.refs
    BY <1>1 DEF ApprovedRow, Payload, Settled
  <2> QED
    BY <2>1, <2>2, <2>3
<1>4. ASSUME ReadVerified(w), task[w].e = e
      PROVE  /\ rows[e].status \in Settled => task'[w].row.status \in Settled
             /\ task'[w].pc = "write" /\ rows' = rows
             /\ CopyOf(w)'.outcome = rows[e].data.outcome
             /\ rows[e].data.refs \subseteq CopyOf(w)'.refs
  <2>1. PICK v : v = task[w].v
    OBVIOUS
  <2>2. /\ task'[w] = [pc |-> "write", e |-> e, row |-> VerifiedRow(rows[e], v)]
        /\ rows' = rows
    BY <1>4, <2>1 DEF ReadVerified, TypeOK
  <2>3. CopyOf(w)' = VerifiedRow(rows[e], v).data
    BY <2>2 DEF CopyOf, At
  <2>4. /\ rows[e].status \in Settled => VerifiedRow(rows[e], v).status \in Settled
        /\ VerifiedRow(rows[e], v).data.outcome = rows[e].data.outcome
        /\ rows[e].data.refs \subseteq VerifiedRow(rows[e], v).data.refs
    BY <1>1 DEF VerifiedRow, NewStatus, Payload
  <2> QED
    BY <2>2, <2>3, <2>4
<1> QED
  BY <1>2, <1>3, <1>4

\* What WriteObserved and WriteRow leave in the row.
LEMMA CopyWritten ==
  ASSUME TypeOK, NEW w \in Workers, NEW e \in Experiences, Exists(e),
         WriteObserved(w) \/ WriteRow(w), task[w].e = e
  PROVE  /\ Holds(w, e)
         /\ rows'[e].data = CopyOf(w)
         /\ At(w, "observe") => rows'[e].status = rows[e].status
         /\ At(w, "write") => rows'[e].status = task[w].row.status
         /\ At(w, "observe") \/ At(w, "write")
<1>1. CASE WriteObserved(w)
  <2>1. rows[e] \in Row
    BY RowShape
  <2>2. rows'[e] = [rows[e] EXCEPT !.data = task[w].data]
    BY <1>1 DEF WriteObserved, TypeOK
  <2>3. rows'[e].data = task[w].data /\ rows'[e].status = rows[e].status
    BY <2>1, <2>2 DEF Row
  <2> QED
    BY <1>1, <2>3 DEF WriteObserved, Holds, CopyOf, At
<1>2. CASE WriteRow(w)
  <2>1. rows'[e] = task[w].row
    BY <1>2 DEF WriteRow, TypeOK
  <2> QED
    BY <1>2, <2>1 DEF WriteRow, Holds, CopyOf, At
<1> QED
  BY <1>1, <1>2

\* A copy that is left alone is the copy it was.
LEMMA SameCopy ==
  ASSUME NEW w \in Workers, NEW e \in Experiences, task'[w] = task[w],
         Holds(w, e)'
  PROVE  Holds(w, e) /\ CopyOf(w)' = CopyOf(w)
  BY DEF Holds, CopyOf, At

LEMMA StaysFinal ==
  ASSUME TypeOK, [Next]_vars, NEW e \in Experiences, Final(e)
  PROVE  Final(e)' /\ rows'[e].data.outcome = rows[e].data.outcome
<1>0. Exists(e)
  BY DEF Final, Exists, NoRow, Settled
<1>1. /\ rows'[e].status \in Settled
      /\ rows'[e].data.outcome = rows[e].data.outcome
  <2>1. ASSUME NEW w \in Workers, WriteObserved(w) \/ WriteRow(w), task[w].e = e
        PROVE  /\ rows'[e].status \in Settled
               /\ rows'[e].data.outcome = rows[e].data.outcome
    BY <1>0, <2>1, CopyWritten DEF Final
  <2> QED
    BY <1>0, <2>1, RowWriters DEF Final
<1>2. ASSUME NEW w \in Workers, Holds(w, e)'
      PROVE  /\ CopyOf(w)'.outcome = rows'[e].data.outcome
             /\ At(w, "write")' => task'[w].row.status \in Settled
  <2>1. CASE task'[w] = task[w]
    BY <1>1, <1>2, <2>1, SameCopy DEF Final, At
  <2>2. ASSUME NEW o \in Outcomes PROVE ~Observe(w, e, o)
    BY <1>0, CopiesAgree DEF Final
  <2>3. CASE (\E a \in Approvals : ApproveForLearning(w, e, a))
             \/ (ReadVerified(w) /\ task[w].e = e)
    BY <1>0, <1>1, <2>3, CopiesAgree DEF Final
  <2> QED
    BY <1>2, <2>1, <2>2, <2>3, CopyTakers
<1> QED
  BY <1>1, <1>2 DEF Final

LEMMA StaysKept ==
  ASSUME TypeOK, Grows, [Next]_vars, NEW e \in Experiences,
         NEW v \in Verifications, Kept(e, v)
  PROVE  Kept(e, v)'
<1>0. Exists(e)
  BY DEF Kept
<1>1. v \in rows'[e].data.refs
  <2>1. ASSUME NEW w \in Workers, WriteObserved(w) \/ WriteRow(w), task[w].e = e
        PROVE  v \in rows'[e].data.refs
    BY <1>0, <2>1, CopyWritten DEF Kept
  <2> QED
    BY <1>0, <2>1, RowWriters DEF Kept
<1>2. ASSUME NEW w \in Workers, Holds(w, e)'
      PROVE  v \in CopyOf(w)'.refs
  <2>1. CASE task'[w] = task[w]
    BY <1>2, <2>1, SameCopy DEF Kept
  <2>2. CASE \/ \E o \in Outcomes : Observe(w, e, o)
             \/ \E a \in Approvals : ApproveForLearning(w, e, a)
             \/ ReadVerified(w) /\ task[w].e = e
    <3>1. v \in rows[e].data.refs
      BY DEF Kept
    <3> QED
      BY <1>0, <2>2, <3>1, CopiesAgree
  <2> QED
    BY <1>2, <2>1, <2>2, CopyTakers
<1>3. Exists(e)'
  BY <1>0 DEF Grows
<1> QED
  BY <1>1, <1>2, <1>3 DEF Kept

(***************************************************************************)
(* "Verified experience outcomes are immutable" from where every copy that *)
(* is still to be written agrees with the verified row: no request, and no *)
(* overlap or stop of any number of them, changes the outcome again.       *)
(***************************************************************************)
THEOREM OutcomesAreFinal == Spec => OutcomesSettle
<1>1. TypeOK /\ [Next]_vars =>
         \A e \in Experiences :
            Final(e) => Final(e)' /\ UNCHANGED rows[e].data.outcome
  BY StaysFinal
<1> QED
  BY <1>1, InvariantHolds, PTL DEF Spec, OutcomesSettle

(***************************************************************************)
(* A reference to evidence that the row and every copy still to be written *)
(* have is never lost, although verify_experience() may lose one that a    *)
(* copy in flight lacks.                                                   *)
(***************************************************************************)
THEOREM EvidenceIsFinal == Spec => EvidenceSettles
<1>1. TypeOK /\ [Next]_vars =>
         \A e \in Experiences, v \in Verifications : Kept(e, v) => Kept(e, v)'
  BY StaysKept, StepsGrow
<1> QED
  BY <1>1, InvariantHolds, PTL DEF Spec, EvidenceSettles

-----------------------------------------------------------------------------
(***************************************************************************)
(* The rest is about handlers that do not overlap: a worker is idle while  *)
(* another runs a request, on however many threads.  The founder signs and *)
(* withdraws, and experiences are recorded, at any time.                   *)
(***************************************************************************)
OneAtATime == \A v, w \in Workers : ~IsIdle(v) /\ ~IsIdle(w) => v = w

\* One worker alone never overlaps with itself.
LEMMA OneWorkerIsAlone ==
  ASSUME NEW worker, Workers = {worker}
  PROVE  OneAtATime
  BY DEF OneAtATime

\* An outcome that the founder signed for that experience.
SignedPair(pair) == \E a \in Approvals :
    /\ IsSigned(a)
    /\ approvals[a].experience = pair[1]
    /\ approvals[a].content.outcome = pair[2]

\* What a row that is written over another leaves as it was.
Keeps(old, new) ==
    /\ new.data.outcome = old.data.outcome
    /\ old.status \in Settled => new.status \in Settled
    /\ old.status = "APPROVED_FOR_LEARNING" => new.status = old.status
CarriesApproval(row) ==
    row.status = "APPROVED_FOR_LEARNING" => row.data.learning # Unapproved

(***************************************************************************)
(* What a handler has read is still so while it runs, so an approved row   *)
(* stays as it was approved, and what is learned from it is signed for.    *)
(***************************************************************************)
CopyTold(w) ==
    /\ At(w, "observe") => rows[task[w].e].status \notin Settled
    /\ At(w, "write") => /\ Exists(task[w].e)
                         /\ Keeps(rows[task[w].e], task[w].row)
                         /\ CarriesApproval(task[w].row)
LessonTold(w) ==
    /\ At(w, "select") =>
          /\ \A e \in DOMAIN task[w].read :
                IsApproved(e) /\ rows[e].data.outcome = task[w].read[e].outcome
          /\ \A e, f \in task[w].kept :
                TrainingKey(e, task[w].read[e]) = TrainingKey(f, task[w].read[f])
                => e = f
    /\ At(w, "train") => \A e \in task[w].members : IsApproved(e)
    /\ At(w, "train") \/ At(w, "consolidate") =>
          \A pair \in task[w].seen : SignedPair(pair)
LoopTold ==
    /\ \A e \in Experiences : CarriesApproval(rows[e])
    /\ \A w \in Workers : CopyTold(w) /\ LessonTold(w)
    /\ DatasetsDistinct
    /\ LearnedIsSigned

\* The others rest while one handler makes a step.
Alone(w) == \A v \in Workers : v # w => IsIdle(v) /\ task'[v] = task[v]

\* While none overlap, a handler that makes a step is alone.
LEMMA WhoRuns ==
  ASSUME TypeOK, OneAtATime, OneAtATime', [Next]_vars
  PROVE  \/ UNCHANGED vars
         \/ Crash
         \/ Founder
         \/ \E w \in Workers, e \in Experiences : RecordExperience(w, e)
         \/ \E w \in Workers : Alone(w) /\ (Opens(w) \/ Step(w))
<1>1. ASSUME NEW w \in Workers, Opens(w)
      PROVE  Alone(w)
  <2>1. ASSUME NEW v \in Workers, v # w
        PROVE  IsIdle(v) /\ task'[v] = task[v]
    <3>1. IsIdle(v)'
      BY <1>1, <2>1, OpensTask DEF OneAtATime, IsIdle, At
    <3> QED
      BY <1>1, <2>1, <3>1, OpensTask DEF IsIdle, At
  <2> QED
    BY <2>1 DEF Alone
<1>2. ASSUME NEW w \in Workers, Step(w)
      PROVE  Alone(w)
  BY <1>2, StepTask DEF OneAtATime, Alone
<1> QED
  BY <1>1, <1>2, RequestKinds DEF Next

-----------------------------------------------------------------------------
\* What no step does to a verified row: the outcome stays, and it is not less.
RowsKeep == \A e \in Experiences :
    rows[e].status \in Settled => Keeps(rows[e], rows'[e])

LEMMA NextKeeps ==
  ASSUME TypeOK, ExperienceInv, LoopTold, [Next]_vars
  PROVE  RowsKeep /\ \A e \in Experiences : CarriesApproval(rows'[e])
<1>1. CASE UNCHANGED rows
  BY <1>1 DEF RowsKeep, Keeps, LoopTold
<1>2. ASSUME NEW w \in Workers, NEW e \in Experiences, RecordExperience(w, e)
      PROVE  RowsKeep /\ \A f \in Experiences : CarriesApproval(rows'[f])
  <2>1. /\ rows[e].status = "absent" /\ rows'[e].status = "UNVERIFIED"
        /\ \A f \in Experiences : f # e => rows'[f] = rows[f]
    BY <1>2 DEF RecordExperience, Exists, NoRow, TypeOK
  <2> QED
    BY <2>1 DEF RowsKeep, Keeps, LoopTold, CarriesApproval, Settled
<1>3. ASSUME NEW w \in Workers, WriteObserved(w)
      PROVE  RowsKeep /\ \A e \in Experiences : CarriesApproval(rows'[e])
  <2>1. PICK e \in Experiences : e = task[w].e
    BY <1>3, TaskShape DEF WriteObserved, ObserveTask
  <2>2. rows[e].status \notin Settled /\ Exists(e)
    BY <1>3, <2>1
    DEF WriteObserved, LoopTold, CopyTold, ExperienceInv, SoundTask
  <2>3. rows[e] \in Row
    BY <2>2, RowShape
  <2>4. /\ rows'[e].status = rows[e].status
        /\ \A f \in Experiences : f # e => rows'[f] = rows[f]
    BY <1>3, <2>1, <2>3 DEF WriteObserved, TypeOK, Row
  <2> QED
    BY <2>2, <2>4 DEF RowsKeep, Keeps, LoopTold, CarriesApproval, Settled
<1>4. ASSUME NEW w \in Workers, WriteRow(w)
      PROVE  RowsKeep /\ \A e \in Experiences : CarriesApproval(rows'[e])
  <2>1. PICK e \in Experiences : e = task[w].e
    BY <1>4, TaskShape DEF WriteRow, WriteTask
  <2>2. Keeps(rows[e], task[w].row) /\ CarriesApproval(task[w].row)
    BY <1>4, <2>1 DEF WriteRow, LoopTold, CopyTold
  <2>3. /\ rows'[e] = task[w].row
        /\ \A f \in Experiences : f # e => rows'[f] = rows[f]
    BY <1>4, <2>1 DEF WriteRow, TypeOK
  <2> QED
    BY <2>2, <2>3 DEF RowsKeep, Keeps, LoopTold
<1>5. ASSUME NEW w \in Workers, Step(w), ~WriteObserved(w), ~WriteRow(w)
      PROVE  UNCHANGED rows
  BY <1>5
  DEF Step, ReadVerified, StoreEvaluation, SelectMember, StoreDataset,
      LearnFrom, StoreParameters, StoreConsolidation, ReadSupport, StoreDerived
<1>6. ASSUME Crash \/ Founder \/ UNCHANGED vars
      PROVE  UNCHANGED rows
  BY <1>6 DEF Crash, Founder, Sign, Withdraw, vars
<1>7. ASSUME NEW w \in Workers, Request(w)
      PROVE  UNCHANGED rows \/ \E e \in Experiences : RecordExperience(w, e)
  BY <1>7, RequestKinds, OpensTask
<1>8. \/ UNCHANGED rows
      \/ \E w \in Workers : \/ \E e \in Experiences : RecordExperience(w, e)
                            \/ WriteObserved(w) \/ WriteRow(w)
  BY <1>5, <1>6, <1>7 DEF Next
<1> QED
  BY <1>1, <1>2, <1>3, <1>4, <1>8

\* A signature stays.
LEMMA SignedStays ==
  ASSUME Grows, NEW pair, SignedPair(pair)
  PROVE  SignedPair(pair)'
  BY DEF Grows, SignedPair

\* What is learned from an approved row was signed.
LEMMA RowSigned ==
  ASSUME TypeOK, ExperienceInv, LoopTold, NEW e \in Experiences, IsApproved(e)
  PROVE  SignedPair(<<e, rows[e].data.outcome>>)
<1>1. Exists(e) /\ rows[e].data.learning # Unapproved
  BY DEF IsApproved, Exists, NoRow, LoopTold, CarriesApproval
<1>2. AsSigned(e, rows[e].data) /\ rows[e].data.learning \in Approved
  BY <1>1, RowShape DEF ExperienceInv, Sound, Payload
<1>3. rows[e].data.learning.approval \in Approvals
  BY <1>2 DEF Approved
<1> QED
  BY <1>1, <1>2, <1>3 DEF AsSigned, SignedPair

\* What a handler learns from stays so while its task and datasets do.
LEMMA LessonStays ==
  ASSUME TypeOK, Grows, RowsKeep, NEW v \in Workers, LessonTold(v),
         task'[v] = task[v]
  PROVE  LessonTold(v)'
<1>1. \A e \in Experiences : IsApproved(e) =>
         IsApproved(e)' /\ rows'[e].data.outcome = rows[e].data.outcome
  BY DEF RowsKeep, Keeps, IsApproved, Settled
<1>2. CASE At(v, "select")
  <2>1. PICK found \in SUBSET Experiences : task[v] \in SelectTask(found)
    BY <1>2, TaskShape
  <2>2. DOMAIN task[v].read \subseteq Experiences
    BY <2>1 DEF SelectTask
  <2> QED
    BY <1>1, <1>2, <2>2 DEF LessonTold, At, TrainingKey
<1>3. CASE At(v, "train")
  <2>1. task[v].members \subseteq Experiences
    BY <1>3, TaskShape DEF TrainTask
  <2> QED
    BY <1>1, <1>3, <2>1, SignedStays DEF LessonTold, At
<1>4. CASE At(v, "consolidate")
  BY <1>4, SignedStays DEF LessonTold, At
<1>5. CASE ~At(v, "select") /\ ~At(v, "train") /\ ~At(v, "consolidate")
  BY <1>5 DEF LessonTold, At
<1> QED
  BY <1>2, <1>3, <1>4, <1>5

\* So do the datasets and what has been learned, while none is added.
LEMMA TaughtStays ==
  ASSUME TypeOK, Grows, RowsKeep, DatasetsDistinct, LearnedIsSigned
  PROVE  /\ UNCHANGED datasets => DatasetsDistinct'
         /\ UNCHANGED taught => LearnedIsSigned'
<1>1. \A e \in Experiences : rows[e].status = "APPROVED_FOR_LEARNING" =>
         /\ rows'[e].status = "APPROVED_FOR_LEARNING"
         /\ rows'[e].data.outcome = rows[e].data.outcome
  BY DEF RowsKeep, Keeps, Settled
<1>2. ASSUME NEW d \in datasets
      PROVE  DOMAIN d.approval \subseteq Experiences
  BY DEF TypeOK, Dataset
<1>3. \A d \in datasets : \A e, f \in DOMAIN d.approval :
         /\ rows'[e].status = "APPROVED_FOR_LEARNING"
         /\ TrainingKey(e, rows'[e].data) = TrainingKey(f, rows'[f].data)
            => e = f
  BY <1>1, <1>2 DEF DatasetsDistinct, TrainingKey
<1>4. \A pair \in taught : SignedPair(pair)'
  BY SignedStays DEF LearnedIsSigned, SignedPair
<1> QED
  BY <1>3, <1>4 DEF DatasetsDistinct, LearnedIsSigned, SignedPair

-----------------------------------------------------------------------------
\* What is left to show of a step of a handler.
LEMMA TellLoop ==
  ASSUME LoopTold, NEW w \in Workers, Alone(w), CopyTold(w)', LessonTold(w)',
         \A e \in Experiences : CarriesApproval(rows'[e]),
         DatasetsDistinct', LearnedIsSigned'
  PROVE  LoopTold'
<1>1. \A v \in Workers : v # w => CopyTold(v)' /\ LessonTold(v)'
  BY DEF Alone, IsIdle, At, CopyTold, LessonTold
<1> QED
  BY <1>1 DEF LoopTold

\* The places that say nothing of rows, approvals and lessons.
Plain == {"idle", "verify_read", "evaluate", "derive", "concept"}
LEMMA PlainTold ==
  ASSUME NEW w \in Workers, task'[w].pc \in Plain
  PROVE  CopyTold(w)' /\ LessonTold(w)'
  BY DEF Plain, CopyTold, LessonTold, At

\* The request that begins is told, and what it reads is.
LEMMA OpensTold ==
  ASSUME TypeOK, ExperienceInv, LoopTold, Grows, NEW w \in Workers, Opens(w)
  PROVE  CopyTold(w)' /\ LessonTold(w)'
<1>1. ASSUME NEW t, Start(w, t)
      PROVE  task'[w] = t
  BY <1>1 DEF Start, TypeOK
<1>2. ASSUME NEW e \in Experiences, NEW o \in Outcomes, Observe(w, e, o)
      PROVE  CopyTold(w)' /\ LessonTold(w)'
  <2>1. /\ task'[w].pc = "observe" /\ task'[w].e = e /\ UNCHANGED rows
        /\ rows[e].status \notin Settled
    BY <1>1, <1>2 DEF Observe
  <2> QED
    BY <2>1 DEF CopyTold, LessonTold, At
<1>3. ASSUME NEW e \in Experiences, NEW a \in Approvals,
             ApproveForLearning(w, e, a)
      PROVE  CopyTold(w)' /\ LessonTold(w)'
  <2>1. /\ task'[w] = [pc |-> "write", e |-> e, row |-> ApprovedRow(rows[e], a)]
        /\ UNCHANGED rows /\ Exists(e) /\ rows[e].status = "VERIFIED"
    BY <1>1, <1>3 DEF ApproveForLearning
  <2>2. rows[e] \in Row /\ rows[e].data \in Payload
    BY <2>1, RowShape
  <2>3. a # NoApproval
    BY ExperienceAssumption DEF ExperienceAssumption
  <2>4. /\ ApprovedRow(rows[e], a).status = "APPROVED_FOR_LEARNING"
        /\ ApprovedRow(rows[e], a).data.outcome = rows[e].data.outcome
        /\ ApprovedRow(rows[e], a).data.learning.approval = a
    BY <2>2 DEF ApprovedRow, Payload
  <2>5. PICK row : row = ApprovedRow(rows[e], a)
    OBVIOUS
  <2>6. Keeps(rows[e], row) /\ CarriesApproval(row)
    BY <2>1, <2>3, <2>4, <2>5 DEF Keeps, CarriesApproval, Settled, Unapproved
  <2>7. /\ task'[w].pc = "write" /\ task'[w].e = e /\ task'[w].row = row
        /\ rows'[e] = rows[e] /\ Exists(e)'
    BY <2>1, <2>5 DEF Exists
  <2> QED
    BY <2>6, <2>7 DEF CopyTold, LessonTold, At
<1>4. CASE BeginDataset(w)
  <2> DEFINE found == WithStatus({"APPROVED_FOR_LEARNING"})
  <2>1. /\ task'[w] = [pc |-> "select", left |-> found, kept |-> {},
                       read |-> [e \in found |-> rows[e].data]]
        /\ UNCHANGED rows
    BY <1>1, <1>4 DEF BeginDataset
  <2>2. found = {e \in Experiences : IsApproved(e)}
    BY DEF WithStatus, IsApproved
  <2>3. /\ task'[w].pc = "select" /\ task'[w].kept = {}
        /\ task'[w].read = [e \in found |-> rows[e].data]
    BY <2>1
  <2>4. \A e \in DOMAIN task'[w].read :
           IsApproved(e)' /\ rows'[e].data.outcome = task'[w].read[e].outcome
    BY <2>1, <2>2, <2>3 DEF IsApproved
  <2> QED
    BY <2>3, <2>4 DEF CopyTold, LessonTold, At
<1>5. ASSUME NEW d \in datasets, Train(w, d)
      PROVE  CopyTold(w)' /\ LessonTold(w)'
  <2>1. /\ task'[w] = [pc |-> "train", members |-> d.train, seen |-> {}]
        /\ UNCHANGED rows
    BY <1>1, <1>5 DEF Train
  <2>2. d.train \subseteq DOMAIN d.approval
    BY DEF TypeOK, Dataset
  <2>3. \A e \in d.train : IsApproved(e)'
    BY <2>1, <2>2 DEF LoopTold, DatasetsDistinct, IsApproved
  <2>4. /\ task'[w].pc = "train" /\ task'[w].members = d.train
        /\ task'[w].seen = {}
    BY <2>1
  <2> QED
    BY <2>3, <2>4 DEF CopyTold, LessonTold, At
<1>6. CASE Consolidate(w)
  <2> DEFINE seen == {<<e, rows[e].data.outcome>> : e \in Support}
  <2>1. task'[w] = [pc |-> "consolidate", seen |-> seen]
    BY <1>1, <1>6 DEF Consolidate
  <2>2. \A e \in Support : e \in Experiences /\ IsApproved(e)
    BY DEF Support, SharingGoal, WithOutcome, WithStatus, IsApproved
  <2>3. ASSUME NEW pair \in seen
        PROVE  SignedPair(pair)'
    <3>1. PICK e \in Support : pair = <<e, rows[e].data.outcome>>
      BY <2>3
    <3>2. SignedPair(pair)
      BY <2>2, <3>1, RowSigned
    <3> QED
      BY <3>2, SignedStays
  <2>4. task'[w].pc = "consolidate" /\ task'[w].seen = seen
    BY <2>1
  <2> QED
    BY <2>3, <2>4 DEF CopyTold, LessonTold, At
<1>7. ASSUME NEW t, Start(w, t), t.pc \in Plain
      PROVE  CopyTold(w)' /\ LessonTold(w)'
  BY <1>1, <1>7, PlainTold
<1>9. CASE \E e \in Experiences, v \in Verifications,
              status \in {"VERIFIED", "UNVERIFIED"} :
                 VerifyExperience(w, e, v, status)
  BY <1>7, <1>9 DEF VerifyExperience, Plain
<1>10. CASE \/ \E e \in Experiences : Evaluate(w, e)
            \/ \E es \in SUBSET Experiences : Derive(w, es)
  BY <1>7, <1>10 DEF Evaluate, Derive, Plain
<1>8. ASSUME NEW es \in SUBSET Experiences, FormConcept(w, es)
      PROVE  CopyTold(w)' /\ LessonTold(w)'
  <2>1. PICK e \in es : Start(w, Collect(es \ {e}, {e}))
    BY <1>8 DEF FormConcept
  <2>2. Collect(es \ {e}, {e}).pc \in Plain
    BY DEF Collect, Plain
  <2> QED
    BY <1>1, <2>1, <2>2, PlainTold
<1> QED
  BY <1>2, <1>3, <1>4, <1>5, <1>6, <1>8, <1>9, <1>10 DEF Opens

\* A step that goes on is told too.
LEMMA StepTold ==
  ASSUME TypeOK, ExperienceInv, LoopTold, Grows, NEW w \in Workers, Step(w)
  PROVE  CopyTold(w)' /\ LessonTold(w)'
<1>1. CASE \/ WriteObserved(w) \/ WriteRow(w) \/ StoreEvaluation(w)
           \/ StoreDataset(w) \/ StoreParameters(w)
           \/ StoreConsolidation(w) \/ StoreDerived(w)
  <2>1. task'[w].pc \in Plain
    BY <1>1
    DEF WriteObserved, WriteRow, StoreEvaluation, StoreDataset,
        StoreParameters, StoreConsolidation, StoreDerived, Finish, Idle, Plain,
        TypeOK
  <2> QED
    BY <2>1, PlainTold
<1>2. CASE ReadSupport(w)
  <2>1. task'[w].pc \in Plain
    BY <1>2 DEF ReadSupport, Finish, Idle, Collect, Plain, TypeOK
  <2> QED
    BY <2>1, PlainTold
<1>3. CASE ReadVerified(w)
  <2>1. task[w] \in ReadTask /\ Known(task[w].v)
    BY <1>3, TaskShape DEF ReadVerified, ExperienceInv, SoundTask
  <2>2. PICK e \in Experiences, v \in Verifications :
           e = task[w].e /\ v = task[w].v /\ verifications[v] \in Verification
    BY <2>1 DEF ReadTask, Known, TypeOK
  <2>3. CASE Exists(e)
    <3>1. PICK row : row = VerifiedRow(rows[e], v)
      OBVIOUS
    <3>2. /\ task'[w] = [pc |-> "write", e |-> e, row |-> row]
          /\ UNCHANGED rows
      BY <1>3, <2>2, <2>3, <3>1 DEF ReadVerified, TypeOK
    <3>3. rows[e] \in Row /\ rows[e].data \in Payload
      BY <2>3, RowShape
    <3>4. /\ row.status = NewStatus(rows[e], v)
          /\ row.data.outcome = rows[e].data.outcome
          /\ row.data.learning = rows[e].data.learning
      BY <3>1, <3>3 DEF VerifiedRow, Payload
    <3>5. verifications[v].status # "APPROVED_FOR_LEARNING"
      BY <2>2 DEF Verification
    <3>6. CarriesApproval(rows[e])
      BY DEF LoopTold
    <3>7. Keeps(rows[e], row) /\ CarriesApproval(row)
      BY <3>4, <3>5, <3>6 DEF Keeps, CarriesApproval, NewStatus, Settled
    <3>8. /\ task'[w].pc = "write" /\ task'[w].e = e /\ task'[w].row = row
          /\ rows'[e] = rows[e] /\ Exists(e)'
      BY <2>3, <3>2 DEF Exists
    <3> QED
      BY <3>7, <3>8 DEF CopyTold, LessonTold, At
  <2>4. CASE ~Exists(e)
    <3>1. task'[w].pc \in Plain
      BY <1>3, <2>2, <2>4 DEF ReadVerified, Finish, Idle, Plain, TypeOK
    <3> QED
      BY <3>1, PlainTold
  <2> QED
    BY <2>3, <2>4
<1>4. CASE SelectMember(w)
  <2>1. PICK found \in SUBSET Experiences : task[w] \in SelectTask(found)
    BY <1>4, TaskShape DEF SelectMember
  <2>2. PICK e \in task[w].left :
           task' = [task EXCEPT ![w].left = @ \ {e},
                                ![w].kept = IF Eligible(w, e) THEN @ \cup {e}
                                            ELSE @]
    BY <1>4 DEF SelectMember
  <2>3. /\ task'[w].pc = "select" /\ task'[w].read = task[w].read
        /\ task'[w].kept = IF Eligible(w, e) THEN task[w].kept \cup {e}
                           ELSE task[w].kept
        /\ UNCHANGED rows
    BY <1>4, <2>1, <2>2 DEF SelectMember, SelectTask, TypeOK, At
  <2>4. \A x \in DOMAIN task[w].read :
           IsApproved(x) /\ rows[x].data.outcome = task[w].read[x].outcome
    BY <1>4 DEF SelectMember, LoopTold, LessonTold
  <2>5. \A x, y \in task[w].kept :
           TrainingKey(x, task[w].read[x]) = TrainingKey(y, task[w].read[y])
           => x = y
    BY <1>4 DEF SelectMember, LoopTold, LessonTold
  <2>6. Eligible(w, e) => \A x \in task[w].kept :
           TrainingKey(x, task[w].read[x]) # TrainingKey(e, task[w].read[e])
    BY DEF Eligible, Duplicate
  <2>7. \A x, y \in task'[w].kept :
           TrainingKey(x, task[w].read[x]) = TrainingKey(y, task[w].read[y])
           => x = y
    BY <2>3, <2>5, <2>6
  <2> QED
    BY <2>3, <2>4, <2>7 DEF CopyTold, LessonTold, At, IsApproved, TrainingKey
<1>5. CASE LearnFrom(w)
  <2>1. task[w] \in TrainTask
    BY <1>5, TaskShape DEF LearnFrom
  <2>2. PICK e \in task[w].members :
           task' = [task EXCEPT ![w].seen =
                                   @ \cup {<<e, rows[e].data.outcome>>}]
    BY <1>5 DEF LearnFrom
  <2>3. /\ task'[w].pc = "train" /\ task'[w].members = task[w].members
        /\ task'[w].seen = task[w].seen \cup {<<e, rows[e].data.outcome>>}
        /\ UNCHANGED rows
    BY <1>5, <2>1, <2>2 DEF LearnFrom, TrainTask, TypeOK, At
  <2>4. \A x \in task[w].members : x \in Experiences /\ IsApproved(x)
    BY <1>5, <2>1 DEF LearnFrom, TrainTask, LoopTold, LessonTold
  <2>5. SignedPair(<<e, rows[e].data.outcome>>)
    BY <2>4, RowSigned
  <2>6. \A pair \in task[w].seen : SignedPair(pair)
    BY <1>5 DEF LearnFrom, LoopTold, LessonTold
  <2>7. \A pair \in task'[w].seen : SignedPair(pair)'
    BY <2>3, <2>5, <2>6, SignedStays
  <2> QED
    BY <2>3, <2>4, <2>7 DEF CopyTold, LessonTold, At, IsApproved
<1> QED
  BY <1>1, <1>2, <1>3, <1>4, <1>5 DEF Step

\* What is stored is what the handler has read.
LEMMA StoresTold ==
  ASSUME TypeOK, ExperienceInv, LoopTold, Grows, RowsKeep,
         NEW w \in Workers, Opens(w) \/ Step(w)
  PROVE  DatasetsDistinct' /\ LearnedIsSigned'
<1>0. DatasetsDistinct /\ LearnedIsSigned
  BY DEF LoopTold
<1>1. CASE UNCHANGED <<datasets, taught>>
  BY <1>0, <1>1, TaughtStays
<1>2. CASE StoreDataset(w)
  <2>1. /\ At(w, "select") /\ UNCHANGED <<rows, taught>>
        /\ \/ datasets' = datasets
           \/ \E d : /\ datasets' = datasets \cup {d}
                     /\ DOMAIN d.approval = task[w].kept
    <3>1. ASSUME NEW train \in SUBSET task[w].kept
          PROVE  DOMAIN [train |-> train,
                         approval |-> [e \in task[w].kept |->
                            task[w].read[e].learning.approval]].approval
                   = task[w].kept
      OBVIOUS
    <3> QED
      BY <1>2, <3>1 DEF StoreDataset
  <2>2. PICK found \in SUBSET Experiences : task[w] \in SelectTask(found)
    BY <2>1, TaskShape
  <2>3. task[w].kept \subseteq DOMAIN task[w].read
    BY <2>2 DEF SelectTask
  <2>4. \A e \in task[w].kept :
           /\ IsApproved(e) /\ rows[e].data.outcome = task[w].read[e].outcome
           /\ TrainingKey(e, rows[e].data) = TrainingKey(e, task[w].read[e])
    BY <2>1, <2>3 DEF LoopTold, LessonTold, TrainingKey
  <2>5. \A e, f \in task[w].kept :
           TrainingKey(e, task[w].read[e]) = TrainingKey(f, task[w].read[f])
           => e = f
    BY <2>1 DEF LoopTold, LessonTold
  <2>6. \A e, f \in task[w].kept :
           /\ rows[e].status = "APPROVED_FOR_LEARNING"
           /\ TrainingKey(e, rows[e].data) = TrainingKey(f, rows[f].data)
              => e = f
    BY <2>4, <2>5 DEF IsApproved
  <2>7. DatasetsDistinct'
    BY <1>0, <2>1, <2>6 DEF DatasetsDistinct, TrainingKey
  <2> QED
    BY <1>0, <2>1, <2>7, TaughtStays
<1>3. CASE StoreParameters(w) \/ StoreConsolidation(w)
  <2>1. /\ At(w, "train") \/ At(w, "consolidate")
        /\ UNCHANGED datasets
        /\ taught' \subseteq taught \cup task[w].seen
    BY <1>3 DEF StoreParameters, StoreConsolidation
  <2>2. \A pair \in task[w].seen : SignedPair(pair)'
    BY <2>1, SignedStays DEF LoopTold, LessonTold
  <2>3. \A pair \in taught : SignedPair(pair)'
    BY <1>0, SignedStays DEF LearnedIsSigned, SignedPair
  <2>4. LearnedIsSigned'
    BY <2>1, <2>2, <2>3 DEF LearnedIsSigned, SignedPair
  <2> QED
    BY <1>0, <2>1, <2>4, TaughtStays
<1>4. ASSUME Step(w), ~StoreDataset(w), ~StoreParameters(w),
             ~StoreConsolidation(w)
      PROVE  UNCHANGED <<datasets, taught>>
  BY <1>4
  DEF Step, WriteObserved, ReadVerified, WriteRow, StoreEvaluation,
      SelectMember, LearnFrom, ReadSupport, StoreDerived, tables
<1> QED
  BY <1>1, <1>2, <1>3, <1>4, OpensTask

\* What the founder does, and a new row, say nothing of a handler.
LEMMA OutsideTold ==
  ASSUME TypeOK, ExperienceInv, LoopTold, Grows, RowsKeep,
         \A e \in Experiences : CarriesApproval(rows'[e]),
         UNCHANGED <<datasets, taught>>,
         \A v \in Workers : task'[v] = task[v] \/ task'[v] = Idle,
         \A e \in Experiences : Exists(e) => rows'[e] = rows[e]
  PROVE  LoopTold'
<1>1. ASSUME NEW v \in Workers
      PROVE  CopyTold(v)' /\ LessonTold(v)'
  <2>1. CASE task'[v] = Idle
    BY <2>1, PlainTold DEF Idle, Plain
  <2>2. CASE task'[v] = task[v]
    <3>1. LessonTold(v)'
      BY <2>2, LessonStays DEF LoopTold
    <3>2. CASE At(v, "observe") \/ At(v, "write")
      <4>1. PICK e \in Experiences : e = task[v].e
        BY <3>2, TaskShape DEF ObserveTask, WriteTask
      <4>2. Exists(e)
        BY <3>2, <4>1 DEF ExperienceInv, SoundTask, LoopTold, CopyTold
      <4>3. CopyTold(v)
        BY DEF LoopTold
      <4> QED
        BY <2>2, <3>1, <4>1, <4>2, <4>3 DEF CopyTold, At, Exists
    <3>3. CASE ~At(v, "observe") /\ ~At(v, "write")
      BY <2>2, <3>1, <3>3 DEF CopyTold, At
    <3> QED
      BY <3>2, <3>3
  <2> QED
    BY <2>1, <2>2
<1> QED
  BY <1>1, TaughtStays DEF LoopTold

(***************************************************************************)
(* While handlers do not overlap, what one has read of a row is still so   *)
(* when it writes, wherever handlers stop, and whatever is recorded,       *)
(* signed and withdrawn meanwhile.                                         *)
(***************************************************************************)
LEMMA NextTold ==
  ASSUME TypeOK, ExperienceInv, LoopTold, OneAtATime, OneAtATime', [Next]_vars
  PROVE  LoopTold'
<1>1. /\ Grows /\ RowsKeep
      /\ \A e \in Experiences : CarriesApproval(rows'[e])
  BY StepsGrow, NextKeeps
<1>2. ASSUME NEW w \in Workers, Alone(w), Opens(w) \/ Step(w)
      PROVE  LoopTold'
  <2>1. CopyTold(w)' /\ LessonTold(w)'
    BY <1>1, <1>2, OpensTold, StepTold
  <2>2. DatasetsDistinct' /\ LearnedIsSigned'
    BY <1>1, <1>2, StoresTold
  <2> QED
    BY <1>1, <1>2, <2>1, <2>2, TellLoop
<1>3. CASE Crash
  <2>1. \A v \in Workers : task'[v] = task[v] \/ task'[v] = Idle
    BY <1>3 DEF Crash, Finish, TypeOK
  <2> QED
    BY <1>1, <1>3, <2>1, OutsideTold DEF Crash, tables
<1>4. CASE Founder \/ UNCHANGED vars
  BY <1>1, <1>4, OutsideTold DEF Founder, Sign, Withdraw, vars, tables
<1>5. ASSUME NEW w \in Workers, NEW e \in Experiences, RecordExperience(w, e)
      PROVE  LoopTold'
  <2>1. /\ UNCHANGED <<datasets, taught, task>>
        /\ \A f \in Experiences : Exists(f) => rows'[f] = rows[f]
    BY <1>5 DEF RecordExperience, TypeOK, tables
  <2> QED
    BY <1>1, <2>1, OutsideTold
<1> QED
  BY <1>2, <1>3, <1>4, <1>5, WhoRuns

(***************************************************************************)
(* While handlers do not overlap, the copy of a payload that a handler is  *)
(* about to write back tells the status and the outcome of its row, and    *)
(* what it has learned so far was signed, wherever a handler stops.        *)
(***************************************************************************)
THEOREM LoopIsTold == Spec /\ []OneAtATime => []LoopTold
<1>1. Init => LoopTold
  BY DEF Init, LoopTold, CarriesApproval, CopyTold, LessonTold, NoRow, Idle,
         At, DatasetsDistinct, LearnedIsSigned
<1>2. /\ TypeOK /\ ExperienceInv /\ LoopTold /\ [Next]_vars
      /\ OneAtATime /\ OneAtATime'
      => LoopTold'
  BY NextTold
<1> QED
  BY <1>1, <1>2, InvariantHolds, PTL DEF Spec

(***************************************************************************)
(* While handlers do not overlap, policies are trained on, and procedures  *)
(* consolidated from, outcomes that the founder signed for just that       *)
(* experience, wherever a handler stops.                                   *)
(***************************************************************************)
THEOREM TaughtIsSigned == Spec /\ []OneAtATime => []LearnedIsSigned
<1>1. LoopTold => LearnedIsSigned
  BY DEF LoopTold
<1> QED
  BY <1>1, LoopIsTold, PTL

\* The members of a dataset stay approved, and no two of them teach the same.
THEOREM DatasetsStayDistinct == Spec /\ []OneAtATime => []DatasetsDistinct
<1>1. LoopTold => DatasetsDistinct
  BY DEF LoopTold
<1> QED
  BY <1>1, LoopIsTold, PTL
=============================================================================
