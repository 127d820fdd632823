----------------------- MODULE AdvancedRecordsProofs -----------------------
(***************************************************************************)
(* Proofs about AdvancedRecords, for any number of handlers that overlap   *)
(* and stop: its types, that a rejection rests on two failures, that       *)
(* errors are proposed, that delayed credit is due, and that what was      *)
(* reported gets lost only to a rival.                                     *)
(***************************************************************************)
EXTENDS AdvancedRecords, SequenceTheorems, TLAPS

\* A handler's place tells the shape of its task record.
LEMMA TaskShape ==
  ASSUME TypeOK, NEW w \in Workers
  PROVE  /\ At(w, "complete") => task[w] \in CompleteTask
         /\ At(w, "stages") => task[w] \in StagesTask
         /\ At(w, "credit") => task[w] \in CreditTask
         /\ At(w, "intervene") => task[w] \in InterveneTask
         /\ At(w, "intervention") => task[w] \in InterventionTask
         /\ At(w, "act") => task[w] \in ActTask
         /\ At(w, "observe") => task[w] \in ObserveTask
         /\ At(w, "finding") => task[w] \in FindingTask
         /\ At(w, "reflect") => task[w] \in ReflectTask
         /\ At(w, "propose") => task[w] \in ProposeTask
         /\ At(w, "profile") => task[w] \in ProfileTask
         /\ ~IsIdle(w) => task[w].id \in Ids
<1>1. task[w] \in Tasks
  BY DEF TypeOK
<1> QED
  BY <1>1 DEF Tasks, At, IsIdle, Idle, CompleteTask, StagesTask, CreditTask,
              InterveneTask, InterventionTask, ActTask, ObserveTask,
              FindingTask, ReflectTask, ProposeTask, ProfileTask

\* Putting a well-typed task in the place of one leaves them all so.
LEMMA TaskType ==
  ASSUME TypeOK, NEW w \in Workers, NEW t \in Tasks, Goto(w, t)
  PROVE  task' \in [Workers -> Tasks]
  BY DEF TypeOK, Goto

LEMMA FinishType ==
  ASSUME TypeOK, NEW w \in Workers, Finish(w)
  PROVE  task' \in [Workers -> Tasks]
  BY TaskType DEF Finish, Tasks

\* A handler that is not at "profile" and goes elsewhere leaves the rows
\* that the others will write where they are.
LEMMA PlacesStay ==
  ASSUME TypeOK, NEW w \in Workers, UNCHANGED profiles,
         NEW t \in Tasks, task' = [task EXCEPT ![w] = t], t.pc # "profile"
  PROVE  \A v \in Workers : At(v, "profile")' =>
            task'[v].row = 0 \/ task'[v].row \in DOMAIN profiles'
  BY DEF TypeOK, At

LEMMA PlacesUnchanged ==
  ASSUME TypeOK, UNCHANGED <<profiles, task>>
  PROVE  \A v \in Workers : At(v, "profile")' =>
            task'[v].row = 0 \/ task'[v].row \in DOMAIN profiles'
  BY DEF TypeOK, At

\* The number of a request that comes, and its rivals.
LEMMA ArriveType ==
  ASSUME TypeOK, NEW w \in Workers,
         \/ Arrive(w)
         \/ \E pc \in {"complete", "intervene", "profile"} : \E x :
               ArriveAt(w, pc, x)
  PROVE  /\ This \in Ids /\ IsIdle(w)
         /\ made' = This /\ made' \in 0 .. MaxRequests
         /\ met' \in SUBSET (Ids \X Ids) /\ met \subseteq met'
         /\ UNCHANGED stopped
<1>1. /\ This \in Ids /\ IsIdle(w) /\ UNCHANGED stopped
      /\ made' = This /\ made' \in 0 .. MaxRequests
  BY RecordsAssumption DEF TypeOK, Arrive, ArriveAt, Accept, This, Ids
<1>2. ASSUME NEW pc \in {"complete", "intervene", "profile"}, NEW x,
             ArriveAt(w, pc, x)
      PROVE  met' \in SUBSET (Ids \X Ids) /\ met \subseteq met'
  <2>1. \A v \in Writers(pc, x) : task[v].id \in Ids
    BY TaskShape DEF Writers, At, IsIdle
  <2> QED
    BY <1>1, <1>2, <2>1 DEF ArriveAt, TypeOK
<1> QED
  BY <1>1, <1>2 DEF Arrive, TypeOK

\* What an intervention makes of a hypothesis is one.
LEMMA RevisedType ==
  ASSUME NEW h \in Hypothesis, NEW id \in Ids, NEW fits \in BOOLEAN,
         NEW uncontrolled \in {0, 1},
         NEW row \in Revised(h, id, fits, uncontrolled)
  PROVE  row \in Hypothesis
<1> DEFINE c == Clamped(h.confidence + Delta(fits, uncontrolled))
<1>1. h.confidence \in 0 .. Certain
  BY DEF Hypothesis
<1>2. Delta(fits, uncontrolled) \in Int
  BY DEF Delta
<1>3. c \in 0 .. Certain
  BY <1>1, <1>2 DEF Clamped, Certain
<1>4. Verdict(fits, c) \subseteq Verdicts
  BY DEF Verdict, Verdicts
<1>5. PICK verdict \in Verdict(fits, c) :
         row = [status |-> verdict, confidence |-> c, seen |-> h.seen \cup {id},
                against |-> IF fits THEN h.against ELSE h.against \cup {id}]
  BY DEF Revised
<1> QED
  BY <1>3, <1>4, <1>5 DEF Hypothesis

\* A request that only reads.
LEMMA ReadingType ==
  ASSUME TypeOK, NEW w \in Workers, NEW t \in Tasks, Goto(w, t),
         t.pc # "profile",
         made' \in 0 .. MaxRequests, met' \in SUBSET (Ids \X Ids),
         UNCHANGED stopped,
         UNCHANGED <<missionTables, causalTables, findingTables, profileTables>>
  PROVE  TypeOK'
<1>1. task' \in [Workers -> Tasks]
  BY TaskType
<1>2. \A v \in Workers : At(v, "profile")' =>
            task'[v].row = 0 \/ task'[v].row \in DOMAIN profiles'
  BY PlacesStay DEF Goto, profileTables
<1> QED
  BY <1>1, <1>2
  DEF TypeOK, missionTables, causalTables, findingTables, profileTables

LEMMA InitType == Init => TypeOK
<1> SUFFICES ASSUME Init PROVE TypeOK
  OBVIOUS
<1>1. task \in [Workers -> Tasks]
  BY DEF Init, Tasks
<1>2. profiles \in Seq(Profile)
  BY EmptySeq DEF Init
<1>3. \A w \in Workers : ~At(w, "profile")
  BY DEF Init, At, Idle
<1>4. made \in 0 .. MaxRequests
  BY RecordsAssumption DEF Init
<1> QED
  BY <1>1, <1>2, <1>3, <1>4 DEF Init, TypeOK

LEMMA RequestType ==
  ASSUME TypeOK, NEW w \in Workers, Request(w)
  PROVE  TypeOK'
<1>1. CASE CreateMission(w)
  <2>1. This \in Ids /\ made' \in 0 .. MaxRequests
        /\ met' \in SUBSET (Ids \X Ids) /\ stopped' = stopped
    BY <1>1, ArriveType DEF CreateMission
  <2>2. missions' \in [Ids -> {Absent} \cup Mission]
    BY <1>1, <2>1 DEF CreateMission, TypeOK, Mission
  <2> QED
    BY <1>1, <2>1, <2>2, PlacesUnchanged
    DEF CreateMission, TypeOK, causalTables, findingTables, profileTables
<1>2. ASSUME NEW m \in Ids, RecordMissionStage(w, m)
      PROVE  TypeOK'
  <2>1. This \in Ids /\ made' \in 0 .. MaxRequests
        /\ met' \in SUBSET (Ids \X Ids) /\ stopped' = stopped
    BY <1>2, ArriveType DEF RecordMissionStage
  <2>2. stages' \in [Ids -> {0} \cup Ids]
    BY <1>2, <2>1 DEF RecordMissionStage, TypeOK
  <2> QED
    BY <1>2, <2>1, <2>2, PlacesUnchanged
    DEF RecordMissionStage, TypeOK, causalTables, findingTables, profileTables
<1>3. ASSUME NEW m \in Ids, CompleteMission(w, m)
      PROVE  TypeOK'
  <2>1. This \in Ids
    BY <1>3, ArriveType DEF CompleteMission
  <2>2. missions[m] \in Mission
    BY <1>3 DEF CompleteMission, TypeOK
  <2>3. [pc |-> "complete", id |-> This, on |-> m,
         row |-> [status |-> "VERIFIED",
                  evidence |-> missions[m].evidence \cup {This}]]
           \in CompleteTask
    BY <2>1, <2>2 DEF CompleteTask, Mission
  <2> QED
    BY <1>3, <2>3, ReadingType, ArriveType DEF CompleteMission, Tasks
<1>4. CASE CreateCausalHypothesis(w)
  <2>1. This \in Ids /\ made' \in 0 .. MaxRequests
        /\ met' \in SUBSET (Ids \X Ids) /\ stopped' = stopped
    BY <1>4, ArriveType DEF CreateCausalHypothesis
  <2>2. [status |-> "AVAILABLE", confidence |-> Certain \div 2,
         seen |-> {}, against |-> {}] \in Hypothesis
    BY DEF Hypothesis, Certain
  <2>3. hypotheses' \in [Ids -> {Absent} \cup Hypothesis]
    BY <1>4, <2>1, <2>2 DEF CreateCausalHypothesis, TypeOK
  <2> QED
    BY <1>4, <2>1, <2>3, PlacesUnchanged
    DEF CreateCausalHypothesis, TypeOK, missionTables, findingTables,
        profileTables
<1>5. ASSUME NEW h \in Ids, NEW fits \in BOOLEAN, NEW uncontrolled \in {0, 1},
             Intervene(w, h, fits, uncontrolled)
      PROVE  TypeOK'
  <2>1. This \in Ids
    BY <1>5, ArriveType DEF Intervene
  <2>2. hypotheses[h] \in Hypothesis
    BY <1>5 DEF Intervene, TypeOK
  <2>3. PICK row \in Revised(hypotheses[h], This, fits, uncontrolled) :
           Goto(w, [pc |-> "intervene", id |-> This, on |-> h,
                    row |-> row])
    BY <1>5 DEF Intervene
  <2>4. row \in Hypothesis
    BY <2>1, <2>2, RevisedType
  <2>5. [pc |-> "intervene", id |-> This, on |-> h, row |-> row]
           \in InterveneTask
    BY <2>1, <2>4 DEF InterveneTask
  <2> QED
    BY <1>5, <2>3, <2>5, ReadingType, ArriveType DEF Intervene, Tasks
<1>6. ASSUME NEW kind \in {"decision", "prediction"}, Expect(w, kind)
      PROVE  TypeOK'
  <2>1. This \in Ids /\ made' \in 0 .. MaxRequests
        /\ met' \in SUBSET (Ids \X Ids) /\ stopped' = stopped
    BY <1>6, ArriveType DEF Expect
  <2>2. forecasts' \in [Ids -> {Absent} \cup Forecast]
    BY <1>6, <2>1 DEF Expect, TypeOK, Forecast
  <2>3. [pc |-> "act", id |-> This] \in Tasks
    BY <2>1 DEF Tasks, ActTask
  <2>4. /\ task' \in [Workers -> Tasks]
        /\ \A v \in Workers : At(v, "profile")' =>
              task'[v].row = 0 \/ task'[v].row \in DOMAIN profiles'
    BY <1>6, <2>3, TaskType, PlacesStay, PlacesUnchanged
    DEF Expect, Goto, TypeOK, profileTables
  <2> QED
    BY <1>6, <2>1, <2>2, <2>4
    DEF Expect, TypeOK, missionTables, causalTables, profileTables
<1>7. ASSUME NEW d \in Ids, NEW worse \in BOOLEAN, ObserveForecast(w, d, worse)
      PROVE  TypeOK'
  <2>1. [pc |-> "observe", id |-> This, on |-> d, worse |-> worse] \in ObserveTask
    BY <1>7, ArriveType DEF ObserveForecast, ObserveTask
  <2> QED
    BY <1>7, <2>1, ReadingType, ArriveType DEF ObserveForecast, Tasks
<1>8. ASSUME NEW level \in {"nothing", "noted", "asks"},
             MetacognitiveReview(w, level)
      PROVE  TypeOK'
  <2>1. [pc |-> "finding", id |-> This, kind |-> "review", level |-> level]
           \in FindingTask
    BY <1>8, ArriveType DEF MetacognitiveReview, FindingTask
  <2> QED
    BY <1>8, <2>1, ReadingType, ArriveType DEF MetacognitiveReview, Tasks
<1>9. ASSUME NEW m \in Models, UpdateModelProfile(w, m)
      PROVE  TypeOK'
  <2>1. This \in Ids
    BY <1>9, ArriveType DEF UpdateModelProfile
  <2>2. PICK i \in {0} \cup DOMAIN profiles, basis \in SUBSET Ids :
           Goto(w, [pc |-> "profile", id |-> This, on |-> m, row |-> i,
                    seen |-> basis])
    <3>1. CASE Goto(w, [pc |-> "profile", id |-> This, on |-> m, row |-> 0,
                        seen |-> {This}])
      BY <2>1, <3>1
    <3>2. ASSUME NEW i \in DOMAIN profiles,
                 Goto(w, [pc |-> "profile", id |-> This, on |-> m, row |-> i,
                          seen |-> profiles[i].seen \cup {This}])
          PROVE  \E j \in {0} \cup DOMAIN profiles, basis \in SUBSET Ids :
                    Goto(w, [pc |-> "profile", id |-> This, on |-> m,
                             row |-> j, seen |-> basis])
      <4>1. profiles[i] \in Profile
        BY DEF TypeOK
      <4>2. profiles[i].seen \cup {This} \in SUBSET Ids
        BY <2>1, <4>1 DEF Profile
      <4> QED
        BY <3>2, <4>2
    <3> QED
      BY <1>9, <3>1, <3>2 DEF UpdateModelProfile
  <2>3. [pc |-> "profile", id |-> This, on |-> m, row |-> i, seen |-> basis]
           \in ProfileTask
    BY <2>1, <2>2 DEF ProfileTask, TypeOK
  <2>4. task' \in [Workers -> Tasks]
    BY <2>2, <2>3, TaskType DEF Tasks
  <2>5. \A v \in Workers : At(v, "profile")' =>
            task'[v].row = 0 \/ task'[v].row \in DOMAIN profiles'
    BY <1>9, <2>2 DEF UpdateModelProfile, TypeOK, Goto, At, profileTables
  <2> QED
    BY <1>9, <2>4, <2>5, ArriveType
    DEF UpdateModelProfile, TypeOK, missionTables, causalTables, findingTables,
        profileTables
<1>10. ASSUME NEW permitted \in SUBSET Models, RouteModel(w, permitted)
       PROVE  TypeOK'
  <2>1. This \in Ids /\ made' \in 0 .. MaxRequests
        /\ met' \in SUBSET (Ids \X Ids) /\ stopped' = stopped
    BY <1>10, ArriveType DEF RouteModel
  <2>2. \A m \in Models : Told(m) \in SUBSET Ids
    BY DEF Told, TypeOK
  <2>3. routes' \in SUBSET Route
    BY <1>10, <2>2 DEF RouteModel, TypeOK, Route
  <2> QED
    BY <1>10, <2>1, <2>3, PlacesUnchanged
    DEF RouteModel, TypeOK, missionTables, causalTables, findingTables
<1> QED
  BY <1>1, <1>2, <1>3, <1>4, <1>5, <1>6, <1>7, <1>8, <1>9, <1>10 DEF Request

LEMMA StepType ==
  ASSUME TypeOK, NEW w \in Workers, Step(w)
  PROVE  TypeOK'
<1>0. Idle \in Tasks /\ Idle.pc # "profile"
  BY DEF Idle, Tasks
<1>1. CASE SaveMission(w)
  <2>1. task[w] \in CompleteTask
    BY <1>1, TaskShape DEF SaveMission
  <2> DEFINE t == [pc |-> "stages", id |-> task[w].id,
                   on |-> task[w].on]
  <2>2. t \in StagesTask /\ task[w].row \in Mission
    BY <2>1 DEF CompleteTask, StagesTask
  <2>3. task' \in [Workers -> Tasks]
    BY <1>1, <2>2, TaskType DEF SaveMission, Tasks
  <2>4. missions' \in [Ids -> {Absent} \cup Mission]
    BY <1>1, <2>2 DEF SaveMission, TypeOK
  <2> HIDE DEF t
  <2>5. t.pc # "profile" /\ task' = [task EXCEPT ![w] = t]
    BY <1>1 DEF SaveMission, Goto, t
  <2>6. UNCHANGED profiles /\ t \in Tasks
    BY <1>1, <2>2 DEF SaveMission, profileTables, Tasks
  <2> QED
    BY <1>1, <2>3, <2>4, <2>5, <2>6, PlacesStay
    DEF SaveMission, TypeOK, causalTables, findingTables, profileTables,
        requestState
<1>2. CASE ReadStages(w)
  <2>1. task[w] \in StagesTask
    BY <1>2, TaskShape DEF ReadStages
  <2> DEFINE due == StagesOf(task[w].on)
  <2>2. PICK t \in {Idle, [pc |-> "credit", id |-> task[w].id,
                          on |-> task[w].on,
                          among |-> due, left |-> due]} : Goto(w, t)
    BY <1>2 DEF ReadStages, Finish
  <2>3. due \in SUBSET Ids
    BY DEF StagesOf
  <2>4. t \in Tasks /\ t.pc # "profile"
    BY <1>0, <2>1, <2>2, <2>3 DEF StagesTask, CreditTask, Tasks
  <2> QED
    BY <1>2, <2>2, <2>4, TaskType, PlacesStay
    DEF ReadStages, Goto, TypeOK, missionTables, causalTables, findingTables,
        profileTables, requestState
<1>3. CASE PayStage(w)
  <2>1. task[w] \in CreditTask
    BY <1>3, TaskShape DEF PayStage
  <2>2. PICK s \in task[w].left :
           /\ credits' = credits \cup
                {[report |-> task[w].id, mission |-> task[w].on,
                  stage |-> s, among |-> task[w].among]}
           /\ IF task[w].left = {s} THEN Finish(w)
              ELSE Goto(w, [task[w] EXCEPT !.left = @ \ {s}])
    BY <1>3 DEF PayStage
  <2>3. credits' \in SUBSET Credit
    BY <2>1, <2>2 DEF TypeOK, CreditTask, Credit
  <2>4. [task[w] EXCEPT !.left = @ \ {s}] \in CreditTask
    BY <2>1 DEF CreditTask
  <2>5. PICK t \in {Idle, [task[w] EXCEPT !.left = @ \ {s}]} : Goto(w, t)
    BY <2>2 DEF Finish
  <2>6. t \in Tasks /\ t.pc # "profile"
    BY <1>0, <2>4, <2>5 DEF Tasks, CreditTask
  <2> QED
    BY <1>3, <2>3, <2>5, <2>6, TaskType, PlacesStay
    DEF PayStage, Goto, TypeOK, causalTables, findingTables, profileTables,
        requestState
<1>4. CASE SaveHypothesis(w)
  <2>1. task[w] \in InterveneTask
    BY <1>4, TaskShape DEF SaveHypothesis
  <2>2. PICK t \in InterventionTask : Goto(w, t)
    BY <1>4, <2>1 DEF SaveHypothesis, InterveneTask, InterventionTask
  <2>3. hypotheses' \in [Ids -> {Absent} \cup Hypothesis]
    BY <1>4, <2>1 DEF SaveHypothesis, TypeOK, InterveneTask
  <2>4. t \in Tasks /\ t.pc # "profile"
    BY <2>2 DEF Tasks, InterventionTask
  <2> QED
    BY <1>4, <2>2, <2>3, <2>4, TaskType, PlacesStay
    DEF SaveHypothesis, Goto, TypeOK, missionTables, findingTables,
        profileTables, requestState
<1>5. CASE StoreIntervention(w)
  <2>1. task[w] \in InterventionTask
    BY <1>5, TaskShape DEF StoreIntervention
  <2>2. interventions' \in SUBSET Intervention
    BY <1>5, <2>1 DEF StoreIntervention, TypeOK, InterventionTask, Intervention
  <2> QED
    BY <1>0, <1>5, <2>2, FinishType, PlacesStay
    DEF StoreIntervention, Finish, Goto, TypeOK, missionTables, findingTables,
        profileTables, requestState
<1>6. CASE SaveForecast(w)
  <2>1. task[w] \in ObserveTask
    BY <1>6, TaskShape DEF SaveForecast
  <2>2. PICK t \in {Idle} \cup FindingTask \cup ProposeTask : Goto(w, t)
    BY <1>6, <2>1
    DEF SaveForecast, ProposeIf, Finish, ObserveTask, FindingTask, ProposeTask
  <2>3. t \in Tasks /\ t.pc # "profile"
    BY <1>0, <2>2 DEF Tasks, FindingTask, ProposeTask
  <2>4. forecasts' \in [Ids -> {Absent} \cup Forecast]
    <3>1. task[w].on \in Ids /\ task[w].id \in Ids
      BY <2>1 DEF ObserveTask
    <3> DEFINE old == forecasts[task[w].on]
               outcome == IF task[w].worse THEN "worse" ELSE "expected"
               new == [[old EXCEPT !.outcome = outcome] EXCEPT !.by = task[w].id]
    <3>2. forecasts' = [forecasts EXCEPT ![task[w].on] = new]
      BY <1>6, <3>1 DEF SaveForecast, TypeOK
    <3>3. new \in {Absent} \cup Forecast
      <4>1. CASE old = Absent
        BY <4>1 DEF Absent
      <4>2. CASE old \in Forecast
        BY <3>1, <4>2 DEF Forecast
      <4> QED
        BY <3>1, <4>1, <4>2 DEF TypeOK
    <3> QED
      BY <3>1, <3>2, <3>3 DEF TypeOK
  <2> QED
    BY <1>6, <2>2, <2>3, <2>4, TaskType, PlacesStay
    DEF SaveForecast, Goto, TypeOK, missionTables, causalTables,
        profileTables, requestState
<1>7. CASE StoreFinding(w)
  <2>1. task[w] \in FindingTask
    BY <1>7, TaskShape DEF StoreFinding
  <2>2. PICK t \in {Idle} \cup ReflectTask \cup ProposeTask : Goto(w, t)
    BY <1>7, <2>1 DEF StoreFinding, ProposeIf, Finish, FindingTask,
       ReflectTask, ProposeTask
  <2>3. t \in Tasks /\ t.pc # "profile"
    BY <1>0, <2>2 DEF Tasks, ReflectTask, ProposeTask
  <2>4. findings' \in SUBSET Finding
    BY <1>7, <2>1 DEF StoreFinding, TypeOK, FindingTask, Finding
  <2> QED
    BY <1>7, <2>2, <2>3, <2>4, TaskType, PlacesStay
    DEF StoreFinding, Goto, TypeOK, missionTables, causalTables,
        profileTables, requestState
<1>8. CASE Propose(w)
  <2>1. task[w] \in ProposeTask
    BY <1>8, TaskShape DEF Propose
  <2>2. proposals' \in SUBSET Proposal
    BY <1>8, <2>1 DEF Propose, TypeOK, ProposeTask, Proposal
  <2> QED
    BY <1>0, <1>8, <2>2, FinishType, PlacesStay
    DEF Propose, Finish, Goto, TypeOK, missionTables, causalTables,
        profileTables, requestState
<1>9. CASE SaveProfile(w)
  <2>1. task[w] \in ProfileTask
    BY <1>9, TaskShape DEF SaveProfile
  <2> DEFINE row == [model |-> task[w].on, seen |-> task[w].seen]
  <2>2. row \in Profile
    BY <2>1 DEF ProfileTask, Profile
  <2>3. profiles' = IF task[w].row = 0 THEN Append(profiles, row)
                    ELSE [profiles EXCEPT ![task[w].row] = row]
    BY <1>9 DEF SaveProfile
  <2>4. task[w].row = 0 \/ task[w].row \in DOMAIN profiles
    BY <1>9 DEF SaveProfile, TypeOK
  <2> HIDE DEF row
  <2>5. profiles' \in Seq(Profile) /\ DOMAIN profiles \subseteq DOMAIN profiles'
    BY <2>2, <2>3, <2>4, ExceptSeq, AppendProperties DEF TypeOK
  <2>6. returned' \in SUBSET [id : Ids, model : Models]
    BY <1>9, <2>1 DEF SaveProfile, TypeOK, ProfileTask
  <2>7. \A v \in Workers : At(v, "profile")' =>
            task'[v].row = 0 \/ task'[v].row \in DOMAIN profiles'
    BY <1>0, <1>9, <2>5 DEF SaveProfile, TypeOK, Finish, Goto, At
  <2> QED
    BY <1>9, <2>5, <2>6, <2>7, FinishType
    DEF SaveProfile, TypeOK, missionTables, causalTables, findingTables,
        requestState
<1>10. CASE Act(w)
  <2>1. task[w] \in ActTask
    BY <1>10, TaskShape DEF Act
  <2>2. PICK t \in {Idle} \cup FindingTask : Goto(w, t)
    BY <1>10, <2>1 DEF Act, Finish, ActTask, FindingTask
  <2>3. t \in Tasks /\ t.pc # "profile"
    BY <1>0, <2>2 DEF Tasks, FindingTask
  <2> QED
    BY <1>10, <2>2, <2>3, TaskType, PlacesStay
    DEF Act, Goto, TypeOK, missionTables, causalTables, findingTables,
        profileTables, requestState
<1>11. CASE Reflect(w)
  <2>1. task[w] \in ReflectTask
    BY <1>11, TaskShape DEF Reflect
  <2>2. PICK t \in {Idle} \cup ProposeTask : Goto(w, t)
    BY <1>11, <2>1 DEF Reflect, ProposeIf, Finish, ReflectTask, ProposeTask
  <2>3. t \in Tasks /\ t.pc # "profile"
    BY <1>0, <2>2 DEF Tasks, ProposeTask
  <2>4. forecasts' \in [Ids -> {Absent} \cup Forecast]
    <3>1. task[w].id \in Ids
      BY <2>1 DEF ReflectTask
    <3> DEFINE old == forecasts[task[w].id]
               new == [[old EXCEPT !.outcome = "pending"]
                          EXCEPT !.by = task[w].id]
    <3>2. forecasts' = [forecasts EXCEPT ![task[w].id] = new]
      BY <1>11, <3>1 DEF Reflect, TypeOK
    <3>3. new \in {Absent} \cup Forecast
      <4>1. CASE old = Absent
        BY <4>1 DEF Absent
      <4>2. CASE old \in Forecast
        BY <3>1, <4>2 DEF Forecast
      <4> QED
        BY <3>1, <4>1, <4>2 DEF TypeOK
    <3> QED
      BY <3>1, <3>2, <3>3 DEF TypeOK
  <2> QED
    BY <1>11, <2>2, <2>3, <2>4, TaskType, PlacesStay
    DEF Reflect, Goto, TypeOK, missionTables, causalTables, profileTables,
        requestState
<1> QED
  BY <1>1, <1>2, <1>3, <1>4, <1>5, <1>6, <1>7, <1>8, <1>9, <1>10, <1>11
  DEF Step

LEMMA NextType ==
  ASSUME TypeOK, [Next]_vars
  PROVE  TypeOK'
<1>1. CASE Crash
  <2>1. PICK w \in Workers : /\ ~IsIdle(w)
                             /\ stopped' = stopped \cup {task[w].id}
                             /\ Finish(w)
    BY <1>1 DEF Crash
  <2>2. stopped' \in SUBSET Ids
    BY <2>1, TaskShape DEF TypeOK
  <2>3. Idle \in Tasks /\ Idle.pc # "profile"
    BY DEF Idle, Tasks
  <2> QED
    BY <1>1, <2>1, <2>2, <2>3, FinishType, PlacesStay
    DEF Crash, Finish, Goto, TypeOK, missionTables, causalTables,
        findingTables, profileTables
<1>2. CASE UNCHANGED vars
  <2>1. UNCHANGED <<profiles, task>>
    BY <1>2 DEF vars, profileTables
  <2> QED
    BY <1>2, <2>1, PlacesUnchanged
    DEF vars, TypeOK, missionTables, causalTables, findingTables,
        profileTables, requestState
<1> QED
  BY <1>1, <1>2, RequestType, StepType DEF Next

(***************************************************************************)
(* Every variable of AdvancedRecords keeps its type, whatever overlaps or  *)
(* stops.                                                                  *)
(***************************************************************************)
THEOREM RecordsTypeCorrect == Spec => []TypeOK
<1> QED
  BY InitType, NextType, PTL DEF Spec

-----------------------------------------------------------------------------
\* A request takes the next number, and a step takes none.
LEMMA NumbersGrow ==
  ASSUME TypeOK, [Next]_vars
  PROVE  made \in Nat /\ made' \in Nat /\ made <= made'
<1>1. made \in Nat
  BY RecordsAssumption DEF TypeOK
<1>2. ASSUME NEW w \in Workers, Request(w)
      PROVE  made' = made + 1
  <2>1. Accept(w)
    BY <1>2 DEF Request, CreateMission, RecordMissionStage, CompleteMission,
       CreateCausalHypothesis, Intervene, Expect, ObserveForecast,
       MetacognitiveReview, UpdateModelProfile, RouteModel, Arrive, ArriveAt
  <2> QED
    BY <2>1 DEF Accept, This
<1>3. ASSUME NEW w \in Workers, Step(w)
      PROVE  made' = made
  BY <1>3 DEF Step, SaveMission, ReadStages, PayStage, SaveHypothesis,
     StoreIntervention, Act, SaveForecast, StoreFinding, Reflect, Propose,
     SaveProfile,
     requestState
<1>4. Crash \/ UNCHANGED vars => made' = made
  BY DEF Crash, vars, requestState
<1>5. made' = made \/ made' = made + 1
  BY <1>2, <1>3, <1>4 DEF Next
<1> QED
  BY <1>1, <1>5

\* What backs a hypothesis still does when more requests have come.
LEMMA BackedKept ==
  ASSUME TypeOK, [Next]_vars, NEW h, Backed(h, made), h.against \in SUBSET Ids
  PROVE  Backed(h, made')
  BY NumbersGrow, RecordsAssumption DEF Backed, Twice, Ids

(***************************************************************************)
(* Confidence falls only with a new piece of evidence against: from 0.5 or *)
(* more one does not bring it below 0.25, where it could be rejected.      *)
(***************************************************************************)
LEMMA RevisedBacked ==
  ASSUME TypeOK, NEW h \in Hypothesis, Backed(h, made), made' = This,
         NEW fits \in BOOLEAN, NEW uncontrolled \in {0, 1},
         NEW row \in Revised(h, This, fits, uncontrolled)
  PROVE  Backed(row, made')
<1> DEFINE c == Clamped(h.confidence + Delta(fits, uncontrolled))
           against == IF fits THEN h.against ELSE h.against \cup {This}
<1>1. /\ made \in Nat /\ h.confidence \in 0 .. Certain
      /\ h.against \subseteq Ids
  BY RecordsAssumption DEF TypeOK, Hypothesis
<1>2. PICK verdict \in Verdict(fits, c) :
         row = [status |-> verdict, confidence |-> c, seen |-> h.seen \cup {This},
                against |-> against]
  BY DEF Revised
<1>3. \A i \in against : i <= made'
  BY <1>1, RecordsAssumption DEF Backed, This, Ids
<1>4. CASE fits
  <2>1. c >= h.confidence
    BY <1>1, <1>4 DEF Clamped, Delta, Certain
  <2>2. c \in Nat /\ (c < 20 => h.confidence < 20) /\ (c < 10 => h.confidence < 10)
    BY <1>1, <1>4 DEF Clamped, Delta, Certain
  <2>3. verdict # "REJECTED"
    BY <1>2, <1>4 DEF Verdict
  <2> HIDE DEF c
  <2> QED
    BY <1>2, <1>3, <1>4, <2>2, <2>3 DEF Backed, Twice
<1>5. CASE ~fits
  <2>1. c \in Nat /\ (c < 10 => h.confidence < 20)
    BY <1>1, <1>5 DEF Clamped, Delta, Certain
  <2>2. verdict = "REJECTED" => c < 10
    BY <1>2, <1>5, <2>1 DEF Verdict
  <2>3. This \in against /\ This \notin h.against
    BY <1>1, <1>5, RecordsAssumption DEF Backed, This, Ids
  <2>4. c < 10 => \E i \in against : i # This
    BY <1>5, <2>1, <2>3 DEF Backed
  <2> HIDE DEF c, against
  <2>5. c < 10 => \E i, j \in against : i # j
    BY <2>3, <2>4
  <2> QED
    BY <1>2, <1>3, <2>2, <2>3, <2>5 DEF Backed, Twice
<1> QED
  BY <1>4, <1>5

\* A step of another kind leaves hypotheses and those who revise them alone.
LEMMA HypothesesLeft ==
  ASSUME TypeOK, [Next]_vars,
         \A w \in Workers : /\ ~CreateCausalHypothesis(w) /\ ~SaveHypothesis(w)
                            /\ \A h \in Ids, fits \in BOOLEAN, u \in {0, 1} :
                                  ~Intervene(w, h, fits, u)
  PROVE  /\ UNCHANGED hypotheses
         /\ \A w \in Workers : At(w, "intervene")' => task'[w] = task[w]
<1>1. UNCHANGED hypotheses
  <2>1. ASSUME NEW w \in Workers, Request(w)
        PROVE  UNCHANGED hypotheses
    BY <2>1 DEF Request, CreateMission, RecordMissionStage, CompleteMission,
       Expect, ObserveForecast, MetacognitiveReview, UpdateModelProfile,
       RouteModel, causalTables
  <2>2. ASSUME NEW w \in Workers, Step(w)
        PROVE  UNCHANGED hypotheses
    BY <2>2 DEF Step, SaveMission, ReadStages, PayStage, StoreIntervention,
       Act, SaveForecast, StoreFinding, Reflect, Propose, SaveProfile,
       causalTables
  <2>3. Crash \/ UNCHANGED vars => UNCHANGED hypotheses
    BY DEF Crash, vars, causalTables
  <2> QED
    BY <2>1, <2>2, <2>3 DEF Next
<1>2. ASSUME NEW w \in Workers, Crash \/ UNCHANGED vars
      PROVE  At(w, "intervene")' => task'[w] = task[w]
  BY <1>2 DEF Crash, vars, Finish, Goto, Idle, At, TypeOK
<1>3. ASSUME NEW v \in Workers, Request(v), NEW w \in Workers
      PROVE  At(w, "intervene")' => task'[w] = task[w]
  BY <1>3 DEF Request, CreateMission, RecordMissionStage, CompleteMission,
              Expect, ObserveForecast, MetacognitiveReview, UpdateModelProfile,
              RouteModel, Goto, At, TypeOK
<1>4. ASSUME NEW v \in Workers, Step(v), NEW w \in Workers
      PROVE  At(w, "intervene")' => task'[w] = task[w]
  <2>1. CASE PayStage(v)
    <3>1. task[v] \in CreditTask
      BY <2>1, TaskShape DEF PayStage
    <3> QED
      BY <2>1, <3>1 DEF PayStage, CreditTask, Finish, Goto, Idle, At, TypeOK
  <2> QED
    BY <1>4, <2>1 DEF Step, SaveMission, ReadStages, StoreIntervention,
         Act, SaveForecast, StoreFinding, Reflect, Propose, ProposeIf,
         SaveProfile, Finish, Goto, Idle, At, TypeOK
<1> QED
  BY <1>1, <1>2, <1>3, <1>4 DEF Next

LEMMA StepBacked ==
  ASSUME TypeOK, RejectionInv, [Next]_vars
  PROVE  RejectionInv'
<1>1. ASSUME NEW h \in Ids, hypotheses[h] # Absent
      PROVE  Backed(hypotheses[h], made')
  <2>1. hypotheses[h].against \in SUBSET Ids
    BY <1>1 DEF TypeOK, Hypothesis
  <2> QED
    BY <1>1, <2>1, BackedKept DEF RejectionInv
<1>2. ASSUME NEW w \in Workers, At(w, "intervene")
      PROVE  Backed(task[w].row, made')
  <2>1. task[w].row.against \in SUBSET Ids
    BY <1>2, TaskShape DEF InterveneTask, Hypothesis
  <2> QED
    BY <1>2, <2>1, BackedKept DEF RejectionInv
<1>3. ASSUME NEW w \in Workers, CreateCausalHypothesis(w)
      PROVE  RejectionInv'
  <2>1. hypotheses' = [hypotheses EXCEPT ![This] =
                        [status |-> "AVAILABLE", confidence |-> 20,
                         seen |-> {}, against |-> {}]]
    BY <1>3 DEF CreateCausalHypothesis, Certain
  <2>2. \A h \in Ids : hypotheses'[h] # Absent => Backed(hypotheses'[h], made')
    BY <1>1, <2>1 DEF TypeOK, Backed
  <2> QED
    BY <1>2, <1>3, <2>2 DEF CreateCausalHypothesis, RejectionInv, At
<1>4. ASSUME NEW w \in Workers, SaveHypothesis(w)
      PROVE  RejectionInv'
  <2>1. \A h \in Ids : hypotheses'[h] # Absent => Backed(hypotheses'[h], made')
    BY <1>1, <1>2, <1>4 DEF SaveHypothesis, TypeOK
  <2>2. \A v \in Workers : At(v, "intervene")' => task'[v] = task[v]
    BY <1>4 DEF SaveHypothesis, Goto, At, TypeOK
  <2> QED
    BY <1>2, <2>1, <2>2 DEF RejectionInv, At
<1>5. ASSUME NEW w \in Workers, NEW h \in Ids, NEW fits \in BOOLEAN,
             NEW u \in {0, 1}, Intervene(w, h, fits, u)
      PROVE  RejectionInv'
  <2>1. PICK row \in Revised(hypotheses[h], This, fits, u) :
           task' = [task EXCEPT ![w] = [pc |-> "intervene", id |-> This,
                                        on |-> h, row |-> row]]
    BY <1>5 DEF Intervene, Goto
  <2>2. /\ hypotheses[h] \in Hypothesis /\ Backed(hypotheses[h], made)
        /\ made' = This
    BY <1>5 DEF Intervene, ArriveAt, Accept, TypeOK, RejectionInv
  <2>3. Backed(row, made')
    BY <2>2, RevisedBacked
  <2>4. \A v \in Workers : At(v, "intervene")' => Backed(task'[v].row, made')
    BY <1>2, <2>1, <2>3 DEF At, TypeOK
  <2> QED
    BY <1>1, <1>5, <2>4 DEF Intervene, causalTables, RejectionInv
<1>6. CASE \A w \in Workers :
              /\ ~CreateCausalHypothesis(w) /\ ~SaveHypothesis(w)
              /\ \A h \in Ids, fits \in BOOLEAN, u \in {0, 1} :
                    ~Intervene(w, h, fits, u)
  <2>1. /\ UNCHANGED hypotheses
        /\ \A w \in Workers : At(w, "intervene")' => task'[w] = task[w]
    BY <1>6, HypothesesLeft
  <2> QED
    BY <1>1, <1>2, <2>1 DEF RejectionInv, At
<1> QED
  BY <1>3, <1>4, <1>5, <1>6

(***************************************************************************)
(* No single intervention rejects a hypothesis, whatever interventions     *)
(* revise a copy that others have replaced meanwhile.                      *)
(***************************************************************************)
THEOREM RejectionTakesTwo == Spec => []RejectionNeedsTwo
<1>1. Init => RejectionInv
  BY DEF Init, RejectionInv, At, Idle
<1>2. TypeOK /\ RejectionInv => RejectionNeedsTwo
  BY DEF RejectionInv, Backed, Twice, RejectionNeedsTwo, Absent
<1> QED
  BY <1>1, <1>2, StepBacked, RecordsTypeCorrect, PTL DEF Spec
-----------------------------------------------------------------------------
\* Which operations write a table, among the requests, the later steps and
\* the stops.
LEMMA RequestWrites ==
  ASSUME NEW w \in Workers, Request(w)
  PROVE  /\ UNCHANGED <<credits, interventions, findings, profiles, returned>>
         /\ missions' # missions =>
               CreateMission(w) \/ \E m \in Ids : CompleteMission(w, m)
         /\ forecasts' # forecasts =>
               \E kind \in {"decision", "prediction"} : Expect(w, kind)
         /\ routes' # routes =>
               \E permitted \in SUBSET Models : RouteModel(w, permitted)
<1> USE DEF Request, CreateMission, RecordMissionStage, CreateCausalHypothesis,
      CompleteMission, Intervene, UpdateModelProfile, Expect,
      ObserveForecast, MetacognitiveReview, RouteModel, missionTables, causalTables, findingTables, profileTables
<1>1. UNCHANGED <<credits, interventions, findings, profiles, returned>>
  OBVIOUS
<1>2. missions' # missions =>
         CreateMission(w) \/ \E m \in Ids : CompleteMission(w, m)
  OBVIOUS
<1>3. forecasts' # forecasts =>
         \E kind \in {"decision", "prediction"} : Expect(w, kind)
  OBVIOUS
<1>4. routes' # routes =>
         \E permitted \in SUBSET Models : RouteModel(w, permitted)
  OBVIOUS
<1> QED
  BY <1>1, <1>2, <1>3, <1>4

LEMMA StepWrites ==
  ASSUME NEW w \in Workers, Step(w)
  PROVE  /\ missions' # missions => SaveMission(w)
         /\ credits' # credits => PayStage(w)
         /\ interventions' # interventions => StoreIntervention(w)
         /\ forecasts' # forecasts => SaveForecast(w) \/ Reflect(w)
         /\ findings \subseteq findings'
         /\ ~SaveProfile(w) => UNCHANGED <<profiles, returned>>
         /\ routes' = routes
<1> USE DEF Step, SaveMission, ReadStages, PayStage, SaveHypothesis,
      StoreIntervention, Act, SaveForecast, StoreFinding, Reflect, Propose,
      SaveProfile, missionTables, causalTables, findingTables, profileTables
<1>1. missions' # missions => SaveMission(w)
  OBVIOUS
<1>2. credits' # credits => PayStage(w)
  OBVIOUS
<1>3. interventions' # interventions => StoreIntervention(w)
  OBVIOUS
<1>4. forecasts' # forecasts => SaveForecast(w) \/ Reflect(w)
  OBVIOUS
<1>5. findings \subseteq findings'
  OBVIOUS
<1>6. ~SaveProfile(w) => UNCHANGED <<profiles, returned>>
  OBVIOUS
<1>7. routes' = routes
  OBVIOUS
<1> QED
  BY <1>1, <1>2, <1>3, <1>4, <1>5, <1>6, <1>7

LEMMA CrashWrites ==
  Crash => UNCHANGED <<missions, credits, interventions, forecasts, findings,
                       profiles, routes, returned>>
  BY DEF Crash, missionTables, causalTables, findingTables, profileTables

\* Forecasts and findings stay, and so does it that there is an outcome.
ForecastsGrow ==
    /\ \A i \in Ids : /\ forecasts[i] # Absent => forecasts'[i] # Absent
                      /\ Observed(i) => Observed(i)'
                      /\ i > made' => forecasts'[i] = Absent
    /\ findings \subseteq findings'

LEMMA ForecastsKept ==
  ASSUME TypeOK, ProposalInv, [Next]_vars
  PROVE  ForecastsGrow
<1>1. made \in Nat /\ made' \in Nat /\ made <= made'
  BY NumbersGrow
<1>2. findings \subseteq findings'
  BY RequestWrites, StepWrites, CrashWrites DEF Next, vars, findingTables
<1>3. CASE UNCHANGED forecasts
  <2>1. \A i \in Ids : i > made' => i > made
    BY <1>1 DEF Ids
  <2> QED
    BY <1>2, <1>3, <2>1 DEF ForecastsGrow, Observed, ProposalInv
<1>4. ASSUME NEW w \in Workers, NEW kind \in {"decision", "prediction"},
             Expect(w, kind)
      PROVE  ForecastsGrow
  <2>1. /\ This \in Ids /\ made' = This
        /\ This > made
        /\ forecasts' = [forecasts EXCEPT ![This] =
                           [kind |-> kind, outcome |-> "none", by |-> 0]]
    BY <1>1, <1>4, ArriveType DEF Expect, This
  <2>2. forecasts[This] = Absent
    BY <2>1 DEF ProposalInv
  <2>3. forecasts'[This] # Absent
    BY <2>1 DEF Absent, TypeOK
  <2>4. \A i \in Ids : i > made' => i > made /\ i # This
    BY <1>1, <2>1 DEF Ids
  <2> QED
    BY <1>2, <2>1, <2>2, <2>3, <2>4
    DEF ForecastsGrow, Observed, ProposalInv, TypeOK
<1>5. ASSUME NEW d \in Ids, NEW outcome \in {"pending", "expected", "worse"},
             NEW by, made' = made,
             forecasts' = [forecasts EXCEPT ![d].outcome = outcome, ![d].by = by]
      PROVE  ForecastsGrow
  <2> DEFINE new == [[forecasts[d] EXCEPT !.outcome = outcome] EXCEPT !.by = by]
  <2>1. forecasts' = [forecasts EXCEPT ![d] = new]
    BY <1>5 DEF TypeOK
  <2>2. /\ forecasts[d] = Absent => new = Absent
        /\ forecasts[d] # Absent => new # Absent /\ new.outcome = outcome
    BY DEF TypeOK, Forecast, Absent
  <2> HIDE DEF new
  <2> QED
    BY <1>2, <1>5, <2>1, <2>2 DEF ForecastsGrow, Observed, ProposalInv, TypeOK
<1>6. ASSUME NEW w \in Workers, SaveForecast(w)
      PROVE  ForecastsGrow
  <2>1. task[w].on \in Ids
    BY <1>6, TaskShape DEF SaveForecast, ObserveTask
  <2> QED
    BY <1>5, <1>6, <2>1 DEF SaveForecast, requestState
<1>7. ASSUME NEW w \in Workers, Reflect(w)
      PROVE  ForecastsGrow
  <2>1. task[w].id \in Ids
    BY <1>7, TaskShape DEF Reflect, ReflectTask
  <2> QED
    BY <1>5, <1>7, <2>1 DEF Reflect, requestState
<1> QED
  BY <1>3, <1>4, <1>6, <1>7, RequestWrites, StepWrites, CrashWrites
  DEF Next, vars, findingTables

\* What a handler rests on is still there.
LEMMA TaskRestsKept ==
  ASSUME TypeOK, ForecastsGrow, NEW w \in Workers, TaskRests(w),
         task'[w] = task[w]
  PROVE  TaskRests(w)'
<1>1. At(w, "observe") \/ At(w, "propose") => task[w].on \in Ids
  BY TaskShape DEF ObserveTask, ProposeTask
<1> QED
  BY <1>1 DEF TaskRests, ForecastsGrow, Rests, Asked, At

\* A step of one handler that proposes nothing: what it owes, it goes on owing.
LEMMA OwedKept ==
  ASSUME TypeOK, ProposalInv, ForecastsGrow, UNCHANGED <<proposals, stopped>>,
         NEW w \in Workers,
         \A v \in Workers : v # w => task'[v] = task[v],
         Owed(w) => Owed(w)' /\ task'[w].id = task[w].id,
         Worse' \subseteq
            Worse \cup (IF Owed(w)' THEN {task'[w].id} ELSE {}),
         TaskRests(w)'
  PROVE  ProposalInv'
<1>1. \A v \in Workers : TaskRests(v)'
  BY TaskRestsKept DEF ProposalInv
<1>2. \A v \in Workers : Owed(v) => Owed(v)' /\ task'[v].id = task[v].id
  BY DEF Owed, At
<1>3. \A p \in proposals : p.on \in Ids
  BY DEF TypeOK, Proposal
<1>4. \A p \in proposals : Rests(p.on)'
  BY <1>3 DEF ProposalInv, ForecastsGrow, Rests, Asked
<1>5. Worse' \subseteq Proposed' \cup stopped'
                    \cup {task'[v].id : v \in {u \in Workers : Owed(u)'}}
  BY <1>2 DEF ProposalInv, Proposed
<1> QED
  BY <1>1, <1>4, <1>5 DEF ProposalInv, ForecastsGrow

\* What nobody observes anew is not found anew.
LEMMA SameWorse ==
  ASSUME UNCHANGED <<forecasts, findings>>
  PROVE  Worse' = Worse
  BY DEF Worse

LEMMA RequestOwed ==
  ASSUME TypeOK, ProposalInv, ForecastsGrow, NEW w \in Workers, Request(w)
  PROVE  ProposalInv'
<1> USE DEF Request, CreateMission, RecordMissionStage, CompleteMission,
            CreateCausalHypothesis, Intervene, Expect, ObserveForecast,
            MetacognitiveReview, UpdateModelProfile, RouteModel, findingTables
<1>1. Worse' \subseteq Worse
  <2>1. ASSUME NEW kind \in {"decision", "prediction"}, Expect(w, kind)
        PROVE  Worse' \subseteq Worse
    BY <2>1 DEF Worse, TypeOK
  <2>2. CASE \A kind \in {"decision", "prediction"} : ~Expect(w, kind)
    BY <2>2, SameWorse
  <2> QED
    BY <2>1, <2>2
<1>2. /\ UNCHANGED <<proposals, stopped>> /\ IsIdle(w)
      /\ \A v \in Workers : v # w => task'[v] = task[v]
  BY DEF Arrive, ArriveAt, Accept, Goto, TypeOK
<1>3. TaskRests(w)'
  <2>1. ASSUME NEW d \in Ids, NEW worse \in BOOLEAN,
               ObserveForecast(w, d, worse)
        PROVE  TaskRests(w)'
    <3>1. /\ task'[w] = [pc |-> "observe", id |-> This, on |-> d,
                         worse |-> worse]
          /\ forecasts'[d] # Absent
      BY <2>1 DEF Goto, TypeOK, ForecastsGrow
    <3> QED
      BY <3>1 DEF TaskRests, At
  <2>2. CASE \A d \in Ids, worse \in BOOLEAN : ~ObserveForecast(w, d, worse)
    <3>1. task'[w].pc \notin {"observe", "reflect", "propose"}
      BY <1>2, <2>2 DEF Goto, TypeOK, IsIdle, At
    <3> QED
      BY <3>1 DEF TaskRests, At
  <2> QED
    BY <2>1, <2>2
<1>4. ~Owed(w)
  BY <1>2 DEF Owed, IsIdle, At
<1> QED
  BY <1>1, <1>2, <1>3, <1>4, OwedKept

LEMMA StepOwed ==
  ASSUME TypeOK, ProposalInv, [Next]_vars
  PROVE  ProposalInv'
<1>0. ForecastsGrow
  BY ForecastsKept
<1>1. ASSUME NEW w \in Workers, Request(w)
      PROVE  ProposalInv'
  BY <1>0, <1>1, RequestOwed
<1>2. ASSUME NEW w \in Workers,
             \/ SaveMission(w) \/ ReadStages(w) \/ PayStage(w)
             \/ SaveHypothesis(w) \/ StoreIntervention(w) \/ SaveProfile(w)
             \/ Act(w)
      PROVE  ProposalInv'
  <2>1. /\ UNCHANGED <<proposals, stopped, findings, forecasts>>
        /\ \A v \in Workers : v # w => task'[v] = task[v]
        /\ ~Owed(w)
    BY <1>2 DEF SaveMission, ReadStages, PayStage, SaveHypothesis,
         StoreIntervention, SaveProfile, Act, findingTables, requestState,
         Goto, Finish, Owed, At, TypeOK
  <2>2. task'[w].pc \notin {"observe", "reflect", "propose"}
    <3>1. CASE PayStage(w)
      <4>1. task[w] \in CreditTask
        BY <3>1, TaskShape DEF PayStage
      <4> QED
        BY <3>1, <4>1 DEF PayStage, CreditTask, Goto, Finish, Idle, TypeOK
    <3> QED
      BY <1>2, <3>1 DEF SaveMission, ReadStages, SaveHypothesis,
         StoreIntervention, SaveProfile, Act, Goto, Finish, Idle, TypeOK
  <2>3. TaskRests(w)'
    BY <2>2 DEF TaskRests, At
  <2> QED
    BY <1>0, <2>1, <2>3, SameWorse, OwedKept
<1>3. ASSUME NEW w \in Workers, SaveForecast(w)
      PROVE  ProposalInv'
  <2> DEFINE d == task[w].on
             outcome == IF task[w].worse THEN "worse" ELSE "expected"
             new == [[forecasts[d] EXCEPT !.outcome = outcome]
                         EXCEPT !.by = task[w].id]
  <2>1. task[w] \in ObserveTask /\ d \in Ids
    BY <1>3, TaskShape DEF SaveForecast, ObserveTask
  <2>2. forecasts' = [forecasts EXCEPT ![d] = new]
    BY <1>3, <2>1 DEF SaveForecast, TypeOK
  <2>3. forecasts[d] \in Forecast
    BY <1>3, <2>1 DEF SaveForecast, ProposalInv, TaskRests, TypeOK
  <2>4. new \in Forecast /\ new.outcome = outcome /\ new.by = task[w].id
    BY <2>1, <2>3 DEF Forecast, ObserveTask
  <2> HIDE DEF new
  <2>5. /\ UNCHANGED <<proposals, stopped, findings>> /\ ~Owed(w)
        /\ \A v \in Workers : v # w => task'[v] = task[v]
    BY <1>3 DEF SaveForecast, requestState, ProposeIf, Goto, Finish, Owed,
         At, TypeOK
  <2>6. \/ task'[w] = Idle
        \/ task'[w].pc = "finding"
        \/ task'[w].pc = "propose" /\ task'[w].on = d
    BY <1>3 DEF SaveForecast, ProposeIf, Goto, Finish, TypeOK
  <2>7. task[w].worse => Owed(w)' /\ task'[w].id = task[w].id
    BY <1>3, <2>1 DEF SaveForecast, ProposeIf, Owed, At, Goto, TypeOK,
         ObserveTask
  <2>8. forecasts'[d] # Absent /\ forecasts'[d].outcome # "none"
    <3>1. forecasts[d] # Absent
      BY <1>3, <2>1 DEF SaveForecast, ProposalInv, TaskRests
    <3>2. forecasts'[d] = new /\ outcome # "none"
      BY <2>1, <2>2 DEF TypeOK
    <3> QED
      BY <1>0, <2>1, <2>4, <3>1, <3>2 DEF ForecastsGrow
  <2>9. TaskRests(w)'
    BY <2>6, <2>8 DEF TaskRests, Rests, Observed, At, Idle
  <2>10. Worse' \subseteq
            Worse \cup (IF task[w].worse THEN {task[w].id} ELSE {})
    BY <2>1, <2>2, <2>4, <2>5 DEF Worse, TypeOK
  <2> QED
    BY <1>0, <2>5, <2>7, <2>9, <2>10, OwedKept
<1>4. ASSUME NEW w \in Workers, StoreFinding(w)
      PROVE  ProposalInv'
  <2> DEFINE new == [id |-> task[w].id, kind |-> task[w].kind,
                     level |-> task[w].level]
  <2>1. task[w] \in FindingTask
    BY <1>4, TaskShape DEF StoreFinding
  <2>2. /\ UNCHANGED <<proposals, stopped, forecasts>>
        /\ findings' = findings \cup {new}
        /\ \A v \in Workers : v # w => task'[v] = task[v]
    BY <1>4 DEF StoreFinding, requestState, ProposeIf, Goto, Finish, TypeOK
  <2>3. \/ task'[w] = Idle /\ task[w].level # "asks"
        \/ /\ task'[w] = [pc |-> "reflect", id |-> task[w].id,
                          level |-> task[w].level]
           /\ task[w].kind = "evaluation"
        \/ /\ task'[w] = [pc |-> "propose", id |-> task[w].id,
                          on |-> task[w].id]
           /\ task[w].level = "asks"
    BY <1>4 DEF StoreFinding, ProposeIf, Goto, Finish, TypeOK
  <2>4. task[w].level = "asks" =>
           \E f \in findings' : f.id = task[w].id /\ f.level = "asks"
    <3>1. new.id = task[w].id /\ new.level = task[w].level
      OBVIOUS
    <3>2. new \in findings'
      BY <2>2
    <3> QED
      BY <3>1, <3>2
  <2>5. TaskRests(w)'
    BY <2>3, <2>4 DEF TaskRests, Rests, Asked, At, Idle
  <2>6. Owed(w) => Owed(w)' /\ task'[w].id = task[w].id
    BY <1>4, <2>3 DEF StoreFinding, Owed, At
  <2>7. Worse' \subseteq
           Worse \cup (IF Owed(w)' THEN {task'[w].id} ELSE {})
    BY <1>4, <2>2, <2>3, <2>6 DEF StoreFinding, Worse, Owed, At
  <2> QED
    BY <1>0, <2>2, <2>5, <2>6, <2>7, OwedKept
<1>5. ASSUME NEW w \in Workers, Reflect(w)
      PROVE  ProposalInv'
  <2> DEFINE d == task[w].id
             new == [[forecasts[d] EXCEPT !.outcome = "pending"]
                         EXCEPT !.by = d]
  <2>1. task[w] \in ReflectTask /\ d \in Ids
    BY <1>5, TaskShape DEF Reflect, ReflectTask
  <2>2. /\ forecasts' = [forecasts EXCEPT ![d] = new]
        /\ UNCHANGED <<proposals, stopped, findings>>
        /\ \A v \in Workers : v # w => task'[v] = task[v]
    BY <1>5, <2>1 DEF Reflect, requestState, ProposeIf, Goto, Finish, TypeOK
  <2>3. new = Absent \/ new.outcome = "pending"
    BY <2>1 DEF TypeOK, Forecast, Absent
  <2> HIDE DEF new
  <2>4. \/ task'[w] = Idle /\ task[w].level # "asks"
        \/ task'[w] = [pc |-> "propose", id |-> d, on |-> d]
           /\ task[w].level = "asks"
    BY <1>5 DEF Reflect, ProposeIf, Goto, Finish, TypeOK
  <2>5. TaskRests(w)'
    BY <1>5, <2>2, <2>4
    DEF Reflect, TaskRests, ProposalInv, Rests, Asked, At, Idle
  <2>6. ~Owed(w)
    BY <1>5 DEF Reflect, Owed, At
  <2>7. Worse' \subseteq Worse
    BY <2>1, <2>2, <2>3 DEF Worse, TypeOK
  <2> QED
    BY <1>0, <2>2, <2>5, <2>6, <2>7, OwedKept
<1>6. ASSUME NEW w \in Workers, Propose(w) \/ (Crash /\ Finish(w)
                /\ stopped' = stopped \cup {task[w].id})
      PROVE  ProposalInv'
  <2>1. /\ UNCHANGED <<forecasts, findings>>
        /\ Finish(w)
        /\ \/ stopped' = stopped \cup {task[w].id} /\ proposals' = proposals
           \/ /\ proposals' = proposals \cup
                    {[id |-> task[w].id, on |-> task[w].on]}
              /\ stopped' = stopped /\ At(w, "propose")
    BY <1>6 DEF Propose, Crash, findingTables, requestState
  <2>2. /\ \A v \in Workers \ {w} : task'[v] = task[v]
        /\ task'[w] = Idle
    BY <2>1 DEF Goto, Finish, TypeOK
  <2>3. \A v \in Workers : TaskRests(v)'
    <3>1. TaskRests(w)'
      BY <2>2 DEF TaskRests, At, Idle
    <3> QED
      BY <1>0, <2>2, <3>1, TaskRestsKept DEF ProposalInv
  <2>4. Worse' = Worse
    BY <2>1, SameWorse
  <2>5. \A v \in Workers \ {w} : Owed(v) => Owed(v)' /\ task'[v].id = task[v].id
    BY <2>2 DEF Owed, At
  <2>6. \/ task[w].id \in stopped'
        \/ \E p \in proposals' : p.id = task[w].id
    <3> DEFINE p == [id |-> task[w].id, on |-> task[w].on]
    <3>1. p.id = task[w].id
      OBVIOUS
    <3>2. task[w].id \in stopped' \/ p \in proposals'
      BY <2>1
    <3> QED
      BY <3>1, <3>2
  <2>7. Proposed \cup stopped \subseteq Proposed' \cup stopped'
    BY <2>1 DEF Proposed
  <2>8. \A p \in proposals' : Rests(p.on)'
    BY <2>1 DEF ProposalInv, TaskRests, Rests, Observed, Asked
  <2>9. Worse' \subseteq Proposed' \cup stopped'
                    \cup {task'[v].id : v \in {u \in Workers : Owed(u)'}}
    BY <2>4, <2>5, <2>6, <2>7 DEF ProposalInv, Proposed
  <2> QED
    BY <1>0, <2>3, <2>8, <2>9 DEF ProposalInv, ForecastsGrow
<1>7. CASE UNCHANGED vars
  BY <1>7 DEF vars, findingTables, requestState, ProposalInv, Worse, Proposed,
              Owed, TaskRests, Rests, Observed, Asked, At
<1> QED
  BY <1>1, <1>2, <1>3, <1>4, <1>5, <1>6, <1>7 DEF Next, Step, Crash

(***************************************************************************)
(* What was observed as worse than expected is proposed or on its way,     *)
(* unless the handler that observed it stopped, and every proposal rests   *)
(* on a finding that asks for it or on a recorded outcome.                 *)
(***************************************************************************)
THEOREM WorseIsProposed == Spec => []ErrorsAreProposed
<1>1. Init => ProposalInv
  BY DEF Init, ProposalInv, Worse, TaskRests, Absent, Idle, At
<1>2. ProposalInv => ErrorsAreProposed
  BY DEF ProposalInv, ErrorsAreProposed, UnderWay, Owed, At, IsIdle
<1> QED
  BY <1>1, <1>2, StepOwed, RecordsTypeCorrect, PTL DEF Spec
-----------------------------------------------------------------------------
(***************************************************************************)
(* Credit.  Missions and stages stay, a completed mission stays so, and    *)
(* credit is not taken back.                                               *)
(***************************************************************************)
Grown == /\ \A m \in Ids : missions[m] # Absent => missions'[m] # Absent
         /\ \A m \in Ids : Completed(m) => Completed(m)'
         /\ \A s \in Ids : stages[s] # 0 => stages'[s] = stages[s]
         /\ credits \subseteq credits'

\* A handler that another one does not pay for is as sound as before.
LEMMA OthersSound ==
  ASSUME TypeOK, CreditInv, Grown, NEW v \in Workers,
         task'[v] = task[v],
         \A c \in credits' \ credits : ~IsIdle(v) => c.report # task[v].id
  PROVE  CreditTaskSound(v)'
<1>1. CASE At(v, "credit")
  <2>1. /\ task[v] \in CreditTask
        /\ task[v].on \in Ids /\ task[v].among \subseteq Ids
    BY <1>1, TaskShape DEF CreditTask
  <2>2. CreditTaskSound(v) /\ ~IsIdle(v)
    BY <1>1 DEF CreditInv, IsIdle, At
  <2>3. \A s \in task[v].among : stages'[s] = task[v].on
    BY <1>1, <2>1, <2>2, RecordsAssumption DEF CreditTaskSound, Grown, Ids
  <2> QED
    BY <1>1, <2>1, <2>2, <2>3 DEF CreditTaskSound, Grown, At, IsIdle
<1>2. CASE ~At(v, "credit")
  <2>1. /\ At(v, "complete") => task[v].on \in Ids
        /\ At(v, "stages") => task[v].on \in Ids
    BY TaskShape DEF CompleteTask, StagesTask
  <2> QED
    BY <1>2, <2>1 DEF CreditInv, CreditTaskSound, Grown, At, IsIdle
<1> QED
  BY <1>1, <1>2

\* Credit that was due stays so, whether or not more is paid.
LEMMA DueKept ==
  ASSUME TypeOK, CreditInv, Grown, NEW c \in credits
  PROVE  /\ c.stage \in c.among
         /\ \A s \in c.among : stages'[s] = c.mission
         /\ missions'[c.mission] # Absent
         /\ missions'[c.mission].status = "VERIFIED"
<1>1. c.mission \in Ids /\ c.among \subseteq Ids
  BY DEF TypeOK, Credit
<1> QED
  BY <1>1, RecordsAssumption
  DEF CreditInv, CreditIsDue, Grown, Completed, Ids

\* Without new credit it is enough that no handler leaves a payment unless
\* it stops.
LEMMA CreditLeft ==
  ASSUME TypeOK, CreditInv, Grown, UNCHANGED credits,
         stopped \subseteq stopped',
         \A i \in UnderWay : \/ i \in UnderWay' \cup stopped'
                             \/ \A c \in credits : c.report # i
  PROVE  CreditIsDue'
<1>1. SplitOnce' /\ PaidInFull'
  BY DEF CreditInv, CreditIsDue, SplitOnce, PaidInFull
<1> QED
  BY <1>1, DueKept DEF CreditIsDue

\* What a request does to missions, stages and credit.
LEMMA RequestEffect ==
  ASSUME TypeOK, NEW w \in Workers, Request(w)
  PROVE  /\ IsIdle(w) /\ made' = This /\ This \in Ids
         /\ UNCHANGED <<credits, stopped>>
         /\ \/ UNCHANGED missions
            \/ missions' = [missions EXCEPT ![This] =
                              [status |-> "AVAILABLE", evidence |-> {}]]
         /\ \/ UNCHANGED stages
            \/ \E m \in Ids : stages' = [stages EXCEPT ![This] = m]
         /\ \/ UNCHANGED task
            \/ /\ task' = [task EXCEPT ![w] = task'[w]]
               /\ task'[w].id = This
               /\ task'[w].pc \in {"complete", "intervene", "act", "observe",
                                   "finding", "profile"}
               /\ task'[w].pc = "complete" =>
                     /\ missions'[task'[w].on] # Absent
                     /\ task'[w].row.status = "VERIFIED"
<1>1. Accept(w)
  BY DEF Request, CreateMission, RecordMissionStage, CompleteMission,
         CreateCausalHypothesis, Intervene, Expect, ObserveForecast,
         MetacognitiveReview, UpdateModelProfile, RouteModel, Arrive, ArriveAt
<1>2. UNCHANGED credits
  BY DEF Request, CreateMission, RecordMissionStage, CompleteMission,
         CreateCausalHypothesis, Intervene, Expect, ObserveForecast,
         MetacognitiveReview, UpdateModelProfile, RouteModel, missionTables
<1>3. \/ UNCHANGED missions
      \/ missions' = [missions EXCEPT ![This] =
                        [status |-> "AVAILABLE", evidence |-> {}]]
  BY DEF Request, CreateMission, RecordMissionStage, CompleteMission,
         CreateCausalHypothesis, Intervene, Expect, ObserveForecast,
         MetacognitiveReview, UpdateModelProfile, RouteModel, missionTables
<1>4. \/ UNCHANGED stages
      \/ \E m \in Ids : stages' = [stages EXCEPT ![This] = m]
  BY DEF Request, CreateMission, RecordMissionStage, CompleteMission,
         CreateCausalHypothesis, Intervene, Expect, ObserveForecast,
         MetacognitiveReview, UpdateModelProfile, RouteModel, missionTables
<1>5. ASSUME NEW m \in Ids, CompleteMission(w, m)
      PROVE  /\ task' = [task EXCEPT ![w] = task'[w]]
             /\ task'[w].id = This /\ task'[w].pc = "complete"
             /\ missions'[task'[w].on] # Absent
             /\ task'[w].row.status = "VERIFIED"
  BY <1>5 DEF CompleteMission, Goto, missionTables, TypeOK
<1>6. \/ UNCHANGED task
      \/ \E m \in Ids : CompleteMission(w, m)
      \/ /\ task' = [task EXCEPT ![w] = task'[w]]
         /\ task'[w].id = This
         /\ task'[w].pc \in {"intervene", "act", "observe", "finding",
                             "profile"}
  <2> DEFINE Begun ==
         /\ task' = [task EXCEPT ![w] = task'[w]]
         /\ task'[w].id = This
         /\ task'[w].pc \in {"intervene", "act", "observe", "finding",
                             "profile"}
  <2>1. ASSUME NEW h \in Ids, NEW fits \in BOOLEAN, NEW uncontrolled \in {0, 1},
               Intervene(w, h, fits, uncontrolled)
        PROVE  Begun
    BY <2>1 DEF Intervene, Goto, TypeOK
  <2>2. ASSUME NEW d \in Ids, NEW worse \in BOOLEAN,
               ObserveForecast(w, d, worse)
        PROVE  Begun
    BY <2>2 DEF ObserveForecast, Goto, TypeOK
  <2>3. ASSUME NEW level \in {"nothing", "noted", "asks"},
               MetacognitiveReview(w, level)
        PROVE  Begun
    BY <2>3 DEF MetacognitiveReview, Goto, TypeOK
  <2>4. ASSUME NEW m \in Models, UpdateModelProfile(w, m)
        PROVE  Begun
    BY <2>4 DEF UpdateModelProfile, Goto, TypeOK
  <2>6. ASSUME NEW kind \in {"decision", "prediction"}, Expect(w, kind)
        PROVE  UNCHANGED task \/ Begun
    BY <2>6 DEF Expect, Goto, TypeOK
  <2> HIDE DEF Begun
  <2>5. \/ UNCHANGED task \/ Begun
        \/ \E m \in Ids : CompleteMission(w, m)
    BY <2>1, <2>2, <2>3, <2>4, <2>6
    DEF Request, CreateMission, RecordMissionStage, CreateCausalHypothesis,
        RouteModel
  <2> QED
    BY <2>5 DEF Begun
<1>7. This \in Ids
  BY <1>1, RecordsAssumption DEF Accept, This, Ids, TypeOK
<1> QED
  BY <1>1, <1>2, <1>3, <1>4, <1>5, <1>6, <1>7 DEF Accept

LEMMA RequestCredit ==
  ASSUME TypeOK, CreditInv, NEW w \in Workers, Request(w)
  PROVE  CreditInv'
<1>1. made \in Nat /\ This = made + 1 /\ This > made
  BY RecordsAssumption DEF TypeOK, This
<1>2. missions[This] = Absent /\ stages[This] = 0
  BY <1>1, RequestEffect DEF CreditInv, NumbersInOrder
<1>3. Grown
  BY <1>2, RequestEffect DEF Grown, Completed, TypeOK, Absent
<1>4. \A c \in credits : c.report # This
  BY <1>1, RequestEffect DEF CreditInv, NumbersInOrder
<1>5. \A v \in Workers : v # w => task'[v] = task[v]
  BY RequestEffect DEF TypeOK
<1>6. CreditTaskSound(w)'
  <2>1. CASE UNCHANGED task
    BY <1>3, <2>1, RequestEffect, OthersSound
  <2>2. CASE ~UNCHANGED task
    <3>1. /\ task'[w].id = This
          /\ task'[w].pc \in {"complete", "intervene", "act", "observe", "finding",
                              "profile"}
          /\ task'[w].pc = "complete" =>
                /\ missions'[task'[w].on] # Absent
                /\ task'[w].row.status = "VERIFIED"
      BY <2>2, RequestEffect DEF TypeOK
    <3> QED
      BY <1>4, <3>1, RequestEffect DEF CreditTaskSound, At, IsIdle
  <2> QED
    BY <2>1, <2>2
<1>7. \A v \in Workers : CreditTaskSound(v)'
  BY <1>3, <1>5, <1>6, RequestEffect, OthersSound
<1>8. NumbersInOrder'
  <2>1. \A i \in Ids : i > made' => /\ missions'[i] = Absent /\ stages'[i] = 0
                                    /\ \A c \in credits' : c.report # i
    <3> SUFFICES ASSUME NEW i \in Ids, i > made'
                 PROVE  /\ missions'[i] = Absent /\ stages'[i] = 0
                        /\ \A c \in credits' : c.report # i
      OBVIOUS
    <3>1. i > made /\ i # This
      BY <1>1, RequestEffect, RecordsAssumption DEF Ids
    <3>2. /\ missions[i] = Absent /\ stages[i] = 0
          /\ \A c \in credits : c.report # i
      BY <3>1 DEF CreditInv, NumbersInOrder
    <3>3. missions'[i] = missions[i] /\ stages'[i] = stages[i]
      BY <3>1, RequestEffect DEF TypeOK
    <3> QED
      BY <3>2, <3>3, RequestEffect
  <2>2. \A v \in Workers : ~IsIdle(v) => task[v].id <= made /\ task[v].id \in Nat
    BY TaskShape, RecordsAssumption DEF CreditInv, NumbersInOrder, Ids
  <2>3. ~IsIdle(w)' => task'[w].id = This
    BY RequestEffect DEF TypeOK, IsIdle, At
  <2>4. \A v \in Workers : ~IsIdle(v)' => task'[v].id <= made'
    BY <1>1, <1>5, <2>2, <2>3, RequestEffect DEF IsIdle, At
  <2>5. \A v \in Workers : v # w /\ ~IsIdle(v)' => task'[v].id # This
    BY <1>1, <1>5, <2>2 DEF IsIdle, At
  <2>6. \A u, v \in Workers :
           ~IsIdle(u)' /\ ~IsIdle(v)' /\ task'[u].id = task'[v].id => u = v
    BY <1>5, <2>3, <2>5 DEF CreditInv, NumbersInOrder, IsIdle, At
  <2> QED
    BY <2>1, <2>4, <2>6 DEF NumbersInOrder
<1>9. \A i \in UnderWay : i \in UnderWay'
  BY <1>5, RequestEffect DEF UnderWay, IsIdle, At
<1> QED
  BY <1>3, <1>7, <1>8, <1>9, RequestEffect, CreditLeft DEF CreditInv
\* Numbers stay in order when a handler keeps its number or ends.
LEMMA NumbersKept ==
  ASSUME TypeOK, CreditInv, Grown, NEW w \in Workers, ~IsIdle(w), NEW t,
         task' = [task EXCEPT ![w] = t], t = Idle \/ t.id = task[w].id,
         UNCHANGED <<made, stages>>,
         \A i \in Ids : i > made => missions'[i] = missions[i],
         \A c \in credits' \ credits : c.report = task[w].id
  PROVE  NumbersInOrder'
<1>1. \A v \in Workers : v # w => task'[v] = task[v]
  BY DEF TypeOK
<1>2. ~IsIdle(w)' => task'[w].id = task[w].id
  BY DEF TypeOK, IsIdle, At, Idle
<1>3. task[w].id \in Ids /\ task[w].id <= made /\ made \in Nat
  BY TaskShape, RecordsAssumption DEF CreditInv, NumbersInOrder, TypeOK
<1>4. \A i \in Ids : i > made' => /\ missions'[i] = Absent /\ stages'[i] = 0
                                  /\ \A c \in credits' : c.report # i
  BY <1>3, RecordsAssumption DEF CreditInv, NumbersInOrder, Ids
<1>5. \A v \in Workers : ~IsIdle(v)' => ~IsIdle(v) /\ task'[v].id = task[v].id
  BY <1>1, <1>2 DEF IsIdle, At
<1> QED
  BY <1>4, <1>5 DEF CreditInv, NumbersInOrder

\* A handler that pays nobody goes on or ends, or one stops.
LEMMA QuietCredit ==
  ASSUME TypeOK, CreditInv, NEW w \in Workers, ~IsIdle(w), NEW t,
         task' = [task EXCEPT ![w] = t],
         UNCHANGED <<missionTables, made>>,
         \/ t = Idle /\ stopped' = stopped \cup {task[w].id}
         \/ t = Idle /\ UNCHANGED stopped /\ ~At(w, "credit")
         \/ /\ t.id = task[w].id /\ UNCHANGED stopped /\ ~At(w, "credit")
            /\ t.pc \in {"intervention", "finding", "reflect", "propose"}
  PROVE  CreditInv'
<1>1. Grown
  BY DEF Grown, missionTables, Completed
<1>2. \A v \in Workers : v # w => task'[v] = task[v]
  BY DEF TypeOK
<1>4. NumbersInOrder'
  BY <1>1, NumbersKept DEF missionTables
<1>5. \A i \in UnderWay : \/ i \in UnderWay' \cup stopped'
                          \/ \A c \in credits : c.report # i
  BY <1>2 DEF CreditInv, CreditTaskSound, UnderWay, IsIdle, At
<1>6. CreditIsDue'
  BY <1>1, <1>5, CreditLeft DEF missionTables
<1>7. \A v \in Workers : v # w => CreditTaskSound(v)'
  BY <1>1, <1>2, OthersSound DEF missionTables
<1>8. CreditTaskSound(w)'
  <2>1. task'[w] = t
    BY DEF TypeOK
  <2>2. CASE t = Idle
    BY <2>1, <2>2 DEF CreditTaskSound, IsIdle, At, Idle
  <2>3. CASE t.id = task[w].id /\ t.pc \in {"intervention", "finding", "reflect", "propose"}
            /\ ~At(w, "credit")
    BY <2>1, <2>3 DEF CreditInv, CreditTaskSound, IsIdle, At, missionTables
  <2> QED
    BY <2>2, <2>3
<1> QED
  BY <1>4, <1>6, <1>7, <1>8 DEF CreditInv

LEMMA SaveMissionCredit ==
  ASSUME TypeOK, CreditInv, NEW w \in Workers, SaveMission(w)
  PROVE  CreditInv'
<1> DEFINE m == task[w].on
           t == [pc |-> "stages", id |-> task[w].id, on |-> m]
<1>1. /\ m \in Ids /\ task[w].row \in Mission
      /\ task[w].row.status = "VERIFIED"
      /\ missions[m] # Absent /\ ~(m > made)
      /\ ~IsIdle(w) /\ \A c \in credits : c.report # task[w].id
  BY TaskShape
  DEF SaveMission, CompleteTask, CreditInv, CreditTaskSound, NumbersInOrder,
      IsIdle, At
<1>2. /\ missions' = [missions EXCEPT ![m] = task[w].row]
      /\ task' = [task EXCEPT ![w] = t]
      /\ UNCHANGED <<stages, credits, made, stopped>>
  BY DEF SaveMission, Goto, requestState
<1>3. t.pc = "stages" /\ t.id = task[w].id /\ t.on = m
  OBVIOUS
<1> HIDE DEF t
<1>4. task[w].row # Absent
  BY <1>1 DEF Absent
<1>5. /\ missions'[m] = task[w].row
      /\ \A i \in Ids : i # m => missions'[i] = missions[i]
  BY <1>1, <1>2 DEF TypeOK
<1>6. Grown
  BY <1>1, <1>2, <1>4, <1>5 DEF Grown, Completed
<1>7. task'[w] = t /\ \A v \in Workers : v # w => task'[v] = task[v]
  BY <1>2 DEF TypeOK
<1>8. NumbersInOrder'
  <2>1. \A i \in Ids : i > made => missions'[i] = missions[i]
    BY <1>1, <1>5
  <2> QED
    BY <1>1, <1>2, <1>3, <1>6, <2>1, NumbersKept
<1>9. \A v \in Workers : CreditTaskSound(v)'
  <2>1. \A v \in Workers : v # w => CreditTaskSound(v)'
    BY <1>2, <1>6, <1>7, OthersSound
  <2>2. CreditTaskSound(w)'
    BY <1>1, <1>2, <1>3, <1>4, <1>5, <1>7
    DEF CreditTaskSound, Completed, At, IsIdle
  <2> QED
    BY <2>1, <2>2
<1>10. \A i \in UnderWay : i \in UnderWay'
  BY <1>1, <1>3, <1>7 DEF UnderWay, IsIdle, At
<1> QED
  BY <1>2, <1>6, <1>8, <1>9, <1>10, CreditLeft DEF CreditInv

LEMMA ReadStagesCredit ==
  ASSUME TypeOK, CreditInv, NEW w \in Workers, ReadStages(w)
  PROVE  CreditInv'
<1> DEFINE due == StagesOf(task[w].on)
<1>1. /\ task[w].on \in Ids /\ Completed(task[w].on)
      /\ ~IsIdle(w) /\ \A c \in credits : c.report # task[w].id
  BY TaskShape
  DEF ReadStages, StagesTask, CreditInv, CreditTaskSound, IsIdle, At
<1>2. UNCHANGED <<missions, stages, credits, made, stopped>>
  BY DEF ReadStages, missionTables, requestState
<1>3. PICK t : /\ task' = [task EXCEPT ![w] = t]
               /\ \/ t = Idle
                  \/ /\ t = [pc |-> "credit", id |-> task[w].id,
                             on |-> task[w].on,
                             among |-> due, left |-> due]
                     /\ due # {}
  BY DEF ReadStages, Finish, Goto
<1>4. Grown
  BY <1>2 DEF Grown, Completed
<1>5. task'[w] = t /\ \A v \in Workers : v # w => task'[v] = task[v]
  BY <1>3 DEF TypeOK
<1>6. NumbersInOrder'
  <2>1. t = Idle \/ t.id = task[w].id
    BY <1>3
  <2> QED
    BY <1>1, <1>2, <1>3, <1>4, <2>1, NumbersKept
<1>7. \A v \in Workers : v # w => CreditTaskSound(v)'
  BY <1>2, <1>4, <1>5, OthersSound
<1>8. CreditTaskSound(w)'
  <2>1. CASE t = Idle
    BY <1>5, <2>1 DEF CreditTaskSound, IsIdle, At, Idle
  <2>2. CASE t # Idle
    <3>1. /\ t.pc = "credit" /\ t.id = task[w].id
          /\ t.on = task[w].on /\ t.among = due /\ t.left = due
          /\ due # {}
      BY <1>3, <2>2
    <3>2. \A s \in due : stages'[s] = task[w].on
      BY <1>2 DEF StagesOf
    <3> HIDE DEF due
    <3> QED
      BY <1>1, <1>2, <1>5, <3>1, <3>2
      DEF CreditTaskSound, Completed, IsIdle, At
  <2> QED
    BY <2>1, <2>2
<1>9. \A i \in UnderWay : i \in UnderWay' \/ \A c \in credits : c.report # i
  BY <1>1, <1>5 DEF UnderWay, IsIdle, At
<1> QED
  BY <1>2, <1>4, <1>6, <1>7, <1>8, <1>9, CreditLeft DEF CreditInv

LEMMA PayStageCredit ==
  ASSUME TypeOK, CreditInv, NEW w \in Workers, PayStage(w)
  PROVE  CreditInv'
<1> DEFINE Paid(s) == [report |-> task[w].id, mission |-> task[w].on,
                       stage |-> s, among |-> task[w].among]
<1>1. task[w] \in CreditTask /\ ~IsIdle(w)
  BY TaskShape DEF PayStage, IsIdle, At
<1>2. /\ task[w].on \in Ids /\ task[w].among \subseteq Ids
      /\ task[w].id \in Ids
      /\ Completed(task[w].on)
      /\ task[w].left \subseteq task[w].among
      /\ \A s \in task[w].among : stages[s] = task[w].on
      /\ \A c \in credits : c.report = task[w].id =>
            c.mission = task[w].on /\ c.among = task[w].among
      /\ \A s \in task[w].among \ task[w].left : Paid(s) \in credits
  BY <1>1 DEF CreditTask, PayStage, CreditInv, CreditTaskSound
<1>3. PICK s \in task[w].left :
         /\ credits' = credits \cup {Paid(s)}
         /\ IF task[w].left = {s} THEN Finish(w)
            ELSE Goto(w, [task[w] EXCEPT !.left = @ \ {s}])
  BY DEF PayStage
<1>4. UNCHANGED <<missions, stages, made, stopped>>
  BY DEF PayStage, requestState
<1>5. PICK t : /\ task' = [task EXCEPT ![w] = t]
               /\ \/ t = Idle /\ task[w].left = {s}
                  \/ /\ t = [task[w] EXCEPT !.left = @ \ {s}]
                     /\ task[w].left # {s}
  BY <1>3 DEF Finish, Goto
<1>6. \/ t = Idle /\ task[w].left = {s}
      \/ /\ t.pc = "credit" /\ t.id = task[w].id
         /\ t.on = task[w].on /\ t.among = task[w].among
         /\ t.left = task[w].left \ {s} /\ task[w].left # {s}
  BY <1>1, <1>5 DEF CreditTask
<1>7. /\ Paid(s).report = task[w].id /\ Paid(s).mission = task[w].on
      /\ Paid(s).stage = s /\ Paid(s).among = task[w].among
  OBVIOUS
<1>8. \A c \in credits' \ credits : c = Paid(s)
  BY <1>3
<1>9. Grown
  BY <1>3, <1>4 DEF Grown, Completed
<1>10. task'[w] = t /\ \A v \in Workers : v # w => task'[v] = task[v]
  BY <1>5 DEF TypeOK
<1>11. NumbersInOrder'
  <2>1. t = Idle \/ t.id = task[w].id
    BY <1>6
  <2>2. \A c \in credits' \ credits : c.report = task[w].id
    BY <1>8
  <2> QED
    BY <1>1, <1>4, <1>5, <1>9, <2>1, <2>2, NumbersKept
<1>12. \A v \in Workers : v # w => CreditTaskSound(v)'
  <2> SUFFICES ASSUME NEW v \in Workers, v # w PROVE CreditTaskSound(v)'
    OBVIOUS
  <2>1. ~IsIdle(v) => task[v].id # task[w].id
    BY <1>1 DEF CreditInv, NumbersInOrder
  <2>2. \A c \in credits' \ credits : ~IsIdle(v) => c.report # task[v].id
    BY <1>8, <2>1
  <2> QED
    BY <1>9, <1>10, <2>2, OthersSound
<1>13. \A u \in task[w].among \ (task[w].left \ {s}) : Paid(u) \in credits'
  BY <1>2, <1>3
<1>14. \A c \in credits' : c.report = task[w].id =>
          c.mission = task[w].on /\ c.among = task[w].among
  BY <1>2, <1>8
<1>15. CreditTaskSound(w)'
  <2>1. CASE t = Idle
    BY <1>10, <2>1 DEF CreditTaskSound, IsIdle, At, Idle
  <2>2. CASE t # Idle
    <3>1. t.left \subseteq t.among /\ t.left # {}
      BY <1>2, <1>6, <2>2
    <3>2. \A u \in t.among \ t.left :
             [report |-> t.id, mission |-> t.on, stage |-> u,
              among |-> t.among] \in credits'
      BY <1>6, <1>13, <2>2
    <3> QED
      BY <1>2, <1>4, <1>6, <1>10, <1>14, <2>2, <3>1, <3>2
      DEF CreditTaskSound, Completed, IsIdle, At
  <2> QED
    BY <2>1, <2>2
<1>16. CreditIsDue'
  <2>1. \A c \in credits' :
           /\ c.stage \in c.among
           /\ \A u \in c.among : stages'[u] = c.mission
           /\ missions'[c.mission] # Absent
           /\ missions'[c.mission].status = "VERIFIED"
    <3>1. /\ Paid(s).stage \in Paid(s).among
          /\ \A u \in Paid(s).among : stages'[u] = Paid(s).mission
          /\ missions'[Paid(s).mission] # Absent
          /\ missions'[Paid(s).mission].status = "VERIFIED"
      BY <1>2, <1>3, <1>4, <1>7 DEF Completed
    <3> QED
      BY <1>8, <1>9, <3>1, DueKept
  <2>2. SplitOnce'
    <3>1. \A c \in credits' : c \in credits \/ c = Paid(s)
      BY <1>8
    <3> QED
      BY <1>14, <3>1, <1>7 DEF SplitOnce, CreditInv, CreditIsDue
  <2>3. PaidInFull'
    <3> SUFFICES ASSUME NEW c \in credits',
                        c.report \notin UnderWay' \cup stopped',
                        NEW u \in c.among
                 PROVE  [c EXCEPT !.stage = u] \in credits'
      BY DEF PaidInFull
    <3>1. CASE c.report = task[w].id
      <4>1. t = Idle /\ task[w].left = {s}
        BY <1>6, <1>10, <3>1 DEF UnderWay, IsIdle, At
      <4>2. Paid(u) \in credits'
        BY <1>13, <1>14, <3>1, <4>1
      <4>3. c \in Credit
        BY <1>2, <1>7, <1>8, <1>3 DEF TypeOK, Credit
      <4>4. [c EXCEPT !.stage = u] = Paid(u)
        <5>1. [c EXCEPT !.stage = u] = [report |-> c.report,
                 mission |-> c.mission, stage |-> u, among |-> c.among]
          BY <4>3 DEF Credit
        <5> QED
          BY <1>14, <3>1, <5>1
      <4> QED
        BY <4>2, <4>4
    <3>2. CASE c.report # task[w].id
      <4>1. c \in credits
        BY <1>7, <1>8, <3>2
      <4>2. c.report \notin UnderWay
        BY <1>10, <3>2 DEF UnderWay, IsIdle, At
      <4> QED
        BY <1>3, <1>4, <4>1, <4>2 DEF CreditInv, CreditIsDue, PaidInFull
    <3> QED
      BY <3>1, <3>2
  <2> QED
    BY <2>1, <2>2, <2>3 DEF CreditIsDue
<1> QED
  BY <1>11, <1>12, <1>15, <1>16 DEF CreditInv

LEMMA StepCredit ==
  ASSUME TypeOK, CreditInv, [Next]_vars
  PROVE  CreditInv'
<1>1. ASSUME NEW w \in Workers,
             \/ SaveHypothesis(w) \/ StoreIntervention(w) \/ SaveForecast(w)
             \/ StoreFinding(w) \/ Propose(w) \/ SaveProfile(w)
             \/ Act(w) \/ Reflect(w)
      PROVE  CreditInv'
  <2>1. /\ ~IsIdle(w) /\ ~At(w, "credit")
        /\ UNCHANGED <<missionTables, made, stopped>>
    BY <1>1
    DEF SaveHypothesis, StoreIntervention, SaveForecast, StoreFinding, Propose,
        SaveProfile, Act, Reflect, requestState, IsIdle, At
  <2>2. /\ task' = [task EXCEPT ![w] = task'[w]]
        /\ \/ task'[w] = Idle
           \/ /\ task'[w].id = task[w].id
              /\ task'[w].pc \in {"intervention", "finding", "reflect",
                                   "propose"}
    <3>1. CASE SaveHypothesis(w)
      BY <3>1 DEF SaveHypothesis, Goto, TypeOK
    <3>2. CASE SaveForecast(w)
      BY <3>2 DEF SaveForecast, ProposeIf, Goto, Finish, TypeOK
    <3>3. CASE StoreFinding(w)
      BY <3>3 DEF StoreFinding, ProposeIf, Goto, Finish, TypeOK
    <3>4. CASE StoreIntervention(w) \/ Propose(w) \/ SaveProfile(w)
      BY <3>4 DEF StoreIntervention, Propose, SaveProfile, Goto, Finish,
                  TypeOK
    <3>5. CASE Act(w) \/ Reflect(w)
      BY <3>5 DEF Act, Reflect, ProposeIf, Goto, Finish, TypeOK
    <3> QED
      BY <1>1, <3>1, <3>2, <3>3, <3>4, <3>5
  <2> QED
    BY <2>1, <2>2, QuietCredit
<1>2. CASE Crash
  <2>1. PICK w \in Workers : /\ ~IsIdle(w)
                             /\ stopped' = stopped \cup {task[w].id}
                             /\ Finish(w)
    BY <1>2 DEF Crash
  <2>2. UNCHANGED <<missionTables, made>>
    BY <1>2 DEF Crash
  <2> QED
    BY <2>1, <2>2, QuietCredit DEF Finish, Goto
<1>3. CASE UNCHANGED vars
  BY <1>3
  DEF vars, missionTables, requestState, CreditInv, NumbersInOrder,
      CreditTaskSound, CreditIsDue, SplitOnce, PaidInFull, UnderWay, Completed,
      IsIdle, At
<1> QED
  BY <1>1, <1>2, <1>3, RequestCredit, SaveMissionCredit, ReadStagesCredit,
     PayStageCredit DEF Next, Step

(***************************************************************************)
(* Delayed credit is due, split once and paid in full unless its handler   *)
(* stopped, however completions, new stages and stops overlap.             *)
(***************************************************************************)
THEOREM CreditIsPaidOnce == Spec => []CreditIsDue
<1>1. Init => CreditInv
  BY DEF Init, CreditInv, NumbersInOrder, CreditTaskSound, CreditIsDue,
         SplitOnce, PaidInFull, IsIdle, At, Idle
<1>2. CreditInv => CreditIsDue
  BY DEF CreditInv
<1> QED
  BY <1>1, <1>2, StepCredit, RecordsTypeCorrect, PTL DEF Spec

-----------------------------------------------------------------------------
(***************************************************************************)
(* What gets lost.  Rivals stay rivals, so what is accounted for stays so. *)
(***************************************************************************)
LEMMA MetGrows ==
  ASSUME TypeOK, [Next]_vars
  PROVE  met \subseteq met' /\ made \in Nat /\ made' \in Nat /\ made <= made'
<1>1. made \in Nat
  BY RecordsAssumption DEF TypeOK
<1>2. CASE UNCHANGED vars
  BY <1>1, <1>2 DEF vars, requestState
<1>3. CASE Crash
  BY <1>1, <1>3 DEF Crash
<1>4. ASSUME NEW w \in Workers, Request(w)
      PROVE  met \subseteq met' /\ made' = made + 1
  BY <1>4
  DEF Request, CreateMission, RecordMissionStage, CompleteMission,
      CreateCausalHypothesis, Intervene, Expect, ObserveForecast,
      MetacognitiveReview, UpdateModelProfile, RouteModel, Arrive, ArriveAt,
      Accept, This
<1>5. ASSUME NEW w \in Workers, Step(w)
      PROVE  met' = met /\ made' = made
  BY <1>5
  DEF Step, SaveMission, ReadStages, PayStage, SaveHypothesis,
      StoreIntervention, Act, SaveForecast, StoreFinding, Reflect, Propose,
      SaveProfile, requestState
<1> QED
  BY <1>1, <1>2, <1>3, <1>4, <1>5 DEF Next

LEMMA AccountedKept ==
  ASSUME met \subseteq met', NEW here, NEW there, here \subseteq there, NEW i,
         Accounted(i, here)
  PROVE  Accounted(i, there)'
  BY DEF Accounted, Met

\* Requests that are apart after a step were so before it.
LEMMA ApartBefore ==
  ASSUME met \subseteq met', NEW ids, Apart(ids)'
  PROVE  Apart(ids)
  BY DEF Apart, Met

\* A handler comes to write a row only by the request that reads it.
LEMMA WritersStay ==
  ASSUME TypeOK, [Next]_vars, NEW v \in Workers,
         task'[v].pc \in {"complete", "intervene", "profile"}
  PROVE  \/ task'[v] = task[v]
         \/ \E m \in Ids : CompleteMission(v, m)
         \/ \E h \in Ids, fits \in BOOLEAN, uncontrolled \in {0, 1} :
               Intervene(v, h, fits, uncontrolled)
         \/ \E m \in Models : UpdateModelProfile(v, m)
<1>1. CASE UNCHANGED vars
  BY <1>1 DEF vars
<1>2. CASE Crash
  BY <1>2 DEF Crash, Finish, Goto, Idle, TypeOK
<1>3. ASSUME NEW w \in Workers, Step(w)
      PROVE  task'[v] = task[v]
  <2>1. CASE PayStage(w)
    <3>1. task[w] \in CreditTask
      BY <2>1, TaskShape DEF PayStage
    <3> QED
      BY <2>1, <3>1 DEF PayStage, CreditTask, Goto, Finish, Idle, TypeOK
  <2> QED
    BY <1>3, <2>1
    DEF Step, SaveMission, ReadStages, SaveHypothesis, StoreIntervention, Act,
        SaveForecast, StoreFinding, Reflect, Propose, SaveProfile, ProposeIf,
        Goto, Finish, Idle, TypeOK
<1>4. ASSUME NEW w \in Workers, Request(w), task'[v] # task[v]
      PROVE  \/ \E m \in Ids : CompleteMission(v, m)
             \/ \E h \in Ids, fits \in BOOLEAN, uncontrolled \in {0, 1} :
                   Intervene(v, h, fits, uncontrolled)
             \/ \E m \in Models : UpdateModelProfile(v, m)
  BY <1>4
  DEF Request, CreateMission, RecordMissionStage, CreateCausalHypothesis,
      CompleteMission, Intervene, UpdateModelProfile, Expect, ObserveForecast,
      MetacognitiveReview, RouteModel, Goto, TypeOK
<1> QED
  BY <1>1, <1>2, <1>3, <1>4 DEF Next

LEMMA StepRivals ==
  ASSUME TypeOK, RivalsMet, [Next]_vars
  PROVE  RivalsMet'
<1> SUFFICES ASSUME NEW v \in Workers, NEW w \in Workers, v # w,
                    task'[v].pc = task'[w].pc, task'[v].on = task'[w].on,
                    task'[v].pc \in {"complete", "intervene", "profile"}
             PROVE  Met(task[v].id, task[w].id)'
  BY DEF RivalsMet
<1>1. CASE task'[v] = task[v] /\ task'[w] = task[w]
  BY <1>1, MetGrows DEF RivalsMet, Met
<1>2. ASSUME NEW u \in Workers, NEW x \in Workers, u # x,
             task'[u].pc = task'[x].pc, task'[u].on = task'[x].on,
             NEW pc, ArriveAt(u, pc, task'[u].on),
             task'[u].pc = pc, task'[u].id = This, task'[x] = task[x]
      PROVE  <<task'[x].id, task'[u].id>> \in met'
  BY <1>2 DEF ArriveAt, Writers, At
<1>3. ASSUME NEW u \in Workers,
             \/ \E m \in Ids : CompleteMission(u, m)
             \/ \E h \in Ids, fits \in BOOLEAN, uncontrolled \in {0, 1} :
                   Intervene(u, h, fits, uncontrolled)
             \/ \E m \in Models : UpdateModelProfile(u, m)
      PROVE  /\ \E pc : /\ ArriveAt(u, pc, task'[u].on)
                        /\ task'[u].pc = pc /\ task'[u].id = This
             /\ \A x \in Workers : x # u => task'[x] = task[x]
  <2>1. CASE \E m \in Ids : CompleteMission(u, m)
    BY <2>1 DEF CompleteMission, Goto, TypeOK
  <2>2. CASE \E h \in Ids, fits \in BOOLEAN, uncontrolled \in {0, 1} :
                Intervene(u, h, fits, uncontrolled)
    BY <2>2 DEF Intervene, Goto, TypeOK
  <2>3. CASE \E m \in Models : UpdateModelProfile(u, m)
    BY <2>3 DEF UpdateModelProfile, Goto, TypeOK
  <2> QED
    BY <1>3, <2>1, <2>2, <2>3
<1>4. CASE task'[v] # task[v]
  BY <1>2, <1>3, <1>4, WritersStay DEF Met
<1>5. CASE task'[w] # task[w]
  BY <1>2, <1>3, <1>5, WritersStay DEF Met
<1> QED
  BY <1>1, <1>4, <1>5

\* Completions are saved by SaveMission only.
LEMMA CompletionsSaved ==
  ASSUME TypeOK, [Next]_vars, \A w \in Workers : ~SaveMission(w), NEW x \in Ids
  PROVE  CompletedBy(x)' \subseteq CompletedBy(x)
<1> DEFINE Late == {"stages", "credit"}
<1>1. ASSUME NEW v \in Workers, task'[v].pc \in Late
      PROVE  task[v].pc \in Late /\ task'[v].id = task[v].id
             /\ task'[v].on = task[v].on
  <2>1. CASE task'[v] = task[v]
    BY <1>1, <2>1
  <2>2. CASE \E w \in Workers : PayStage(w)
    <3>1. PICK w \in Workers : PayStage(w)
      BY <2>2
    <3>2. task[w] \in CreditTask
      BY <3>1, TaskShape DEF PayStage
    <3> QED
      BY <1>1, <3>1, <3>2 DEF PayStage, CreditTask, At, Goto, Finish, Idle, TypeOK
  <2>3. CASE \E w \in Workers : ReadStages(w)
    BY <1>1, <2>3 DEF ReadStages, At, Goto, Finish, Idle, TypeOK
  <2>4. CASE Crash
    BY <1>1, <2>4 DEF Crash, Finish, Goto, Idle, TypeOK
  <2>5. ASSUME NEW w \in Workers, Request(w), task'[v] # task[v]
        PROVE  task'[v].pc \notin Late
    BY <2>5
    DEF Request, CreateMission, RecordMissionStage, CreateCausalHypothesis,
        CompleteMission, Intervene, UpdateModelProfile, Expect,
        ObserveForecast, MetacognitiveReview, RouteModel, Goto, TypeOK
  <2>6. ASSUME NEW w \in Workers, Step(w), ~PayStage(w), ~ReadStages(w),
               task'[v] # task[v]
        PROVE  task'[v].pc \notin Late
    BY <2>6
    DEF Step, SaveHypothesis, StoreIntervention, Act, SaveForecast,
        StoreFinding, Reflect, Propose, SaveProfile, ProposeIf,
        Goto, Finish, Idle, TypeOK
  <2> QED
    BY <1>1, <2>1, <2>2, <2>3, <2>4, <2>5, <2>6 DEF Next, vars
<1>2. ASSUME NEW c \in credits' \ credits
      PROVE  \E w \in Workers : /\ task[w].pc = "credit"
                                /\ c.report = task[w].id
                                /\ c.mission = task[w].on
  <2>1. PICK w \in Workers : PayStage(w)
    BY <1>2, RequestWrites, StepWrites, CrashWrites
    DEF Next, vars, missionTables
  <2>2. PICK s : c = [report |-> task[w].id, mission |-> task[w].on,
                      stage |-> s, among |-> task[w].among]
    BY <1>2, <2>1 DEF PayStage
  <2> QED
    BY <2>1, <2>2 DEF PayStage, At
<1> SUFFICES ASSUME NEW i \in CompletedBy(x)' PROVE i \in CompletedBy(x)
  OBVIOUS
<1>3. CASE \E v \in Workers : /\ task'[v].pc \in Late /\ task'[v].on = x
                              /\ i = task'[v].id
  BY <1>1, <1>3 DEF CompletedBy, Writers, At
<1>4. CASE \E c \in credits' : c.mission = x /\ i = c.report
  BY <1>2, <1>4 DEF CompletedBy, Writers, At
<1> QED
  BY <1>3, <1>4 DEF CompletedBy, Writers, At

\* A mission that another step does not touch.
LEMMA MissionsQuiet ==
  ASSUME TypeOK, MissionsAccount, [Next]_vars, UNCHANGED missions,
         \A w \in Workers : ~SaveMission(w) /\ \A m \in Ids : ~CompleteMission(w, m)
  PROVE  MissionsAccount'
<1>1. met \subseteq met' /\ \A i \in Ids : i > made' => i > made
  BY MetGrows DEF Ids
<1>2. \A x \in Ids : CompletedBy(x)' \subseteq CompletedBy(x)
  BY CompletionsSaved
<1>3. \A w \in Workers : task'[w].pc = "complete" => task'[w] = task[w]
  BY WritersStay DEF Intervene, UpdateModelProfile, Goto, TypeOK
<1>4. \A w \in Workers : task[w].pc = "complete" => task[w].on \in Ids
  BY TaskShape DEF At, CompleteTask
<1> QED
  BY <1>1, <1>2, <1>3, <1>4, AccountedKept DEF MissionsAccount, At

LEMMA StepMissions ==
  ASSUME TypeOK, MissionsAccount, RivalsMet, [Next]_vars
  PROVE  MissionsAccount'
<1>1. met \subseteq met' /\ \A i \in Ids : i > made' => i > made
  BY MetGrows DEF Ids
<1>2. ASSUME NEW w \in Workers, CreateMission(w)
      PROVE  MissionsAccount'
  <2> DEFINE new == [status |-> "AVAILABLE", evidence |-> {}]
  <2>1. /\ This \in Ids /\ This > made /\ made' = This /\ missions[This] = Absent
        /\ missions' = [missions EXCEPT ![This] = new]
        /\ task' = task
    BY <1>2, ArriveType, MetGrows DEF CreateMission, MissionsAccount, This
  <2>2. \A x \in Ids : CompletedBy(x)' \subseteq CompletedBy(x)
    <3>1. \A v \in Workers : ~SaveMission(v)
      BY <2>1, MetGrows DEF SaveMission, requestState
    <3> QED
      BY <3>1, CompletionsSaved
  <2>3. \A x \in Ids : x # This => missions'[x] = missions[x]
    BY <2>1 DEF TypeOK
  <2>4. \A x \in Ids : x = This => CompletedBy(x)' = {}
    BY <2>1, <2>2 DEF MissionsAccount
  <2>5. \A w2 \in Workers : At(w2, "complete") =>
            task[w2].on \in Ids /\ task[w2].on # This
    BY <2>1, TaskShape DEF MissionsAccount, CompleteTask
  <2>6. \A i \in Ids : i > made' => missions'[i] = Absent
    BY <1>1, <2>1, <2>3, MetGrows DEF MissionsAccount, Ids
  <2> QED
    BY <1>1, <2>1, <2>2, <2>3, <2>4, <2>5, <2>6, AccountedKept
    DEF MissionsAccount, At
<1>3. ASSUME NEW w \in Workers, NEW m \in Ids, CompleteMission(w, m)
      PROVE  MissionsAccount'
  <2> DEFINE row == [status |-> "VERIFIED",
                     evidence |-> missions[m].evidence \cup {This}]
             t == [pc |-> "complete", id |-> This, on |-> m, row |-> row]
  <2>1. /\ task' = [task EXCEPT ![w] = t] /\ missions' = missions
        /\ missions[m] # Absent
    BY <1>3 DEF CompleteMission, Goto, missionTables
  <2>2. t.pc = "complete" /\ t.id = This /\ t.on = m /\ t.row = row
        /\ row.evidence = missions[m].evidence \cup {This}
    OBVIOUS
  <2> HIDE DEF t, row
  <2>3. task'[w] = t /\ \A v \in Workers : v # w => task'[v] = task[v]
    BY <2>1 DEF TypeOK
  <2>4. \A x \in Ids : CompletedBy(x)' \subseteq CompletedBy(x)
    <3>1. \A v \in Workers : ~SaveMission(v)
      BY <2>1, <2>2, <2>3, <1>3
      DEF SaveMission, CompleteMission, ArriveAt, Accept, IsIdle, At, Goto, TypeOK
    <3> QED
      BY <3>1, CompletionsSaved
  <2>5. \A v \in Workers : At(v, "complete") => task[v].on \in Ids
    BY TaskShape DEF CompleteTask
  <2>6. \A S : S = row.evidence =>
           \A i \in CompletedBy(m)' : Accounted(i, S)'
    BY <1>1, <2>1, <2>2, <2>4, AccountedKept DEF MissionsAccount
  <2>7. ASSUME NEW v \in Workers, task'[v].pc = "complete"
        PROVE  /\ task'[v].id \in task'[v].row.evidence
               /\ missions'[task'[v].on] # Absent
               /\ \A i \in CompletedBy(task[v].on)' :
                     Accounted(i, task[v].row.evidence)'
    <3>1. CASE v = w
      BY <2>1, <2>2, <2>3, <2>6, <3>1
    <3>2. CASE v # w
      <4>1. task'[v] = task[v] /\ At(v, "complete") /\ task[v].on \in Ids
        BY <2>3, <2>5, <2>7, <3>2 DEF At
      <4>2. \A i \in CompletedBy(task[v].on) :
               Accounted(i, task[v].row.evidence)'
        BY <1>1, <4>1, AccountedKept DEF MissionsAccount
      <4> QED
        BY <2>1, <2>4, <4>1, <4>2 DEF MissionsAccount
    <3> QED
      BY <3>1, <3>2
  <2>8. \A x \in Ids : \A i \in CompletedBy(x)' :
           missions'[x] # Absent /\ Accounted(i, missions[x].evidence)'
    BY <1>1, <2>1, <2>4, AccountedKept DEF MissionsAccount
  <2> QED
    BY <1>1, <2>1, <2>7, <2>8 DEF MissionsAccount, At
<1>4. ASSUME NEW w \in Workers, SaveMission(w)
      PROVE  MissionsAccount'
  <2> DEFINE m == task[w].on
             t == [pc |-> "stages", id |-> task[w].id, on |-> m]
  <2>1. /\ m \in Ids /\ task[w].row \in Mission /\ At(w, "complete")
        /\ missions' = [missions EXCEPT ![m] = task[w].row]
        /\ task' = [task EXCEPT ![w] = t]
        /\ UNCHANGED <<credits, made, met>>
    BY <1>4, TaskShape DEF SaveMission, CompleteTask, Goto, requestState
  <2>2. t.pc = "stages" /\ t.id = task[w].id /\ t.on = m
    OBVIOUS
  <2> HIDE DEF t
  <2>3. task'[w] = t /\ \A v \in Workers : v # w => task'[v] = task[v]
    BY <2>1 DEF TypeOK
  <2>4. /\ missions'[m] = task[w].row /\ task[w].row # Absent
        /\ \A x \in Ids : x # m => missions'[x] = missions[x]
    BY <2>1 DEF TypeOK, Mission, Absent
  <2>5. \A x \in Ids : CompletedBy(x)' \subseteq
           CompletedBy(x) \cup (IF x = m THEN {task[w].id} ELSE {})
    BY <2>1, <2>2, <2>3 DEF CompletedBy, Writers, At
  <2>6. \A i, S : Accounted(i, S)' <=> Accounted(i, S)
    BY <2>1 DEF Accounted, Met
  <2>7. \A x \in Ids : \A i \in CompletedBy(x)' :
           missions'[x] # Absent /\ Accounted(i, missions'[x].evidence)
    <3>1. ASSUME NEW i \in CompletedBy(m) \cup {task[w].id}
          PROVE  Accounted(i, task[w].row.evidence)
      BY <2>1, <3>1 DEF MissionsAccount, Accounted
    <3> QED
      BY <2>4, <2>5, <3>1 DEF MissionsAccount
  <2>8. ASSUME NEW v \in Workers, task'[v].pc = "complete"
        PROVE  /\ task'[v].id \in task'[v].row.evidence
               /\ missions'[task'[v].on] # Absent
               /\ \A i \in CompletedBy(task[v].on)' :
                     Accounted(i, task'[v].row.evidence)
    <3>1. v # w /\ task'[v] = task[v] /\ At(v, "complete") /\ task[v].on \in Ids
      BY <2>2, <2>3, <2>8, TaskShape DEF At, CompleteTask
    <3>2. /\ task[v].id \in task[v].row.evidence
          /\ missions'[task[v].on] # Absent
          /\ \A i \in CompletedBy(task[v].on) :
                Accounted(i, task[v].row.evidence)
      BY <2>4, <3>1 DEF MissionsAccount
    <3>3. task[v].on = m => Met(task[w].id, task[v].id)
      BY <2>1, <3>1 DEF RivalsMet, At
    <3>4. task[v].on = m => Accounted(task[w].id, task[v].row.evidence)
      BY <3>2, <3>3 DEF Accounted
    <3> QED
      BY <2>5, <3>1, <3>2, <3>4
  <2>9. \A i \in Ids : i > made' => missions'[i] = Absent
    <3>1. missions[m] # Absent
      BY <2>1 DEF MissionsAccount
    <3> QED
      BY <2>1, <2>4, <3>1 DEF MissionsAccount
  <2> QED
    BY <2>6, <2>7, <2>8, <2>9 DEF MissionsAccount, At
<1>5. CASE \A w \in Workers : /\ ~CreateMission(w) /\ ~SaveMission(w)
                              /\ \A m \in Ids : ~CompleteMission(w, m)
  <2>1. UNCHANGED missions
    BY <1>5, RequestWrites, StepWrites, CrashWrites DEF Next, vars, missionTables
  <2> QED
    BY <1>5, <2>1, MissionsQuiet
<1> QED
  BY <1>2, <1>3, <1>4, <1>5

\* Interventions are saved by SaveHypothesis only.
LEMMA InterventionsSaved ==
  ASSUME TypeOK, [Next]_vars, \A w \in Workers : ~SaveHypothesis(w), NEW x \in Ids
  PROVE  IntervenedBy(x)' \subseteq IntervenedBy(x)
<1>1. ASSUME NEW v \in Workers, task'[v].pc = "intervention"
      PROVE  task'[v] = task[v]
  <2>1. ASSUME NEW w \in Workers, PayStage(w)
        PROVE  task'[v] = task[v]
    <3>1. task[w] \in CreditTask
      BY <2>1, TaskShape DEF PayStage
    <3> QED
      BY <1>1, <2>1, <3>1 DEF PayStage, CreditTask, Goto, Finish, Idle, TypeOK
  <2>2. CASE Crash
    BY <1>1, <2>2 DEF Crash, Finish, Goto, Idle, TypeOK
  <2>3. ASSUME NEW w \in Workers, Request(w)
        PROVE  task'[v] = task[v]
    BY <1>1, <2>3
    DEF Request, CreateMission, RecordMissionStage, CreateCausalHypothesis,
        CompleteMission, Intervene, UpdateModelProfile, Expect,
        ObserveForecast, MetacognitiveReview, RouteModel, Goto, TypeOK
  <2>4. ASSUME NEW w \in Workers, Step(w), ~PayStage(w)
        PROVE  task'[v] = task[v]
    BY <1>1, <2>4
    DEF Step, SaveMission, ReadStages, SaveHypothesis, StoreIntervention, Act,
        SaveForecast, StoreFinding, Reflect, Propose, SaveProfile, ProposeIf,
        Goto, Finish, Idle, TypeOK
  <2> QED
    BY <2>1, <2>2, <2>3, <2>4 DEF Next, vars
<1>2. ASSUME NEW c \in interventions' \ interventions
      PROVE  \E w \in Workers : /\ task[w].pc = "intervention"
                                /\ c.id = task[w].id
                                /\ c.hypothesis = task[w].on
  <2>1. PICK w \in Workers : StoreIntervention(w)
    BY <1>2, RequestWrites, StepWrites, CrashWrites
    DEF Next, vars, causalTables
  <2>2. c = [id |-> task[w].id, hypothesis |-> task[w].on]
    BY <1>2, <2>1 DEF StoreIntervention
  <2> QED
    BY <2>1, <2>2 DEF StoreIntervention, At
<1> SUFFICES ASSUME NEW i \in IntervenedBy(x)' PROVE i \in IntervenedBy(x)
  OBVIOUS
<1>3. CASE \E v \in Workers : /\ task'[v].pc = "intervention"
                              /\ task'[v].on = x /\ i = task'[v].id
  BY <1>1, <1>3 DEF IntervenedBy, Writers, At
<1>4. CASE \E c \in interventions' : c.hypothesis = x /\ i = c.id
  BY <1>2, <1>4 DEF IntervenedBy, Writers, At
<1> QED
  BY <1>3, <1>4 DEF IntervenedBy, Writers, At

\* A hypothesis that another step does not touch.
LEMMA HypothesesQuiet ==
  ASSUME TypeOK, HypothesesAccount, [Next]_vars, UNCHANGED hypotheses,
         \A w \in Workers : /\ ~SaveHypothesis(w)
                            /\ \A h \in Ids, fits \in BOOLEAN,
                                  uncontrolled \in {0, 1} :
                                     ~Intervene(w, h, fits, uncontrolled)
  PROVE  HypothesesAccount'
<1>1. met \subseteq met' /\ \A i \in Ids : i > made' => i > made
  BY MetGrows DEF Ids
<1>2. \A x \in Ids : IntervenedBy(x)' \subseteq IntervenedBy(x)
  BY InterventionsSaved
<1>3. \A w \in Workers : task'[w].pc = "intervene" => task'[w] = task[w]
  BY WritersStay DEF CompleteMission, UpdateModelProfile, Goto, TypeOK
<1>4. \A w \in Workers : task[w].pc = "intervene" => task[w].on \in Ids
  BY TaskShape DEF At, InterveneTask
<1> QED
  BY <1>1, <1>2, <1>3, <1>4, AccountedKept DEF HypothesesAccount, At

LEMMA StepHypotheses ==
  ASSUME TypeOK, HypothesesAccount, RivalsMet, [Next]_vars
  PROVE  HypothesesAccount'
<1>1. met \subseteq met' /\ \A i \in Ids : i > made' => i > made
  BY MetGrows DEF Ids
<1>2. ASSUME NEW w \in Workers, CreateCausalHypothesis(w)
      PROVE  HypothesesAccount'
  <2> DEFINE new == [status |-> "AVAILABLE", confidence |-> Certain \div 2,
                     seen |-> {}, against |-> {}]
  <2>1. /\ This \in Ids /\ This > made /\ made' = This
        /\ hypotheses[This] = Absent
        /\ hypotheses' = [hypotheses EXCEPT ![This] = new]
        /\ task' = task
    BY <1>2, ArriveType, MetGrows
    DEF CreateCausalHypothesis, HypothesesAccount, This
  <2> HIDE DEF new
  <2>2. \A x \in Ids : IntervenedBy(x)' \subseteq IntervenedBy(x)
    <3>1. \A v \in Workers : ~SaveHypothesis(v)
      BY <2>1, MetGrows DEF SaveHypothesis, requestState
    <3> QED
      BY <3>1, InterventionsSaved
  <2>3. \A x \in Ids : x # This => hypotheses'[x] = hypotheses[x]
    BY <2>1 DEF TypeOK
  <2>4. \A x \in Ids : x = This => IntervenedBy(x)' = {}
    BY <2>1, <2>2 DEF HypothesesAccount
  <2>5. \A v \in Workers : At(v, "intervene") =>
            task[v].on \in Ids /\ task[v].on # This
    BY <2>1, TaskShape DEF HypothesesAccount, InterveneTask
  <2>6. \A i \in Ids : i > made' => hypotheses'[i] = Absent
    BY <1>1, <2>1, <2>3, MetGrows DEF HypothesesAccount, Ids
  <2> QED
    BY <1>1, <2>1, <2>2, <2>3, <2>4, <2>5, <2>6, AccountedKept
    DEF HypothesesAccount, At
<1>3. ASSUME NEW w \in Workers, NEW h \in Ids, NEW fits \in BOOLEAN,
             NEW uncontrolled \in {0, 1}, Intervene(w, h, fits, uncontrolled)
      PROVE  HypothesesAccount'
  <2>1. PICK row \in Revised(hypotheses[h], This, fits, uncontrolled) :
           /\ hypotheses[h] # Absent /\ hypotheses' = hypotheses
           /\ task' = [task EXCEPT ![w] = [pc |-> "intervene", id |-> This,
                                          on |-> h, row |-> row]]
    BY <1>3 DEF Intervene, Goto, causalTables
  <2> DEFINE t == [pc |-> "intervene", id |-> This, on |-> h, row |-> row]
  <2>2. t.pc = "intervene" /\ t.id = This /\ t.on = h /\ t.row = row
    OBVIOUS
  <2> HIDE DEF t
  <2>3. row.seen = hypotheses[h].seen \cup {This}
    BY DEF Revised
  <2>4. task'[w] = t /\ \A v \in Workers : v # w => task'[v] = task[v]
    BY <2>1 DEF TypeOK, t
  <2>5. \A x \in Ids : IntervenedBy(x)' \subseteq IntervenedBy(x)
    <3>1. \A v \in Workers : ~SaveHypothesis(v)
      BY <2>2, <2>4, <1>3
      DEF SaveHypothesis, Intervene, ArriveAt, Accept, IsIdle, At, Goto, TypeOK
    <3> QED
      BY <3>1, InterventionsSaved
  <2>6. \A v \in Workers : At(v, "intervene") => task[v].on \in Ids
    BY TaskShape DEF InterveneTask
  <2>7. \A i \in IntervenedBy(h)' : Accounted(i, row.seen)'
    BY <1>1, <2>1, <2>3, <2>5, AccountedKept DEF HypothesesAccount
  <2>8. ASSUME NEW v \in Workers, task'[v].pc = "intervene"
        PROVE  /\ task'[v].id \in task'[v].row.seen
               /\ hypotheses'[task'[v].on] # Absent
               /\ \A i \in IntervenedBy(task[v].on)' :
                     Accounted(i, task[v].row.seen)'
    <3>1. CASE v = w
      BY <2>1, <2>2, <2>3, <2>4, <2>7, <3>1
    <3>2. CASE v # w
      <4>1. task'[v] = task[v] /\ At(v, "intervene") /\ task[v].on \in Ids
        BY <2>4, <2>6, <2>8, <3>2 DEF At
      <4>2. \A i \in IntervenedBy(task[v].on) :
               Accounted(i, task[v].row.seen)'
        BY <1>1, <4>1, AccountedKept DEF HypothesesAccount
      <4> QED
        BY <2>1, <2>5, <4>1, <4>2 DEF HypothesesAccount
    <3> QED
      BY <3>1, <3>2
  <2>9. \A x \in Ids : \A i \in IntervenedBy(x)' :
           hypotheses'[x] # Absent /\ Accounted(i, hypotheses[x].seen)'
    BY <1>1, <2>1, <2>5, AccountedKept DEF HypothesesAccount
  <2> QED
    BY <1>1, <2>1, <2>8, <2>9 DEF HypothesesAccount, At
<1>4. ASSUME NEW w \in Workers, SaveHypothesis(w)
      PROVE  HypothesesAccount'
  <2> DEFINE h == task[w].on
             t == [pc |-> "intervention", id |-> task[w].id, on |-> h]
  <2>1. /\ h \in Ids /\ task[w].row \in Hypothesis /\ At(w, "intervene")
        /\ hypotheses' = [hypotheses EXCEPT ![h] = task[w].row]
        /\ task' = [task EXCEPT ![w] = t]
        /\ UNCHANGED <<interventions, made, met>>
    BY <1>4, TaskShape DEF SaveHypothesis, InterveneTask, Goto, requestState
  <2>2. t.pc = "intervention" /\ t.id = task[w].id /\ t.on = h
    OBVIOUS
  <2> HIDE DEF t
  <2>3. task'[w] = t /\ \A v \in Workers : v # w => task'[v] = task[v]
    BY <2>1 DEF TypeOK
  <2>4. /\ hypotheses'[h] = task[w].row /\ task[w].row # Absent
        /\ \A x \in Ids : x # h => hypotheses'[x] = hypotheses[x]
    BY <2>1 DEF TypeOK, Hypothesis, Verdicts, Absent
  <2>5. \A x \in Ids : IntervenedBy(x)' \subseteq
           IntervenedBy(x) \cup (IF x = h THEN {task[w].id} ELSE {})
    BY <2>1, <2>2, <2>3 DEF IntervenedBy, Writers, At
  <2>6. \A i, S : Accounted(i, S)' <=> Accounted(i, S)
    BY <2>1 DEF Accounted, Met
  <2>7. \A x \in Ids : \A i \in IntervenedBy(x)' :
           hypotheses'[x] # Absent /\ Accounted(i, hypotheses'[x].seen)
    <3>1. ASSUME NEW i \in IntervenedBy(h) \cup {task[w].id}
          PROVE  Accounted(i, task[w].row.seen)
      BY <2>1, <3>1 DEF HypothesesAccount, Accounted
    <3> QED
      BY <2>4, <2>5, <3>1 DEF HypothesesAccount
  <2>8. ASSUME NEW v \in Workers, task'[v].pc = "intervene"
        PROVE  /\ task'[v].id \in task'[v].row.seen
               /\ hypotheses'[task'[v].on] # Absent
               /\ \A i \in IntervenedBy(task[v].on)' :
                     Accounted(i, task'[v].row.seen)
    <3>1. /\ v # w /\ task'[v] = task[v] /\ At(v, "intervene")
          /\ task[v].on \in Ids
      BY <2>2, <2>3, <2>8, TaskShape DEF At, InterveneTask
    <3>2. /\ task[v].id \in task[v].row.seen
          /\ hypotheses'[task[v].on] # Absent
          /\ \A i \in IntervenedBy(task[v].on) :
                Accounted(i, task[v].row.seen)
      BY <2>4, <3>1 DEF HypothesesAccount
    <3>3. task[v].on = h => Met(task[w].id, task[v].id)
      BY <2>1, <3>1 DEF RivalsMet, At
    <3>4. task[v].on = h => Accounted(task[w].id, task[v].row.seen)
      BY <3>2, <3>3 DEF Accounted
    <3> QED
      BY <2>5, <3>1, <3>2, <3>4
  <2>9. \A i \in Ids : i > made' => hypotheses'[i] = Absent
    <3>1. hypotheses[h] # Absent
      BY <2>1 DEF HypothesesAccount
    <3> QED
      BY <2>1, <2>4, <3>1 DEF HypothesesAccount
  <2> QED
    BY <2>6, <2>7, <2>8, <2>9 DEF HypothesesAccount, At
<1>5. CASE \A w \in Workers :
              /\ ~CreateCausalHypothesis(w) /\ ~SaveHypothesis(w)
              /\ \A h \in Ids, fits \in BOOLEAN, uncontrolled \in {0, 1} :
                    ~Intervene(w, h, fits, uncontrolled)
  <2>1. ASSUME NEW w \in Workers, Request(w)
        PROVE  UNCHANGED hypotheses
    BY <1>5, <2>1
    DEF Request, CreateMission, RecordMissionStage, CompleteMission,
        UpdateModelProfile, Expect, ObserveForecast, MetacognitiveReview,
        RouteModel, causalTables
  <2>2. ASSUME NEW w \in Workers, Step(w)
        PROVE  UNCHANGED hypotheses
    BY <1>5, <2>2
    DEF Step, SaveMission, ReadStages, PayStage, StoreIntervention, Act,
        SaveForecast, StoreFinding, Reflect, Propose, SaveProfile, causalTables
  <2>3. UNCHANGED hypotheses
    BY <2>1, <2>2 DEF Next, Crash, vars, causalTables
  <2> QED
    BY <1>5, <2>3, HypothesesQuiet
<1> QED
  BY <1>2, <1>3, <1>4, <1>5

\* The rows of a model are places in the sequence of profiles.
LEMMA RowPlaces ==
  ASSUME TypeOK, NEW m
  PROVE  \A i \in RowsOf(m) : /\ i \in Nat \ {0} /\ i <= Len(profiles)
                              /\ profiles[i].model = m
  BY DEF RowsOf, TypeOK

\* Where there is one profile of a model, it is the first and the last.
LEMMA RouteTells ==
  ASSUME TypeOK, NEW m \in Models, OneProfile(m), NEW basis, Known(m, basis)
  PROVE  basis = Told(m)
  BY DEF OneProfile, Known, IsLast

\* Routes are added by route_model() alone.
LEMMA OnlyRouting ==
  ASSUME [Next]_vars, routes' # routes
  PROVE  \E w \in Workers, permitted \in SUBSET Models : RouteModel(w, permitted)
  BY RequestWrites, StepWrites, CrashWrites DEF Next, vars, profileTables

\* A step that leaves the profiles as they are.
LEMMA ProfilesQuiet ==
  ASSUME TypeOK, ProfilesAccount, [Next]_vars, UNCHANGED <<profiles, returned>>
  PROVE  ProfilesAccount'
<1>1. met \subseteq met'
  BY MetGrows
<1>2. \A m : Told(m)' = Told(m) /\ RowsOf(m)' = RowsOf(m)
  BY DEF Told, RowsOf
<1>3. \A m \in Models : Apart(Told(m))' => OneProfile(m)'
  <2> SUFFICES ASSUME NEW m \in Models, Apart(Told(m))' PROVE OneProfile(m)'
    OBVIOUS
  <2>1. \A S : S = Told(m) => Apart(S)'
    BY <1>2
  <2>2. Apart(Told(m))
    BY <1>1, <2>1, ApartBefore
  <2> QED
    BY <1>2, <2>2 DEF ProfilesAccount, OneProfile
<1>4. RoutesInformed'
  <2>1. ASSUME NEW r \in routes' \ routes
        PROVE  Apart(r.told)' => r.basis = r.told
    <3>1. PICK w \in Workers, m \in Models, basis \in SUBSET Ids :
             /\ Known(m, basis)
             /\ r = [model |-> m, basis |-> basis, told |-> Told(m)]
      <4>1. PICK w \in Workers, permitted \in SUBSET Models :
               RouteModel(w, permitted)
        BY <2>1, OnlyRouting
      <4> QED
        BY <2>1, <4>1 DEF RouteModel
    <3>2. r.basis = basis /\ r.told = Told(m)
      BY <3>1
    <3> QED
      BY <1>1, <3>1, <3>2, ApartBefore, RouteTells DEF ProfilesAccount
  <2>2. \A r \in routes : Apart(r.told)' => r.basis = r.told
    BY <1>1, ApartBefore DEF ProfilesAccount, RoutesInformed
  <2> QED
    BY <2>1, <2>2 DEF RoutesInformed
<1>5. ASSUME NEW v \in Workers, task'[v] = task[v]
      PROVE  PlaceKnown(v)' /\ CopyTells(v)'
  <2>1. PlaceKnown(v)'
    BY <1>2, <1>5 DEF ProfilesAccount, PlaceKnown, At
  <2>2. ASSUME At(v, "profile"), Apart(Told(task[v].on) \cup {task[v].id})'
        PROVE  Apart(Told(task[v].on) \cup {task[v].id})
    <3>1. \A S : S = Told(task[v].on) \cup {task[v].id} => Apart(S)'
      BY <1>2, <1>5, <2>2
    <3> QED
      BY <1>1, <3>1, ApartBefore
  <2> QED
    BY <1>2, <1>5, <2>1, <2>2 DEF ProfilesAccount, CopyTells, At
<1>6. ASSUME NEW v \in Workers, NEW m \in Models, UpdateModelProfile(v, m)
      PROVE  PlaceKnown(v)' /\ CopyTells(v)'
  <2>1. PICK row, seen :
           /\ row \in Nat
           /\ task'[v] = [pc |-> "profile", id |-> This, on |-> m,
                          row |-> row, seen |-> seen]
           /\ \/ RowsOf(m) = {} /\ row = 0 /\ seen = {This}
              \/ /\ row \in RowsOf(m) /\ IsFirst(row, m)
                 /\ seen = profiles[row].seen \cup {This}
    BY <1>6, RowPlaces DEF UpdateModelProfile, IsFirst, Goto, TypeOK
  <2>2. /\ task'[v].pc = "profile" /\ task'[v].id = This /\ task'[v].on = m
        /\ task'[v].row = row /\ task'[v].seen = seen
    BY <2>1
  <2>3. row # 0 => row \in RowsOf(m)
    BY <2>1
  <2>4. ASSUME Apart(Told(task[v].on) \cup {task[v].id})'
        PROVE  /\ seen = Told(m) \cup {This}
               /\ RowsOf(m) = IF row = 0 THEN {} ELSE {row}
    <3>1. \A S : S = Told(m) => Apart(S)'
      BY <1>2, <2>2, <2>4 DEF Apart
    <3>2. OneProfile(m)
      BY <1>1, <3>1, ApartBefore DEF ProfilesAccount
    <3>3. \A i \in RowsOf(m) : i # 0
      BY RowPlaces
    <3> QED
      BY <2>1, <3>2, <3>3 DEF OneProfile
  <2> QED
    BY <1>2, <2>2, <2>3, <2>4 DEF PlaceKnown, CopyTells, At
<1>7. ASSUME NEW v \in Workers, task'[v].pc # "profile"
      PROVE  PlaceKnown(v)' /\ CopyTells(v)'
  BY <1>7 DEF PlaceKnown, CopyTells, At
<1>8. \A v \in Workers : PlaceKnown(v)' /\ CopyTells(v)'
  <2> SUFFICES ASSUME NEW v \in Workers, task'[v].pc = "profile",
                      task'[v] # task[v]
               PROVE  PlaceKnown(v)' /\ CopyTells(v)'
    BY <1>5, <1>7
  <2>1. \E m \in Models : UpdateModelProfile(v, m)
    BY WritersStay DEF CompleteMission, Intervene, Goto, TypeOK
  <2> QED
    BY <1>6, <2>1
<1> QED
  BY <1>3, <1>4, <1>8 DEF ProfilesAccount

\* What the UPDATE or the INSERT of a profile makes of the rows.
SavedAt(place, w, m) ==
    /\ place = IF task[w].row = 0 THEN Len(profiles) + 1 ELSE task[w].row
    /\ RowsOf(m)' = RowsOf(m) \cup {place}
    /\ \A x : x # m => RowsOf(x)' = RowsOf(x) /\ place \notin RowsOf(x)
    /\ profiles'[place].seen = task[w].seen
    /\ \A i \in DOMAIN profiles : i # place => profiles'[i] = profiles[i]

LEMMA SavedRows ==
  ASSUME TypeOK, NEW w \in Workers, SaveProfile(w), PlaceKnown(w),
         NEW m, m = task[w].on
  PROVE  \E place \in Nat \ {0} : SavedAt(place, w, m)
<1> DEFINE row == [model |-> m, seen |-> task[w].seen]
<1>1. /\ task[w] \in ProfileTask /\ At(w, "profile")
      /\ m \in Models /\ task[w].row \in Nat
  BY TaskShape DEF SaveProfile, ProfileTask
<1>2. row \in Profile /\ row.model = m /\ row.seen = task[w].seen
  BY <1>1 DEF Profile, ProfileTask
<1>3. profiles' = IF task[w].row = 0 THEN Append(profiles, row)
                  ELSE [profiles EXCEPT ![task[w].row] = row]
  BY DEF SaveProfile
<1> HIDE DEF row
<1>4. profiles \in Seq(Profile) /\ Len(profiles) \in Nat
      /\ DOMAIN profiles = 1 .. Len(profiles)
  BY DEF TypeOK
<1>5. ASSUME task[w].row = 0
      PROVE  \E place \in Nat \ {0} : SavedAt(place, w, m)
  <2> DEFINE place == Len(profiles) + 1
  <2>1. /\ DOMAIN profiles' = 1 .. place
        /\ profiles'[place] = row
        /\ \A i \in DOMAIN profiles : i # place /\ profiles'[i] = profiles[i]
    BY <1>2, <1>3, <1>4, <1>5
  <2>2. \A x : RowsOf(x)' = RowsOf(x) \cup (IF x = m THEN {place} ELSE {})
    BY <1>2, <1>4, <2>1 DEF RowsOf
  <2>3. \A x : place \notin RowsOf(x)
    BY <1>4 DEF RowsOf
  <2>4. place \in Nat \ {0} /\ place = Len(profiles) + 1
    BY <1>4
  <2> HIDE DEF place
  <2>5. SavedAt(place, w, m)
    BY <1>2, <1>5, <2>1, <2>2, <2>3, <2>4 DEF SavedAt
  <2> QED
    BY <2>4, <2>5
<1>6. ASSUME task[w].row # 0
      PROVE  \E place \in Nat \ {0} : SavedAt(place, w, m)
  <2> DEFINE place == task[w].row
  <2>1. place \in RowsOf(m) /\ place \in DOMAIN profiles
    BY <1>1, <1>6 DEF PlaceKnown, RowsOf
  <2>2. /\ DOMAIN profiles' = DOMAIN profiles
        /\ profiles'[place] = row
        /\ \A i \in DOMAIN profiles : i # place => profiles'[i] = profiles[i]
    BY <1>3, <1>4, <1>6, <2>1
  <2>3. \A x : RowsOf(x)' = RowsOf(x)
    BY <1>2, <2>1, <2>2 DEF RowsOf
  <2>4. \A x : x # m => place \notin RowsOf(x)
    BY <2>1 DEF RowsOf
  <2>5. place \in Nat \ {0} /\ place = task[w].row
    BY <1>4, <2>1
  <2> HIDE DEF place
  <2>6. SavedAt(place, w, m)
    BY <1>2, <1>6, <2>1, <2>2, <2>3, <2>4, <2>5 DEF SavedAt
  <2> QED
    BY <2>5, <2>6
<1> QED
  BY <1>5, <1>6

LEMMA SaveProfileAccount ==
  ASSUME TypeOK, ProfilesAccount, RivalsMet, NEW w \in Workers, SaveProfile(w)
  PROVE  ProfilesAccount'
<1> DEFINE id == task[w].id
<1>1. PICK m \in Models : m = task[w].on
  BY TaskShape DEF SaveProfile, ProfileTask
<1>2. PICK place \in Nat \ {0} :
         /\ place = IF task[w].row = 0 THEN Len(profiles) + 1 ELSE task[w].row
         /\ RowsOf(m)' = RowsOf(m) \cup {place}
         /\ \A x : x # m => RowsOf(x)' = RowsOf(x) /\ place \notin RowsOf(x)
         /\ profiles'[place].seen = task[w].seen
         /\ \A i \in DOMAIN profiles : i # place => profiles'[i] = profiles[i]
  BY <1>1, SavedRows DEF ProfilesAccount, SavedAt
<1>3. /\ met' = met /\ routes' = routes /\ At(w, "profile")
      /\ task'[w] = Idle /\ \A v \in Workers : v # w => task'[v] = task[v]
  BY DEF SaveProfile, requestState, Finish, Goto, TypeOK
<1>4. /\ Told(m)' = Told(m) \cup {id}
      /\ \A x : x # m => Told(x)' = Told(x)
  <2> DEFINE new == [id |-> id, model |-> m]
  <2>1. new.id = id /\ new.model = m
    OBVIOUS
  <2>2. returned' = returned \cup {new}
    BY <1>1 DEF SaveProfile
  <2> HIDE DEF new
  <2> QED
    BY <2>1, <2>2 DEF Told
<1>5. \A S : Apart(S)' <=> Apart(S)
  BY <1>3 DEF Apart, Met
<1>6. ASSUME Apart(Told(m) \cup {id})
      PROVE  /\ task[w].seen = Told(m) \cup {id}
             /\ RowsOf(m) = IF task[w].row = 0 THEN {} ELSE {task[w].row}
  BY <1>1, <1>3, <1>6 DEF ProfilesAccount, CopyTells
<1>7. ASSUME NEW x \in Models, Apart(Told(x))' PROVE OneProfile(x)'
  <2>1. CASE x = m
    <3>1. Apart(Told(m) \cup {id})
      BY <1>4, <1>5, <1>7, <2>1
    <3>2. RowsOf(m)' = {place}
      BY <1>2, <1>6, <3>1
    <3> QED
      BY <1>2, <1>4, <1>6, <2>1, <3>1, <3>2 DEF OneProfile
  <2>2. CASE x # m
    <3>1. OneProfile(x)
      BY <1>4, <1>5, <1>7, <2>2 DEF ProfilesAccount
    <3>2. \A i \in RowsOf(x) : profiles'[i] = profiles[i]
      BY <1>2, <2>2 DEF RowsOf
    <3> QED
      BY <1>2, <1>4, <2>2, <3>1, <3>2 DEF OneProfile
  <2> QED
    BY <2>1, <2>2
<1>8. ASSUME NEW v \in Workers PROVE PlaceKnown(v)' /\ CopyTells(v)'
  <2>1. CASE v = w
    BY <1>3, <2>1 DEF PlaceKnown, CopyTells, At, Idle
  <2>2. CASE v # w /\ task[v].pc = "profile"
    <3>1. task'[v] = task[v] /\ PlaceKnown(v) /\ CopyTells(v)
      BY <1>3, <2>2 DEF ProfilesAccount
    <3>2. PlaceKnown(v)'
      BY <1>2, <3>1 DEF PlaceKnown, At
    <3>3. CASE task[v].on = m
      <4>1. Met(task[v].id, id)
        BY <1>1, <1>3, <2>2, <3>3 DEF RivalsMet, At
      <4>2. ~Apart(Told(m) \cup {id} \cup {task[v].id})
        BY <4>1 DEF Apart
      <4>3. ~Apart(Told(task[v].on) \cup {task[v].id})'
        BY <1>4, <1>5, <3>1, <3>3, <4>2
      <4> QED
        BY <3>2, <4>3 DEF CopyTells
    <3>4. CASE task[v].on # m
      <4>1. /\ Told(task[v].on)' = Told(task[v].on)
            /\ RowsOf(task[v].on)' = RowsOf(task[v].on)
        BY <1>2, <1>4, <3>1, <3>4
      <4>2. Apart(Told(task[v].on) \cup {task[v].id})' =>
               Apart(Told(task[v].on) \cup {task[v].id})
        BY <1>5, <3>1, <4>1
      <4> QED
        BY <3>1, <3>2, <4>1, <4>2 DEF CopyTells, At
    <3> QED
      BY <3>3, <3>4
  <2>3. CASE v # w /\ task[v].pc # "profile"
    BY <1>3, <2>3 DEF PlaceKnown, CopyTells, At
  <2> QED
    BY <2>1, <2>2, <2>3
<1>9. RoutesInformed'
  BY <1>3, <1>5 DEF ProfilesAccount, RoutesInformed
<1> QED
  BY <1>7, <1>8, <1>9 DEF ProfilesAccount

LEMMA StepProfiles ==
  ASSUME TypeOK, ProfilesAccount, RivalsMet, [Next]_vars
  PROVE  ProfilesAccount'
<1>1. CASE \E w \in Workers : SaveProfile(w)
  BY <1>1, SaveProfileAccount
<1>2. CASE \A w \in Workers : ~SaveProfile(w)
  <2>1. UNCHANGED <<profiles, returned>>
    BY <1>2, RequestWrites, StepWrites, CrashWrites
    DEF Next, vars, profileTables
  <2> QED
    BY <2>1, ProfilesQuiet
<1> QED
  BY <1>1, <1>2

LEMMA AccountShows ==
  ASSUME TypeOK, AccountInv
  PROVE  LostOnlyToRivals
<1>1. CompletionsKept
  <2> SUFFICES ASSUME NEW c \in credits
               PROVE  Accounted(c.report, missions[c.mission].evidence)
    BY DEF CompletionsKept
  <2>1. c.mission \in Ids
    BY DEF TypeOK, Credit
  <2> QED
    BY <2>1 DEF AccountInv, MissionsAccount, CompletedBy
<1>2. InterventionsCounted
  <2> SUFFICES ASSUME NEW x \in interventions
               PROVE  Accounted(x.id, hypotheses[x.hypothesis].seen)
    BY DEF InterventionsCounted
  <2>1. x.hypothesis \in Ids
    BY DEF TypeOK, Intervention
  <2> QED
    BY <2>1 DEF AccountInv, HypothesesAccount, IntervenedBy
<1> QED
  BY <1>1, <1>2 DEF LostOnlyToRivals, AccountInv, ProfilesAccount

(***************************************************************************)
(* Whatever overlaps and stops, a completion that was paid for, an         *)
(* intervention that was stored and a profile update that returned are     *)
(* lost only to a rival, a request that read the same row before the other *)
(* had written it.                                                         *)
(***************************************************************************)
THEOREM OnlyRivalsLose == Spec => []LostOnlyToRivals
<1>1. Init => AccountInv
  BY DEF Init, AccountInv, RivalsMet, MissionsAccount, HypothesesAccount,
         ProfilesAccount, OneProfile, PlaceKnown, CopyTells, RoutesInformed,
         CompletedBy, IntervenedBy, Writers, RowsOf, Told, Apart, At, Idle
<1>2. TypeOK /\ AccountInv /\ [Next]_vars => AccountInv'
  BY StepRivals, StepMissions, StepHypotheses, StepProfiles DEF AccountInv
<1> QED
  BY <1>1, <1>2, AccountShows, RecordsTypeCorrect, PTL DEF Spec

=============================================================================
