--------------------------- MODULE AdvancedRecords ---------------------------
(***************************************************************************)
(* The records of AdvancedDCML that change after they are inserted, and    *)
(* those that are inserted because of such a change: missions and the      *)
(* credit paid for their stages, causal hypotheses and interventions,      *)
(* counterfactual decisions and predictions with what was observed of      *)
(* them, and the performance profiles that route models.                   *)
(*                                                                         *)
(* _get() reads a row, the handler changes its payload, an UPDATE writes   *)
(* the whole payload back without a condition, and INSERTs tell what has   *)
(* been done, each in a transaction of its own.  The ids are random; here  *)
(* a request has a number, which is the id of what it inserts and stands   *)
(* for the evidence it brings.                                             *)
(***************************************************************************)
EXTENDS Integers, Sequences

CONSTANTS
    Workers,      \* threads and processes that run handlers
    Models,       \* pairs of a model and a task type
    MaxRequests,  \* requests that come (a bound)
    MayCrash      \* may a handler stop between two statements?

ASSUME RecordsAssumption ==
    /\ MaxRequests \in Nat
    /\ MayCrash \in BOOLEAN

VARIABLES
    missions,       \* missions_v2: the evidence of each, once VERIFIED
    stages,         \* mission_stages: the mission of each
    credits,        \* temporal_credit
    hypotheses,     \* causal_hypotheses
    interventions,  \* interventions: the hypothesis of each
    forecasts,      \* counterfactual_decisions and predictions
    findings,       \* counterfactual_observations, metacognitive_reviews and
                    \* evaluations
    proposals,      \* learning_proposals: what each of them rests on
    profiles,       \* model_performance_profiles, in the order of insertion
    routes,         \* routing_decisions, with the observations they rest on
    task,           \* what each worker is doing
    made,           \* how many requests have come
    returned,       \* the profile updates that have returned to their caller
    met,            \* pairs of requests that both read a row before either
                    \* wrote it back
    stopped         \* the requests whose handlers stopped half-way

missionTables == <<missions, stages, credits>>
causalTables == <<hypotheses, interventions>>
findingTables == <<forecasts, findings, proposals>>
profileTables == <<profiles, routes, returned>>
requestState == <<made, met, stopped>>
vars == <<missionTables, causalTables, findingTables, profileTables, task,
          requestState>>

Ids == 1 .. MaxRequests
Absent == [status |-> "absent"]
Mission == [status : {"AVAILABLE", "VERIFIED"}, evidence : SUBSET Ids]
Credit == [report : Ids, mission : Ids, stage : Ids, among : SUBSET Ids]

(***************************************************************************)
(* A causal confidence counts units of 1/40.  The observations of a        *)
(* hypothesis are seen, those with falsification evidence against it.  Its *)
(* revision is one more than their number.                                 *)
(***************************************************************************)
Certain == 40
Verdicts == {"STRENGTHENED", "WEAKENED", "REJECTED"}
Hypothesis == [status : {"AVAILABLE"} \cup Verdicts, confidence : 0 .. Certain,
               seen : SUBSET Ids, against : SUBSET Ids]
Intervention == [id : Ids, hypothesis : Ids]

\* What was expected, what was recorded of it and by which request.
Forecast == [kind : {"decision", "prediction"},
             outcome : {"none", "pending", "expected", "worse"},
             by : {0} \cup Ids]
\* What an observation, a review or an evaluation found: nothing, something,
\* or something that the code proposes.
Finding == [id : Ids, kind : {"regret", "review", "evaluation"},
            level : {"nothing", "noted", "asks"}]
Proposal == [id : Ids, on : Ids]
Profile == [model : Models, seen : SUBSET Ids]
\* The observations a route uses, and those that its model has by then.
Route == [model : Models, basis : SUBSET Ids, told : SUBSET Ids]

Idle == [pc |-> "idle"]

Init == /\ missions = [i \in Ids |-> Absent]
        /\ stages = [i \in Ids |-> 0]
        /\ credits = {}
        /\ hypotheses = [i \in Ids |-> Absent]
        /\ interventions = {}
        /\ forecasts = [i \in Ids |-> Absent]
        /\ findings = {}
        /\ proposals = {}
        /\ profiles = <<>>
        /\ routes = {}
        /\ returned = {}
        /\ task = [w \in Workers |-> Idle]
        /\ made = 0
        /\ met = {}
        /\ stopped = {}

At(w, pc) == task[w].pc = pc
IsIdle(w) == At(w, "idle")
This == made + 1     \* the number of a request that comes now
Goto(w, t) == task' = [task EXCEPT ![w] = t]
Finish(w) == Goto(w, Idle)

\* A request comes to a worker that has nothing to do.
Accept(w) ==
    /\ IsIdle(w)
    /\ made < MaxRequests
    /\ made' = This
    /\ UNCHANGED stopped
Arrive(w) == Accept(w) /\ UNCHANGED met

\* It reads a row that others have read and are about to write.
Writers(pc, x) == {v \in Workers : At(v, pc) /\ task[v].on = x}
ArriveAt(w, pc, x) ==
    /\ Accept(w)
    /\ met' = met \cup {<<task[v].id, This>> : v \in Writers(pc, x)}

-----------------------------------------------------------------------------
(***************************************************************************)
(* Missions.  The mission of a stage is read first, and stays.             *)
(***************************************************************************)
CreateMission(w) ==
    /\ Arrive(w)
    /\ missions' = [missions EXCEPT ![This] =
                      [status |-> "AVAILABLE", evidence |-> {}]]
    /\ UNCHANGED <<stages, credits, causalTables, findingTables, profileTables,
                   task>>

RecordMissionStage(w, m) ==
    /\ Arrive(w)
    /\ missions[m] # Absent
    /\ stages' = [stages EXCEPT ![This] = m]
    /\ UNCHANGED <<missions, credits, causalTables, findingTables,
                   profileTables, task>>

\* complete_mission(): the status of the mission is not looked at.
CompleteMission(w, m) ==
    /\ ArriveAt(w, "complete", m)
    /\ missions[m] # Absent
    /\ Goto(w, [pc |-> "complete", id |-> This, on |-> m,
                row |-> [status |-> "VERIFIED",
                         evidence |-> missions[m].evidence \cup {This}]])
    /\ UNCHANGED <<missionTables, causalTables, findingTables, profileTables>>

SaveMission(w) ==
    /\ At(w, "complete")
    /\ missions' = [missions EXCEPT ![task[w].on] = task[w].row]
    /\ Goto(w, [pc |-> "stages", id |-> task[w].id, on |-> task[w].on])
    /\ UNCHANGED <<stages, credits, causalTables, findingTables, profileTables,
                   requestState>>

StagesOf(m) == {s \in Ids : stages[s] = m}

\* The stages there are now share the reward, by their order of creation.
ReadStages(w) ==
    /\ At(w, "stages")
    /\ LET due == StagesOf(task[w].on)
       IN  IF due = {} THEN Finish(w)
           ELSE Goto(w, [pc |-> "credit", id |-> task[w].id,
                         on |-> task[w].on,
                         among |-> due, left |-> due])
    /\ UNCHANGED <<missionTables, causalTables, findingTables, profileTables,
                   requestState>>

\* A slip: the last stage is forgotten.
PayMost(w) ==
    /\ At(w, "credit")
    /\ \E s \in task[w].left :
          /\ credits' = credits \cup
                {[report |-> task[w].id, mission |-> task[w].on,
                  stage |-> s, among |-> task[w].among]}
          /\ \E t \in task[w].left \ {s} :
                IF task[w].left = {s, t} THEN Finish(w)
                ELSE Goto(w, [task[w] EXCEPT !.left = @ \ {s}])
    /\ UNCHANGED <<missions, stages, causalTables, findingTables, profileTables,
                   requestState>>

\* One INSERT for each stage.
PayStage(w) ==
    /\ At(w, "credit")
    /\ \E s \in task[w].left :
          /\ credits' = credits \cup
                {[report |-> task[w].id, mission |-> task[w].on,
                  stage |-> s, among |-> task[w].among]}
          /\ IF task[w].left = {s} THEN Finish(w)
             ELSE Goto(w, [task[w] EXCEPT !.left = @ \ {s}])
    /\ UNCHANGED <<missions, stages, causalTables, findingTables, profileTables,
                   requestState>>

-----------------------------------------------------------------------------
(***************************************************************************)
(* Causal hypotheses.  An intervention that comes out as expected adds     *)
(* 0.15 to the confidence, another one takes 0.25, divided by one more     *)
(* than the confounders left uncontrolled, of which there is one at most   *)
(* here.                                                                   *)
(***************************************************************************)
CreateCausalHypothesis(w) ==
    /\ Arrive(w)
    /\ hypotheses' = [hypotheses EXCEPT ![This] =
                        [status |-> "AVAILABLE", confidence |-> Certain \div 2,
                         seen |-> {}, against |-> {}]]
    /\ UNCHANGED <<missionTables, interventions, findingTables, profileTables,
                   task>>

Delta(fits, uncontrolled) == IF fits THEN 6 \div (1 + uncontrolled)
                             ELSE -(10 \div (1 + uncontrolled))

\* A slip: the confidence leaves its range.
Unclamped(c) == c

Clamped(c) == IF c < 0 THEN 0 ELSE IF c > Certain THEN Certain ELSE c

\* A slip: one failure may reject.
RejectedBelowHalf(fits, confidence) ==
    IF fits THEN {"STRENGTHENED"}
    ELSE IF confidence < 20 THEN {"REJECTED"} ELSE {"WEAKENED"}

\* REJECTED is below 0.2; rounding may put 0.2 on either side.
Verdict(fits, confidence) ==
    IF fits THEN {"STRENGTHENED"}
    ELSE IF confidence < 8 THEN {"REJECTED"}
    ELSE IF confidence > 8 THEN {"WEAKENED"} ELSE {"REJECTED", "WEAKENED"}

Revised(h, id, fits, uncontrolled) ==
    LET confidence == Clamped(h.confidence + Delta(fits, uncontrolled))
    IN  {[status |-> verdict, confidence |-> confidence,
          seen |-> h.seen \cup {id},
          against |-> IF fits THEN h.against ELSE h.against \cup {id}] :
         verdict \in Verdict(fits, confidence)}

Intervene(w, h, fits, uncontrolled) ==
    /\ ArriveAt(w, "intervene", h)
    /\ hypotheses[h] # Absent
    /\ \E row \in Revised(hypotheses[h], This, fits, uncontrolled) :
          Goto(w, [pc |-> "intervene", id |-> This, on |-> h, row |-> row])
    /\ UNCHANGED <<missionTables, causalTables, findingTables, profileTables>>

SaveHypothesis(w) ==
    /\ At(w, "intervene")
    /\ hypotheses' = [hypotheses EXCEPT ![task[w].on] = task[w].row]
    /\ Goto(w, [pc |-> "intervention", id |-> task[w].id, on |-> task[w].on])
    /\ UNCHANGED <<missionTables, interventions, findingTables, profileTables,
                   requestState>>

StoreIntervention(w) ==
    /\ At(w, "intervention")
    /\ interventions' = interventions \cup
          {[id |-> task[w].id, hypothesis |-> task[w].on]}
    /\ Finish(w)
    /\ UNCHANGED <<missionTables, hypotheses, findingTables, profileTables,
                   requestState>>

-----------------------------------------------------------------------------
(***************************************************************************)
(* What was expected and what came of it.  counterfactual_decide() inserts *)
(* a decision and simulate() a prediction, by itself or in a cycle, which  *)
(* then asks an instrument and evaluates the prediction.                   *)
(* observe_counterfactual() and observe_outcome() write the outcome into   *)
(* the row, overwriting an earlier one.                                    *)
(***************************************************************************)
Expect(w, kind) ==
    /\ Arrive(w)
    /\ forecasts' = [forecasts EXCEPT ![This] =
                       [kind |-> kind, outcome |-> "none", by |-> 0]]
    /\ \/ UNCHANGED task
       \/ kind = "prediction" /\ Goto(w, [pc |-> "act", id |-> This])
    /\ UNCHANGED <<missionTables, causalTables, findings, proposals,
                   profileTables>>

\* The instrument fails, or the answer is to be evaluated.
Act(w) ==
    /\ At(w, "act")
    /\ \/ Finish(w)
       \/ \E level \in {"noted", "asks"} :
             Goto(w, [pc |-> "finding", id |-> task[w].id,
                      kind |-> "evaluation", level |-> level])
    /\ UNCHANGED <<missionTables, causalTables, findingTables, profileTables,
                   requestState>>

UnderWay == {task[w].id : w \in {v \in Workers : ~IsIdle(v)}}

\* The row is read; what is written of it are constants and the outcome.  The
\* id of a prediction is not known before its cycle has ended.
ObserveForecast(w, d, worse) ==
    /\ Arrive(w)
    /\ forecasts[d] # Absent
    /\ d \notin UnderWay
    /\ Goto(w, [pc |-> "observe", id |-> This, on |-> d, worse |-> worse])
    /\ UNCHANGED <<missionTables, causalTables, findingTables, profileTables>>

\* What a handler does once what it rests on is stored.
ProposeIf(w, needed, on) ==
    IF needed THEN Goto(w, [pc |-> "propose", id |-> task[w].id, on |-> on])
    ELSE Finish(w)

SaveForecast(w) ==
    /\ At(w, "observe")
    /\ LET d == task[w].on
           worse == task[w].worse
       IN  /\ forecasts' = [forecasts EXCEPT
                 ![d].outcome = IF worse THEN "worse" ELSE "expected",
                 ![d].by = task[w].id]
           /\ IF forecasts[d].kind = "decision"
              THEN Goto(w, [pc |-> "finding", id |-> task[w].id,
                            kind |-> "regret",
                            level |-> IF worse THEN "asks" ELSE "nothing"])
              ELSE ProposeIf(w, worse, d)
    /\ UNCHANGED <<missionTables, causalTables, findings, proposals,
                   profileTables, requestState>>

\* A review finds nothing; missing evidence, overconfidence or a drift of the
\* goal; or assumptions, contradictions or a verification that is incomplete,
\* for which it asks for the human.
MetacognitiveReview(w, level) ==
    /\ Arrive(w)
    /\ Goto(w, [pc |-> "finding", id |-> This, kind |-> "review",
                level |-> level])
    /\ UNCHANGED <<missionTables, causalTables, findingTables, profileTables>>

\* A slip: a regret is stored and never proposed.
StoreQuietly(w) ==
    /\ At(w, "finding")
    /\ findings' = findings \cup {[id |-> task[w].id, kind |-> task[w].kind,
                                   level |-> task[w].level]}
    /\ IF task[w].kind = "evaluation"
       THEN Goto(w, [pc |-> "reflect", id |-> task[w].id,
                     level |-> task[w].level])
       ELSE Finish(w)
    /\ UNCHANGED <<missionTables, causalTables, forecasts, proposals,
                   profileTables, requestState>>

StoreFinding(w) ==
    /\ At(w, "finding")
    /\ findings' = findings \cup {[id |-> task[w].id, kind |-> task[w].kind,
                                   level |-> task[w].level]}
    /\ IF task[w].kind = "evaluation"
       THEN Goto(w, [pc |-> "reflect", id |-> task[w].id,
                     level |-> task[w].level])
       ELSE ProposeIf(w, task[w].level = "asks", task[w].id)
    /\ UNCHANGED <<missionTables, causalTables, forecasts, proposals,
                   profileTables, requestState>>

\* reflect() ends with the UPDATE of the prediction; run() goes on from an
\* error of 0.25.
Reflect(w) ==
    /\ At(w, "reflect")
    /\ forecasts' = [forecasts EXCEPT ![task[w].id].outcome = "pending",
                                      ![task[w].id].by = task[w].id]
    /\ ProposeIf(w, task[w].level = "asks", task[w].id)
    /\ UNCHANGED <<missionTables, causalTables, findings, proposals,
                   profileTables, requestState>>

\* _advanced_proposal() and learn(), for what LearningGovernance goes on with.
Propose(w) ==
    /\ At(w, "propose")
    /\ proposals' = proposals \cup {[id |-> task[w].id, on |-> task[w].on]}
    /\ Finish(w)
    /\ UNCHANGED <<missionTables, causalTables, forecasts, findings,
                   profileTables, requestState>>

-----------------------------------------------------------------------------
(***************************************************************************)
(* Performance profiles.  update_model_profile() takes the first row of    *)
(* the model, or inserts one; route_model() uses the last.                 *)
(***************************************************************************)
RowsOf(m) == {i \in DOMAIN profiles : profiles[i].model = m}
IsFirst(i, m) == i \in RowsOf(m) /\ \A j \in RowsOf(m) : i <= j
IsLast(i, m) == i \in RowsOf(m) /\ \A j \in RowsOf(m) : j <= i

\* A slip: a profile is inserted whether or not there is one.
UpdateAnew(w, m) ==
    /\ ArriveAt(w, "profile", m)
    /\ Goto(w, [pc |-> "profile", id |-> This, on |-> m, row |-> 0,
                seen |-> {This}])
    /\ UNCHANGED <<missionTables, causalTables, findingTables, profileTables>>

UpdateModelProfile(w, m) ==
    /\ ArriveAt(w, "profile", m)
    /\ \/ /\ RowsOf(m) = {}
          /\ Goto(w, [pc |-> "profile", id |-> This, on |-> m, row |-> 0,
                      seen |-> {This}])
       \/ \E i \in DOMAIN profiles :
             /\ IsFirst(i, m)
             /\ Goto(w, [pc |-> "profile", id |-> This, on |-> m,
                         row |-> i, seen |-> profiles[i].seen \cup {This}])
    /\ UNCHANGED <<missionTables, causalTables, findingTables, profileTables>>

SaveProfile(w) ==
    /\ At(w, "profile")
    /\ LET row == [model |-> task[w].on, seen |-> task[w].seen]
       IN  profiles' = IF task[w].row = 0 THEN Append(profiles, row)
                       ELSE [profiles EXCEPT ![task[w].row] = row]
    /\ returned' = returned \cup {[id |-> task[w].id, model |-> task[w].on]}
    /\ Finish(w)
    /\ UNCHANGED <<missionTables, causalTables, findingTables, routes,
                   requestState>>

(***************************************************************************)
(* route_model(): the candidates that are healthy and within the bounds of *)
(* privacy, cost, latency and risk are permitted; with none it raises, and *)
(* the one with the best score, a matter of its profile, is chosen.        *)
(***************************************************************************)
Told(m) == {x.id : x \in {y \in returned : y.model = m}}
Known(m, basis) ==
    \/ RowsOf(m) = {} /\ basis = {}
    \/ \E i \in DOMAIN profiles : IsLast(i, m) /\ basis = profiles[i].seen

RouteModel(w, permitted) ==
    /\ Arrive(w)
    /\ \E m \in permitted, basis \in SUBSET Ids :
          /\ Known(m, basis)
          /\ routes' = routes \cup {[model |-> m, basis |-> basis,
                                   told |-> Told(m)]}
    /\ UNCHANGED <<missionTables, causalTables, findingTables, profiles,
                   returned, task>>

-----------------------------------------------------------------------------
\* A handler stops short: its process ends, a statement raises because the
\* database stays locked, or the seal refuses a mission or a proposal.
Crash ==
    /\ MayCrash
    /\ \E w \in Workers : /\ ~IsIdle(w)
                          /\ stopped' = stopped \cup {task[w].id}
                          /\ Finish(w)
    /\ UNCHANGED <<missionTables, causalTables, findingTables, profileTables,
                   made, met>>

Request(w) ==
    \/ CreateMission(w) \/ CreateCausalHypothesis(w)
    \/ \E i \in Ids : \/ RecordMissionStage(w, i) \/ CompleteMission(w, i)
                      \/ \E fits \in BOOLEAN, uncontrolled \in {0, 1} :
                            Intervene(w, i, fits, uncontrolled)
                      \/ \E worse \in BOOLEAN : ObserveForecast(w, i, worse)
    \/ \E kind \in {"decision", "prediction"} : Expect(w, kind)
    \/ \E level \in {"nothing", "noted", "asks"} :
          MetacognitiveReview(w, level)
    \/ \E m \in Models : UpdateModelProfile(w, m)
    \/ \E permitted \in SUBSET Models : RouteModel(w, permitted)

Step(w) ==
    \/ SaveMission(w) \/ ReadStages(w) \/ PayStage(w)
    \/ SaveHypothesis(w) \/ StoreIntervention(w)
    \/ Act(w) \/ SaveForecast(w) \/ StoreFinding(w) \/ Reflect(w)
    \/ Propose(w)
    \/ SaveProfile(w)

Next == Crash \/ \E w \in Workers : Request(w) \/ Step(w)

Spec == Init /\ [][Next]_vars

-----------------------------------------------------------------------------
CompleteTask == [pc : {"complete"}, id : Ids, on : Ids, row : Mission]
StagesTask == [pc : {"stages"}, id : Ids, on : Ids]
CreditTask == [pc : {"credit"}, id : Ids, on : Ids, among : SUBSET Ids,
               left : SUBSET Ids]
InterveneTask == [pc : {"intervene"}, id : Ids, on : Ids, row : Hypothesis]
InterventionTask == [pc : {"intervention"}, id : Ids, on : Ids]
ActTask == [pc : {"act"}, id : Ids]
ObserveTask == [pc : {"observe"}, id : Ids, on : Ids, worse : BOOLEAN]
FindingTask == [pc : {"finding"}, id : Ids,
                kind : {"regret", "review", "evaluation"},
                level : {"nothing", "noted", "asks"}]
ReflectTask == [pc : {"reflect"}, id : Ids,
                level : {"nothing", "noted", "asks"}]
ProposeTask == [pc : {"propose"}, id : Ids, on : Ids]
ProfileTask == [pc : {"profile"}, id : Ids, on : Models, row : Nat,
                seen : SUBSET Ids]
Tasks == {Idle} \cup CompleteTask \cup StagesTask \cup CreditTask
                \cup InterveneTask \cup InterventionTask \cup ActTask
                \cup ObserveTask \cup FindingTask \cup ReflectTask
                \cup ProposeTask \cup ProfileTask

\* The variables hold rows and task records of the shapes above.
TypeOK ==
    /\ missions \in [Ids -> {Absent} \cup Mission]
    /\ stages \in [Ids -> {0} \cup Ids]
    /\ credits \in SUBSET Credit
    /\ hypotheses \in [Ids -> {Absent} \cup Hypothesis]
    /\ interventions \in SUBSET Intervention
    /\ forecasts \in [Ids -> {Absent} \cup Forecast]
    /\ findings \in SUBSET Finding
    /\ proposals \in SUBSET Proposal
    /\ profiles \in Seq(Profile)
    /\ routes \in SUBSET Route
    /\ returned \in SUBSET [id : Ids, model : Models]
    /\ task \in [Workers -> Tasks]
    /\ \A w \in Workers : At(w, "profile") =>
          task[w].row = 0 \/ task[w].row \in DOMAIN profiles
    /\ made \in 0 .. MaxRequests
    /\ met \in SUBSET (Ids \X Ids)
    /\ stopped \in SUBSET Ids

(***************************************************************************)
(* Delayed credit (complete_mission): however completions, new stages and  *)
(* stops overlap, credit is for a stage of the very mission and only once  *)
(* that mission counts as completed; one completion splits its reward once *)
(* over stages that each get their share, and pays all of them unless its  *)
(* handler stopped.                                                        *)
(***************************************************************************)
SplitOnce == \A c, d \in credits : c.report = d.report =>
                c.mission = d.mission /\ c.among = d.among
PaidInFull ==
    \A c \in credits : c.report \notin UnderWay \cup stopped =>
       \A s \in c.among : [c EXCEPT !.stage = s] \in credits
CreditIsDue ==
    /\ \A c \in credits :
          /\ c.stage \in c.among
          /\ \A s \in c.among : stages[s] = c.mission
          /\ missions[c.mission] # Absent
          /\ missions[c.mission].status = "VERIFIED"
    /\ SplitOnce
    /\ PaidInFull

(***************************************************************************)
(* No single intervention rejects a hypothesis, which starts at 0.5: two   *)
(* with falsification evidence are among its observations, however stale   *)
(* the copy was that the last one revised (intervene).                     *)
(***************************************************************************)
RejectionNeedsTwo ==
    \A h \in Ids : hypotheses[h].status = "REJECTED" =>
       \E i, j \in hypotheses[h].against : i # j

(***************************************************************************)
(* What was observed as worse than expected, a regret or the outcome of a  *)
(* prediction, is proposed unless the handler stopped, although a later    *)
(* observation may overwrite the earlier one; and a proposal rests on what *)
(* is stored: on a finding that asks for it, or on a prediction of which   *)
(* an outcome is recorded (observe_counterfactual, observe_outcome,        *)
(* metacognitive_review, run).                                             *)
(***************************************************************************)
Worse ==
    {f.id : f \in {g \in findings : g.kind = "regret" /\ g.level = "asks"}}
       \cup {forecasts[d].by : d \in {e \in Ids : forecasts[e] # Absent
                                        /\ forecasts[e].outcome = "worse"}}
Proposed == {p.id : p \in proposals}
Observed(d) == forecasts[d] # Absent /\ forecasts[d].outcome # "none"
Asked(i) == \E f \in findings : f.id = i /\ f.level = "asks"
Rests(i) == Observed(i) \/ Asked(i)
ErrorsAreProposed ==
    /\ Worse \subseteq Proposed \cup UnderWay \cup stopped
    /\ \A p \in proposals : Rests(p.on)

(***************************************************************************)
(* "Counterfactual regret and metacognitive findings create governed       *)
(* proposals" (docs/DCML_COMPLETE_ARCHITECTURE.md): whatever a review      *)
(* found is proposed, too (metacognitive_review).                          *)
(***************************************************************************)
FindingsAreProposed ==
    \A f \in findings : f.kind \in {"regret", "review"} /\ f.level # "nothing"
       => f.id \in Proposed \cup UnderWay \cup stopped

(***************************************************************************)
(* Why the three above hold: the inductive invariant.  Numbers that have   *)
(* not been given name nothing, a handler alone pays for its completion,   *)
(* and confidence falls only with evidence against the hypothesis.         *)
(***************************************************************************)
NumbersInOrder ==
    /\ \A i \in Ids : i > made => /\ missions[i] = Absent /\ stages[i] = 0
                                 /\ \A c \in credits : c.report # i
    /\ \A w \in Workers : ~IsIdle(w) => task[w].id <= made
    /\ \A v, w \in Workers :
          ~IsIdle(v) /\ ~IsIdle(w) /\ task[v].id = task[w].id => v = w

Completed(m) == missions[m] # Absent /\ missions[m].status = "VERIFIED"
CreditTaskSound(w) ==
    /\ ~IsIdle(w) /\ ~At(w, "credit") =>
          \A c \in credits : c.report # task[w].id
    /\ At(w, "complete") => /\ missions[task[w].on] # Absent
                            /\ task[w].row.status = "VERIFIED"
    /\ At(w, "stages") => Completed(task[w].on)
    /\ At(w, "credit") =>
          /\ Completed(task[w].on)
          /\ task[w].left \subseteq task[w].among /\ task[w].left # {}
          /\ \A s \in task[w].among : stages[s] = task[w].on
          /\ \A c \in credits : c.report = task[w].id =>
                c.mission = task[w].on /\ c.among = task[w].among
          /\ \A s \in task[w].among \ task[w].left :
                [report |-> task[w].id, mission |-> task[w].on,
                 stage |-> s, among |-> task[w].among] \in credits
CreditInv == /\ NumbersInOrder
             /\ \A w \in Workers : CreditTaskSound(w)
             /\ CreditIsDue

Twice(h) == \E i, j \in h.against : i # j
Backed(h, last) ==
    /\ \A i \in h.against : i <= last
    /\ h.confidence < 20 => h.against # {}
    /\ h.confidence < 10 \/ h.status = "REJECTED" => Twice(h)
RejectionInv ==
    /\ \A h \in Ids : hypotheses[h] # Absent => Backed(hypotheses[h], made)
    /\ \A w \in Workers : At(w, "intervene") => Backed(task[w].row, made)

Owed(w) == \/ At(w, "propose")
           \/ At(w, "finding") /\ task[w].kind = "regret"
                               /\ task[w].level = "asks"
TaskRests(w) ==
    /\ At(w, "observe") => forecasts[task[w].on] # Absent
    /\ At(w, "reflect") /\ task[w].level = "asks" => Asked(task[w].id)
    /\ At(w, "propose") => Rests(task[w].on)
ProposalInv ==
    /\ \A i \in Ids : i > made => forecasts[i] = Absent
    /\ Worse \subseteq Proposed \cup stopped
                    \cup {task[w].id : w \in {v \in Workers : Owed(v)}}
    /\ \A p \in proposals : Rests(p.on)
    /\ \A w \in Workers : TaskRests(w)

(***************************************************************************)
(* What was reported gets lost only to a rival, a request that read the    *)
(* row before the other wrote it and wrote it later: the evidence that     *)
(* credit was paid for is in the mission, or that of a rival is; an        *)
(* intervention is among the observations of its hypothesis, or a rival    *)
(* is; and a route uses every profile update that its model had then,      *)
(* unless two of them were rivals (complete_mission, intervene,            *)
(* update_model_profile, route_model).                                     *)
(***************************************************************************)
Met(i, j) == <<i, j>> \in met \/ <<j, i>> \in met
Accounted(i, there) == i \in there \/ \E j \in there : Met(i, j)
CompletionsKept ==
    \A c \in credits : Accounted(c.report, missions[c.mission].evidence)
InterventionsCounted ==
    \A x \in interventions : Accounted(x.id, hypotheses[x.hypothesis].seen)
Apart(ids) == \A i, j \in ids : ~Met(i, j)
RoutesInformed ==
    \A r \in routes : Apart(r.told) => r.basis = r.told
LostOnlyToRivals == CompletionsKept /\ InterventionsCounted /\ RoutesInformed

(***************************************************************************)
(* Why that holds: what a handler has saved, whether or not it has gone on *)
(* to pay or to store, is accounted for in the row and in every copy that  *)
(* is still to be written; two copies of one row belong to rivals; and as  *)
(* long as no two updates of a model were rivals it has one profile, which *)
(* tells of all.                                                           *)
(***************************************************************************)
CompletedBy(m) ==
    {c.report : c \in {d \in credits : d.mission = m}}
       \cup {task[w].id : w \in Writers("stages", m) \cup Writers("credit", m)}
IntervenedBy(h) ==
    {x.id : x \in {y \in interventions : y.hypothesis = h}}
       \cup {task[w].id : w \in Writers("intervention", h)}
MissionsAccount ==
    /\ \A i \in Ids : i > made => missions[i] = Absent
    /\ \A x \in Ids : \A i \in CompletedBy(x) :
          missions[x] # Absent /\ Accounted(i, missions[x].evidence)
    /\ \A w \in Workers : At(w, "complete") =>
          /\ task[w].id \in task[w].row.evidence
          /\ missions[task[w].on] # Absent
          /\ \A i \in CompletedBy(task[w].on) :
                Accounted(i, task[w].row.evidence)
HypothesesAccount ==
    /\ \A i \in Ids : i > made => hypotheses[i] = Absent
    /\ \A x \in Ids : \A i \in IntervenedBy(x) :
          hypotheses[x] # Absent /\ Accounted(i, hypotheses[x].seen)
    /\ \A w \in Workers : At(w, "intervene") =>
          /\ task[w].id \in task[w].row.seen
          /\ hypotheses[task[w].on] # Absent
          /\ \A i \in IntervenedBy(task[w].on) : Accounted(i, task[w].row.seen)
RivalsMet ==
    \A v, w \in Workers :
       /\ v # w /\ task[v].pc = task[w].pc
       /\ task[v].pc \in {"complete", "intervene", "profile"}
       /\ task[v].on = task[w].on
       => Met(task[v].id, task[w].id)
OneProfile(m) ==
    /\ \A i, j \in RowsOf(m) : i = j
    /\ \A i \in RowsOf(m) : profiles[i].seen = Told(m)
    /\ RowsOf(m) = {} => Told(m) = {}
PlaceKnown(w) == At(w, "profile") /\ task[w].row # 0
                    => task[w].row \in RowsOf(task[w].on)
CopyTells(w) ==
    At(w, "profile") /\ Apart(Told(task[w].on) \cup {task[w].id}) =>
       /\ task[w].seen = Told(task[w].on) \cup {task[w].id}
       /\ RowsOf(task[w].on) = IF task[w].row = 0 THEN {} ELSE {task[w].row}
ProfilesAccount ==
    /\ \A m \in Models : Apart(Told(m)) => OneProfile(m)
    /\ \A w \in Workers : PlaceKnown(w) /\ CopyTells(w)
    /\ RoutesInformed
AccountInv == /\ RivalsMet /\ MissionsAccount /\ HypothesesAccount
              /\ ProfilesAccount
=============================================================================
