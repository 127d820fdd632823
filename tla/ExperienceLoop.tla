--------------------------- MODULE ExperienceLoop ---------------------------
(***************************************************************************)
(* The closed loop of DCMLLearning over experiences_v2: an experience is   *)
(* recorded, its outcome observed, evidence verified, the outcome          *)
(* evaluated, its content approved by the founder, collected in a dataset  *)
(* and trained on.  Evaluations, credit, calibrations, replays, curricula, *)
(* concepts and consolidations are derived from experiences on the way.    *)
(*                                                                         *)
(* observe, verify_experience and approve_for_learning read the whole row, *)
(* change their part of the payload and write the whole payload back, in   *)
(* two transactions and without a condition on the row that was read.      *)
(* An outcome stands for what observe() records: outcome, reward and cost. *)
(***************************************************************************)
EXTENDS Naturals, FiniteSets

CONSTANTS
    Workers,        \* threads and processes that run handlers
    Experiences,    \* ids of experiences_v2 (a bound)
    Private,        \* those that privacy or a secret excludes from datasets
    KeyOf,          \* what _training_key takes from an experience but its outcome,
                    \* with its goal and its input
    Outcomes,       \* what may be observed
    NoOutcome,      \* actual_observed_outcome before that
    Verifications,  \* ids of verifications (a bound)
    Approvals,      \* ids of signed_approvals (a bound)
    NoApproval,     \* no learning_approval_id
    MaxEvaluations, \* outcomes that are scored (a bound)
    MaxRecords,     \* datasets and derived records (a bound)
    MayCrash        \* may a handler stop between two statements?

ASSUME ExperienceAssumption ==
    /\ Private \subseteq Experiences
    /\ NoOutcome \notin Outcomes
    /\ NoApproval \notin Approvals
    /\ MaxEvaluations \in Nat
    /\ MaxRecords \in Nat
    /\ MayCrash \in BOOLEAN

VARIABLES
    rows,           \* experiences_v2
    verifications,  \* verifications
    evaluations,    \* outcome_evaluations: whose, and the outcome they score
    approvals,      \* signed_approvals for learning
    datasets,       \* datasets: the approval of each member, the train split
    taught,         \* the <<experience, outcome>> pairs in trained parameters and
                    \* in consolidations
    derived,        \* what each other record rests on
    task            \* what each worker is doing

tables == <<verifications, evaluations, approvals, datasets, taught, derived>>
vars == <<rows, tables, task>>

Statuses == {"UNVERIFIED", "VERIFIED", "APPROVED_FOR_LEARNING"}
Settled == {"VERIFIED", "APPROVED_FOR_LEARNING"}

(***************************************************************************)
(* The payload.  Its content hash covers all of it; before the approval is *)
(* added that is Content, which stands for its hash.                       *)
(***************************************************************************)
Content == [outcome : Outcomes \cup {NoOutcome},
            refs : SUBSET Verifications, state : Statuses]
Unapproved == [approval |-> NoApproval]
Approved == [approval : Approvals, content : Content]
Payload == [outcome : Outcomes \cup {NoOutcome},
            refs : SUBSET Verifications, state : Statuses,
            learning : {Unapproved} \cup Approved]
NoRow == [status |-> "absent"]
Row == [status : Statuses, data : Payload]
Unused == [status |-> "absent"]
Verification == [status : {"VERIFIED", "UNVERIFIED"}, experience : Experiences]
Unsigned == [live |-> FALSE]
Approval == [experience : Experiences, content : Content, live : BOOLEAN]
Pairs == Experiences \X (Outcomes \cup {NoOutcome})

Idle == [pc |-> "idle"]

Init == /\ rows = [e \in Experiences |-> NoRow]
        /\ verifications = [v \in Verifications |-> Unused]
        /\ evaluations = {}
        /\ approvals = [a \in Approvals |-> Unsigned]
        /\ datasets = {}
        /\ taught = {}
        /\ derived = {}
        /\ task = [w \in Workers |-> Idle]

At(w, pc) == task[w].pc = pc
IsIdle(w) == At(w, "idle")
Start(w, t) == IsIdle(w) /\ task' = [task EXCEPT ![w] = t]
Finish(w) == task' = [task EXCEPT ![w] = Idle]
Exists(e) == rows[e] # NoRow
Known(v) == verifications[v] # Unused
IsSigned(a) == approvals[a] # Unsigned
Room == Cardinality(datasets) + Cardinality(derived) < MaxRecords
WithStatus(statuses) == {e \in Experiences : rows[e].status \in statuses}
ContentOf(data) ==
    [outcome |-> data.outcome, refs |-> data.refs, state |-> data.state]

\* record_experience(): a new row, under an id that nothing names yet.
RecordExperience(w, e) ==
    /\ IsIdle(w)
    /\ ~Exists(e)
    /\ \A v \in Verifications : Known(v) => verifications[v].experience # e
    /\ rows' = [rows EXCEPT ![e] =
                  [status |-> "UNVERIFIED",
                   data |-> [outcome |-> NoOutcome, refs |-> {},
                             state |-> "UNVERIFIED",
                             learning |-> Unapproved]]]
    /\ UNCHANGED <<tables, task>>

\* A slip: the status is not looked at.
ObserveAnyStatus(w, e, o) ==
    /\ Exists(e)
    /\ Start(w, [pc |-> "observe", e |-> e,
                 data |-> [rows[e].data EXCEPT !.outcome = o]])
    /\ UNCHANGED <<rows, tables>>

\* observe() reads the row, refuses a verified one, and writes the payload.
Observe(w, e, o) ==
    /\ Exists(e)
    /\ rows[e].status \notin Settled
    /\ Start(w, [pc |-> "observe", e |-> e,
                 data |-> [rows[e].data EXCEPT !.outcome = o]])
    /\ UNCHANGED <<rows, tables>>

WriteObserved(w) ==
    /\ At(w, "observe")
    /\ rows' = [rows EXCEPT ![task[w].e].data = task[w].data]
    /\ Finish(w)
    /\ UNCHANGED tables

(***************************************************************************)
(* verify_experience(): the verification is stored, VERIFIED if evidence   *)
(* of its type can verify and is valid, before the experience is read.  An *)
(* experience that is not there raises and leaves the verification behind. *)
(* A row that is verified stays so, whatever the new evidence says.        *)
(***************************************************************************)
VerifyExperience(w, e, v, status) ==
    /\ ~Known(v)
    /\ verifications' =
          [verifications EXCEPT ![v] = [status |-> status, experience |-> e]]
    /\ Start(w, [pc |-> "verify_read", e |-> e, v |-> v])
    /\ UNCHANGED <<rows, evaluations, approvals, datasets, taught, derived>>

NewStatus(row, v) == IF row.status \in Settled THEN row.status
                     ELSE verifications[v].status

\* A slip: what the experience rested on is replaced.
ReplacingRow(row, v) ==
    [status |-> NewStatus(row, v),
     data |-> [row.data EXCEPT !.refs = {v}, !.state = NewStatus(row, v)]]

\* A slip: any evidence verifies.
TrustingRow(row, v) ==
    [status |-> "VERIFIED",
     data |-> [row.data EXCEPT !.refs = @ \cup {v}, !.state = "VERIFIED"]]

VerifiedRow(row, v) ==
    [status |-> NewStatus(row, v),
     data |-> [row.data EXCEPT !.refs = @ \cup {v},
                               !.state = NewStatus(row, v)]]

ReadVerified(w) ==
    /\ At(w, "verify_read")
    /\ LET e == task[w].e
       IN  IF Exists(e)
           THEN task' = [task EXCEPT ![w] =
                           [pc |-> "write", e |-> e,
                            row |-> VerifiedRow(rows[e], task[w].v)]]
           ELSE Finish(w)
    /\ UNCHANGED <<rows, tables>>

\* The UPDATE of verify_experience() and of approve_for_learning().
WriteRow(w) ==
    /\ At(w, "write")
    /\ rows' = [rows EXCEPT ![task[w].e] = task[w].row]
    /\ Finish(w)
    /\ UNCHANGED tables

\* A slip: an outcome is scored before it is verified.
EvaluateAny(w, e) ==
    /\ Cardinality(evaluations) < MaxEvaluations
    /\ Exists(e)
    /\ Start(w, [pc |-> "evaluate", e |-> e,
                 outcome |-> rows[e].data.outcome])
    /\ UNCHANGED <<rows, tables>>

\* evaluate() reads a verified row and its evidence, then stores its score.
Evaluate(w, e) ==
    /\ Cardinality(evaluations) < MaxEvaluations
    /\ Exists(e)
    /\ rows[e].status = "VERIFIED"
    /\ \A v \in rows[e].data.refs : Known(v)
    /\ Start(w, [pc |-> "evaluate", e |-> e,
                 outcome |-> rows[e].data.outcome])
    /\ UNCHANGED <<rows, tables>>

StoreEvaluation(w) ==
    /\ At(w, "evaluate")
    /\ evaluations' = evaluations \cup
                        {[experience |-> task[w].e, outcome |-> task[w].outcome]}
    /\ Finish(w)
    /\ UNCHANGED <<rows, verifications, approvals, datasets, taught, derived>>

(***************************************************************************)
(* The founder signs learn:<id> over the content hash of the row as it is, *)
(* and may withdraw it; it may also expire.  verify() is true of a live    *)
(* approval of that action and hash.                                       *)
(***************************************************************************)
Sign(a, e) ==
    /\ ~IsSigned(a)
    /\ Exists(e)
    /\ approvals' = [approvals EXCEPT ![a] =
                       [experience |-> e, content |-> ContentOf(rows[e].data),
                        live |-> TRUE]]
    /\ UNCHANGED <<rows, verifications, evaluations, datasets, taught, derived,
                   task>>

Withdraw(a) ==
    /\ IsSigned(a)
    /\ approvals[a].live
    /\ approvals' = [approvals EXCEPT ![a].live = FALSE]
    /\ UNCHANGED <<rows, verifications, evaluations, datasets, taught, derived,
                   task>>

\* A slip: the content that was signed is not compared.
VerifyAnyContent(a, e, content) == /\ IsSigned(a)
                                   /\ approvals[a].live
                                   /\ approvals[a].experience = e

Verify(a, e, content) == /\ IsSigned(a)
                         /\ approvals[a].live
                         /\ approvals[a].experience = e
                         /\ approvals[a].content = content

(***************************************************************************)
(* approve_for_learning(): the row is read and the approval of what was    *)
(* read verified; the payload then carries the approval and the hash.      *)
(***************************************************************************)
\* A slip: the status is that of an approval.
ShortApprovedRow(row, a) ==
    [status |-> "APPROVED",
     data |-> [row.data EXCEPT
                 !.learning = [approval |-> a,
                               content |-> ContentOf(row.data)]]]

ApprovedRow(row, a) ==
    [status |-> "APPROVED_FOR_LEARNING",
     data |-> [row.data EXCEPT
                 !.state = "APPROVED_FOR_LEARNING",
                 !.learning = [approval |-> a,
                               content |-> ContentOf(row.data)]]]

ApproveForLearning(w, e, a) ==
    /\ Exists(e)
    /\ rows[e].status = "VERIFIED"
    /\ Verify(a, e, ContentOf(rows[e].data))
    /\ Start(w, [pc |-> "write", e |-> e, row |-> ApprovedRow(rows[e], a)])
    /\ UNCHANGED <<rows, tables>>

(***************************************************************************)
(* build_dataset(): one query reads the approved rows; then each is looked *)
(* at, with a query for its approval.  Ids are random, so any order of     *)
(* them may come; of two with the same training key the first one stays.   *)
(***************************************************************************)
TrainingKey(e, data) == <<KeyOf[e], data.outcome>>

BeginDataset(w) ==
    /\ Room
    /\ LET approved == WithStatus({"APPROVED_FOR_LEARNING"})
       IN  Start(w, [pc |-> "select", left |-> approved, kept |-> {},
                     read |-> [e \in approved |-> rows[e].data]])
    /\ UNCHANGED <<rows, tables>>

Duplicate(w, e) == \E k \in task[w].kept :
    TrainingKey(k, task[w].read[k]) = TrainingKey(e, task[w].read[e])

\* A slip: duplicates are kept.
EligibleTwice(w, e) ==
    LET learning == task[w].read[e].learning
    IN  /\ e \notin Private
        /\ learning # Unapproved
        /\ Verify(learning.approval, e, learning.content)

\* A slip: privacy is not looked at.
EligibleInPrivate(w, e) ==
    LET learning == task[w].read[e].learning
    IN  /\ learning # Unapproved
        /\ Verify(learning.approval, e, learning.content)
        /\ ~Duplicate(w, e)

Eligible(w, e) ==
    LET learning == task[w].read[e].learning
    IN  /\ e \notin Private
        /\ learning # Unapproved
        /\ Verify(learning.approval, e, learning.content)
        /\ ~Duplicate(w, e)

SelectMember(w) ==
    /\ At(w, "select")
    /\ \E e \in task[w].left :
          task' = [task EXCEPT ![w].left = @ \ {e},
                               ![w].kept = IF Eligible(w, e) THEN @ \cup {e}
                                           ELSE @]
    /\ UNCHANGED <<rows, tables>>

\* max(1, int(n * 0.6)) members of the shuffled list are for training.
TrainSize(n) == IF (n * 3) \div 5 = 0 THEN 1 ELSE (n * 3) \div 5

StoreDataset(w) ==
    /\ At(w, "select")
    /\ task[w].left = {}
    /\ IF task[w].kept = {} THEN UNCHANGED datasets
       ELSE \E train \in SUBSET task[w].kept :
               /\ Cardinality(train) = TrainSize(Cardinality(task[w].kept))
               /\ datasets' = datasets \cup
                    {[train |-> train,
                      approval |-> [e \in task[w].kept |->
                                      task[w].read[e].learning.approval]]}
    /\ Finish(w)
    /\ UNCHANGED <<rows, verifications, evaluations, approvals, taught, derived>>

(***************************************************************************)
(* train(): every epoch reads each experience of the train split as it is  *)
(* then, and the parameters stored at the end have learned from them all;  *)
(* parameters that did not change are refused.                             *)
(***************************************************************************)
Train(w, d) ==
    /\ Start(w, [pc |-> "train", members |-> d.train, seen |-> {}])
    /\ UNCHANGED <<rows, tables>>

Read(w) == {pair[1] : pair \in task[w].seen}

LearnFrom(w) ==
    /\ At(w, "train")
    /\ \E e \in task[w].members :
          task' = [task EXCEPT ![w].seen = @ \cup {<<e, rows[e].data.outcome>>}]
    /\ UNCHANGED <<rows, tables>>

StoreParameters(w) ==
    /\ At(w, "train")
    /\ Read(w) = task[w].members
    /\ taught' \in {taught, taught \cup task[w].seen}
    /\ Finish(w)
    /\ UNCHANGED <<rows, verifications, evaluations, approvals, datasets, derived>>

(***************************************************************************)
(* consolidate(): the approved experiences that share a goal with another  *)
(* make a procedure, that of the best reward.  Without them the record is  *)
(* empty, and left out here.                                               *)
(***************************************************************************)
SharingGoal(es) == {e \in es : \E f \in es \ {e} : KeyOf[f].goal = KeyOf[e].goal}
WithOutcome(statuses) ==
    {e \in WithStatus(statuses) : rows[e].data.outcome # NoOutcome}

\* A slip: a verified experience is enough.
VerifiedSupport == SharingGoal(WithOutcome(Settled))

Support == SharingGoal(WithOutcome({"APPROVED_FOR_LEARNING"}))

Consolidate(w) ==
    /\ Support # {}
    /\ Start(w, [pc |-> "consolidate",
                 seen |-> {<<e, rows[e].data.outcome>> : e \in Support}])
    /\ UNCHANGED <<rows, tables>>

StoreConsolidation(w) ==
    /\ At(w, "consolidate")
    /\ taught' = taught \cup task[w].seen
    /\ Finish(w)
    /\ UNCHANGED <<rows, verifications, evaluations, approvals, datasets, derived>>

(***************************************************************************)
(* Credit, calibrations, replays, curricula and concepts.  A request reads *)
(* what it needs and then inserts its record, which rests on the           *)
(* experiences that it has read; one that rests on none is left out.       *)
(***************************************************************************)
Derive(w, es) ==
    /\ Room
    /\ es # {}
    /\ Start(w, [pc |-> "derive", from |-> es])
    /\ UNCHANGED <<rows, tables>>

\* assign_credit() takes any evaluation for any experience.
AssignCredit(w, e, x) == Exists(e) /\ Derive(w, {x.experience})

Calibrate(w) == Derive(w, {x.experience : x \in evaluations})

\* replay(): a verified experience for each input.  form_curriculum() goes on
\* to insert a curriculum of the same list.
Replay(w) ==
    \E chosen \in SUBSET WithStatus(Settled) :
       /\ \A e \in WithStatus(Settled) :
             \E c \in chosen : KeyOf[c].input = KeyOf[e].input
       /\ \A c, d \in chosen : KeyOf[c].input = KeyOf[d].input => c = d
       /\ Derive(w, chosen)

(***************************************************************************)
(* form_concept() reads one experience after the other and refuses when    *)
(* one is not approved.  Two ids are required, which may be the same.      *)
(***************************************************************************)
IsApproved(e) == rows[e].status = "APPROVED_FOR_LEARNING"
Collect(left, from) ==
    IF left = {} THEN [pc |-> "derive", from |-> from]
                 ELSE [pc |-> "concept", left |-> left, from |-> from]

FormConcept(w, es) ==
    /\ Room
    /\ \E e \in es : IsApproved(e) /\ Start(w, Collect(es \ {e}, {e}))
    /\ UNCHANGED <<rows, tables>>

ReadSupport(w) ==
    /\ At(w, "concept")
    /\ \E e \in task[w].left :
          IF IsApproved(e)
          THEN task' = [task EXCEPT ![w] = Collect(task[w].left \ {e},
                                                   task[w].from \cup {e})]
          ELSE Finish(w)
    /\ UNCHANGED <<rows, tables>>

StoreDerived(w) ==
    /\ At(w, "derive")
    /\ derived' = derived \cup {task[w].from}
    /\ Finish(w)
    /\ UNCHANGED <<rows, verifications, evaluations, approvals, datasets, taught>>

\* A handler stops short: its process ends, or a statement raises because
\* the database stays locked.  The tables stay as they are.
Crash ==
    /\ MayCrash
    /\ \E w \in Workers : ~IsIdle(w) /\ Finish(w)
    /\ UNCHANGED <<rows, tables>>

Request(w) ==
    \/ \E e \in Experiences :
          \/ RecordExperience(w, e)
          \/ \E o \in Outcomes : Observe(w, e, o)
          \/ \E v \in Verifications, status \in {"VERIFIED", "UNVERIFIED"} :
                VerifyExperience(w, e, v, status)
          \/ Evaluate(w, e)
          \/ \E a \in Approvals : ApproveForLearning(w, e, a)
    \/ BeginDataset(w)
    \/ \E d \in datasets : Train(w, d)
    \/ \E e \in Experiences, x \in evaluations : AssignCredit(w, e, x)
    \/ Calibrate(w) \/ Replay(w) \/ Consolidate(w)
    \/ \E es \in SUBSET Experiences \ {{}} : FormConcept(w, es)

Step(w) == \/ WriteObserved(w) \/ ReadVerified(w) \/ WriteRow(w)
           \/ StoreEvaluation(w) \/ SelectMember(w) \/ StoreDataset(w)
           \/ LearnFrom(w) \/ StoreParameters(w)
           \/ StoreConsolidation(w) \/ ReadSupport(w) \/ StoreDerived(w)

Founder == \E a \in Approvals : Withdraw(a) \/ \E e \in Experiences : Sign(a, e)

Next == Crash \/ Founder \/ \E w \in Workers : Request(w) \/ Step(w)

Spec == Init /\ [][Next]_vars

-----------------------------------------------------------------------------
ObserveTask == [pc : {"observe"}, e : Experiences, data : Payload]
ReadTask == [pc : {"verify_read"}, e : Experiences, v : Verifications]
WriteTask == [pc : {"write"}, e : Experiences, row : Row]
ScoreTask == [pc : {"evaluate"}, e : Experiences,
              outcome : Outcomes \cup {NoOutcome}]
SelectTask(found) == [pc : {"select"}, left : SUBSET found,
                      kept : SUBSET found, read : [found -> Payload]]
TrainTask == [pc : {"train"}, members : SUBSET Experiences,
              seen : SUBSET Pairs]
ConsolidateTask == [pc : {"consolidate"}, seen : SUBSET Pairs]
DeriveTask == [pc : {"derive"}, from : SUBSET Experiences]
ConceptTask == [pc : {"concept"}, left : SUBSET Experiences,
                from : SUBSET Experiences]
Tasks == {Idle} \cup ObserveTask \cup ReadTask \cup WriteTask \cup ScoreTask
                \cup TrainTask \cup ConsolidateTask \cup DeriveTask
                \cup ConceptTask
                \cup UNION {SelectTask(found) : found \in SUBSET Experiences}
Dataset(source) == [train : SUBSET source, approval : [source -> Approvals]]

\* The variables hold rows and task records of the shapes above.
TypeOK ==
    /\ rows \in [Experiences -> {NoRow} \cup Row]
    /\ verifications \in [Verifications -> {Unused} \cup Verification]
    /\ evaluations \subseteq [experience : Experiences,
                              outcome : Outcomes \cup {NoOutcome}]
    /\ approvals \in [Approvals -> {Unsigned} \cup Approval]
    /\ \A d \in datasets : \E source \in SUBSET Experiences : d \in Dataset(source)
    /\ taught \subseteq Pairs
    /\ derived \subseteq SUBSET Experiences
    /\ task \in [Workers -> Tasks]

(***************************************************************************)
(* A row that carries an approval has the outcome that the founder signed  *)
(* for it, however observations, verifications and approvals overlap: a    *)
(* stale write may lose the approval, never keep it with another outcome.  *)
(***************************************************************************)
AsSigned(e, data) ==
    data.learning # Unapproved =>
       LET a == data.learning.approval
       IN  /\ IsSigned(a)
           /\ approvals[a].experience = e
           /\ approvals[a].content = data.learning.content
           /\ approvals[a].content.outcome = data.outcome
ApprovedAsSigned == \A e \in Experiences : Exists(e) => AsSigned(e, rows[e].data)

\* Nothing counts as verified without a verification that says so.
Proven(e) == \E v \in Verifications :
    verifications[v] = [status |-> "VERIFIED", experience |-> e]
VerifiedIsProven ==
    \A e \in Experiences : rows[e].status \in Settled => Proven(e)

\* The evidence that a payload names is stored, and is about its experience.
OwnEvidence(e, data) ==
    \A v \in data.refs : Known(v) /\ verifications[v].experience = e

\* The members of a dataset are there, verified, public, and signed for by id.
DatasetsSigned ==
    \A d \in datasets : \A e \in DOMAIN d.approval :
       /\ Exists(e) /\ e \notin Private /\ Proven(e)
       /\ IsSigned(d.approval[e])
       /\ approvals[d.approval[e]].experience = e

(***************************************************************************)
(* Whatever a stale write has since made of the row: each experience that  *)
(* an evaluation is of, that the evaluation behind credit is of, or that a *)
(* calibration, a replay, a curriculum or a concept names, has a           *)
(* verification that says VERIFIED.                                        *)
(***************************************************************************)
DerivedIsProven ==
    /\ \A x \in evaluations : Proven(x.experience)
    /\ \A es \in derived : \A e \in es : Proven(e)

(***************************************************************************)
(* Why these four hold: the inductive invariant.  Only an approved row     *)
(* carries an approval, and so does every copy that a handler will write   *)
(* back, with the status it will write; what observe() writes back was     *)
(* read before any approval.                                               *)
(***************************************************************************)
Sound(e, row) ==
    /\ row.data.learning # Unapproved => row.status = "APPROVED_FOR_LEARNING"
    /\ AsSigned(e, row.data)
    /\ row.status \in Settled => Proven(e)
    /\ OwnEvidence(e, row.data)
SoundTask(w) ==
    /\ At(w, "observe") => /\ Exists(task[w].e)
                           /\ task[w].data.learning = Unapproved
                           /\ OwnEvidence(task[w].e, task[w].data)
    /\ At(w, "verify_read") => /\ Known(task[w].v)
                               /\ verifications[task[w].v].experience = task[w].e
    /\ At(w, "write") => Sound(task[w].e, task[w].row)
    /\ At(w, "select") =>
          /\ \A e \in DOMAIN task[w].read :
                Exists(e) /\ Proven(e) /\ AsSigned(e, task[w].read[e])
          /\ \A e \in task[w].kept :
                e \notin Private /\ task[w].read[e].learning # Unapproved
    /\ At(w, "train") => \A e \in task[w].members : Exists(e)
    /\ At(w, "evaluate") => Proven(task[w].e)
    /\ At(w, "derive") \/ At(w, "concept") =>
          \A e \in task[w].from : Proven(e)
ExperienceInv ==
    /\ \A e \in Experiences : Exists(e) => Sound(e, rows[e])
    /\ \A w \in Workers : SoundTask(w)
    /\ DatasetsSigned

(***************************************************************************)
(* "Verified experience outcomes are immutable" (observe()), as far as the *)
(* code keeps it.  Observations and verifications that overlap may each    *)
(* write a row back from a copy that is stale, but disagreement dies out:  *)
(* once a row is verified, and every copy of it that is still to be        *)
(* written has its outcome and a verified status, no request changes the   *)
(* outcome or takes the row out of those statuses again.                   *)
(***************************************************************************)
Holds(w, e) == task[w].pc \in {"observe", "write"} /\ task[w].e = e
CopyOf(w) == IF At(w, "observe") THEN task[w].data ELSE task[w].row.data
Final(e) ==
    /\ rows[e].status \in Settled
    /\ \A w \in Workers : Holds(w, e) =>
          /\ CopyOf(w).outcome = rows[e].data.outcome
          /\ At(w, "write") => task[w].row.status \in Settled
OutcomesSettle ==
    [][\A e \in Experiences :
          Final(e) => Final(e)' /\ UNCHANGED rows[e].data.outcome]_vars

(***************************************************************************)
(* So is evidence.  verify_experience() may lose the reference of another  *)
(* verification that overlaps it; a reference that is in the row and in    *)
(* every copy still to be written is never lost, by no observation,        *)
(* verification or approval.                                               *)
(***************************************************************************)
Kept(e, v) == /\ Exists(e) /\ v \in rows[e].data.refs
              /\ \A w \in Workers : Holds(w, e) => v \in CopyOf(w).refs
EvidenceSettles ==
    [][\A e \in Experiences, v \in Verifications :
          Kept(e, v) => Kept(e, v)']_vars

(***************************************************************************)
(* Policies are trained on, and procedures consolidated from, outcomes     *)
(* that the founder signed for that experience, never others, although     *)
(* train reads the rows again and consolidate asks for the status alone.   *)
(***************************************************************************)
LearnedIsSigned ==
    \A pair \in taught : \E a \in Approvals :
       /\ IsSigned(a)
       /\ approvals[a].experience = pair[1]
       /\ approvals[a].content.outcome = pair[2]

\* The members of a dataset stay approved and distinct in what they teach.
DatasetsDistinct ==
    \A d \in datasets : \A e, f \in DOMAIN d.approval :
       /\ rows[e].status = "APPROVED_FOR_LEARNING"
       /\ TrainingKey(e, rows[e].data) = TrainingKey(f, rows[f].data) => e = f
=============================================================================
