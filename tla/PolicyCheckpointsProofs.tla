----------------------- MODULE PolicyCheckpointsProofs -----------------------
(***************************************************************************)
(* Proofs about PolicyCheckpoints, for any number of threads, checkpoints, *)
(* hashes and approvals.                                                   *)
(***************************************************************************)
EXTENDS PolicyCheckpoints, FiniteSetTheorems, TLAPS

\* The initial state has the declared types.
LEMMA InitType == Init => TypeOK
  BY PolicyAssumption
  DEF PolicyAssumption, Init, TypeOK, Checkpoints, PolicyStatuses, Baseline,
      Tasks, Idle, Unsigned

\* What a worker is doing, by the place it is at.
LEMMA TaskShape ==
  ASSUME TypeOK, NEW w \in Workers
  PROVE  /\ At(w, "record_run") => task[w] \in [pc : {"record_run"},
                                                c : Checkpoints]
         /\ At(w, "demote") \/ At(w, "activate") =>
               task[w] \in [pc : {"demote", "activate"}, action : Actions,
                            c : Checkpoints]
  BY DEF TypeOK, At, Tasks, Idle

\* Every step keeps the declared types.
LEMMA StepType == TypeOK /\ [Next]_vars => TypeOK'
<1> SUFFICES ASSUME TypeOK, [Next]_vars PROVE TypeOK'
  OBVIOUS
<1> USE DEF TypeOK, past
<1>1. ASSUME NEW w \in Workers, NEW h \in Hashes, Train(w, h)
      PROVE  TypeOK'
  BY <1>1 DEF Train, Start, PolicyStatuses, Tasks
<1>2. ASSUME NEW w \in Workers, NEW c \in Checkpoints,
             NEW passed \in BOOLEAN, Canary(w, c, passed)
      PROVE  TypeOK'
  BY <1>2 DEF Canary
<1>3. ASSUME NEW w \in Workers, NEW c \in Checkpoints, NEW a \in Approvals,
             Promote(w, c, a) \/ RollbackPolicy(w, c, a)
      PROVE  TypeOK'
  <2>1. PICK action \in Actions :
           Start(w, [pc |-> "demote", action |-> action, c |-> c])
    BY <1>3 DEF Promote, RollbackPolicy, Actions
  <2>2. [pc |-> "demote", action |-> action, c |-> c] \in Tasks
    BY DEF Tasks
  <2>3. /\ task' \in [Workers -> Tasks]
        /\ overlapped' \in BOOLEAN /\ stopped' \in BOOLEAN
    BY <2>1, <2>2 DEF Start
  <2> QED
    BY <1>3, <2>3 DEF Promote, RollbackPolicy
<1>4. ASSUME NEW w \in Workers, RecordRun(w)
      PROVE  TypeOK'
  BY <1>4, TaskShape DEF RecordRun, Tasks
<1>5. ASSUME NEW w \in Workers, Demote(w)
      PROVE  TypeOK'
  <2>1. [task[w] EXCEPT !.pc = "activate"] \in Tasks
    BY <1>5, TaskShape DEF Demote, Tasks
  <2> QED
    BY <1>5, <2>1 DEF Demote, PolicyStatuses
<1>6. ASSUME NEW w \in Workers, Activate(w)
      PROVE  TypeOK'
  BY <1>6 DEF Activate, PolicyStatuses, Tasks
<1>7. ASSUME NEW a \in Approvals, Founder(a)
      PROVE  TypeOK'
  <2>1. CASE \E action \in Actions, c, d \in Checkpoints,
                decision \in {"APPROVED", "DENIED"} :
                   Sign(a, action, c, d, decision)
    BY <2>1 DEF Sign, Approval
  <2>2. CASE Revoke(a) \/ Expire(a)
    <3>1. approvals[a] \in Approval
      BY <2>2 DEF Revoke, Expire
    <3>2. /\ [approvals[a] EXCEPT !.revoked = TRUE] \in Approval
          /\ [approvals[a] EXCEPT !.expired = TRUE] \in Approval
      BY <3>1 DEF Approval
    <3> QED
      BY <2>2, <3>2 DEF Revoke, Expire
  <2> QED
    BY <1>7, <2>1, <2>2 DEF Founder
<1>8. CASE Crash
  BY <1>8 DEF Crash, Tasks
<1>9. CASE UNCHANGED vars
  BY <1>9 DEF vars, past
<1> QED
  BY <1>1, <1>2, <1>3, <1>4, <1>5, <1>6, <1>7, <1>8, <1>9
  DEF Next, Request, Step

(***************************************************************************)
(* The variables hold what their declarations say in every reachable state *)
(* (all of PolicyCheckpoints).                                             *)
(***************************************************************************)
THEOREM PolicyTypeCorrect == Spec => []TypeOK
<1>1. Init => TypeOK
  BY InitType
<1>2. TypeOK /\ [Next]_vars => TypeOK'
  BY StepType
<1> QED
  BY <1>1, <1>2, PTL DEF Spec

-----------------------------------------------------------------------------
(***************************************************************************)
(* What is ACTIVE, or about to be, exists and was authorised.  A hash is   *)
(* set only when its checkpoint is created, and neither a signature nor a  *)
(* canary result is ever deleted, so an authorisation that a handler read  *)
(* before it waited still stands when it acts.                             *)
(***************************************************************************)
Underway(w) == At(w, "demote") \/ At(w, "activate")
Entitled(c) == Exists(c) /\ (c # Baseline => Authorized(c))
EntitledOnly == /\ \A c \in Active : Entitled(c)
                /\ \A w \in Workers : Underway(w) => Entitled(task[w].c)

\* The initial state is entitled: only the baseline is ACTIVE.
LEMMA InitEntitled == Init => EntitledOnly
  BY DEF Init, EntitledOnly, Entitled, Active, Exists, Underway, At, Idle

\* An authorisation outlives every step, for as long as its checkpoint does.
LEMMA EntitledStays ==
  ASSUME TypeOK, [Next]_vars, NEW c \in Checkpoints, Entitled(c)
  PROVE  Entitled(c)'
<1>1. hash'[c] = hash[c] /\ canaries \subseteq canaries' /\ Exists(c)'
  BY DEF Entitled, Exists, TypeOK, Next, Request, Step, Founder, vars, Train,
         RecordRun, Canary, Sign, Revoke, Expire, Promote, RollbackPolicy,
         Start, Demote, Activate, Crash
<1>2. ASSUME NEW a \in Approvals, approvals[a] # Unsigned
      PROVE  /\ approvals'[a] # Unsigned
             /\ approvals'[a].action = approvals[a].action
             /\ approvals'[a].checkpoint = approvals[a].checkpoint
             /\ approvals'[a].hash = approvals[a].hash
             /\ approvals'[a].decision = approvals[a].decision
  <2>1. approvals[a] \in Approval
    BY <1>2 DEF TypeOK
  <2>2. \/ approvals'[a] = approvals[a]
        \/ approvals'[a] = [approvals[a] EXCEPT !.revoked = TRUE]
        \/ approvals'[a] = [approvals[a] EXCEPT !.expired = TRUE]
    <3>1. ASSUME NEW b \in Approvals, Founder(b)
          PROVE  \/ approvals'[a] = approvals[a]
                 \/ approvals'[a] = [approvals[a] EXCEPT !.revoked = TRUE]
                 \/ approvals'[a] = [approvals[a] EXCEPT !.expired = TRUE]
      BY <3>1, <1>2 DEF Founder, Sign, Revoke, Expire, TypeOK
    <3>2. CASE ~ \E b \in Approvals : Founder(b)
      BY <3>2 DEF Next, Request, Step, vars, Train, RecordRun, Canary,
             Promote, RollbackPolicy, Start, Demote, Activate, Crash
    <3> QED
      BY <3>1, <3>2
  <2> QED
    BY <2>1, <2>2 DEF Approval, Unsigned
<1>3. ASSUME NEW action \in Actions, Signed(action, c)
      PROVE  Signed(action, c)'
  BY <1>1, <1>2, <1>3 DEF Signed
<1>4. Authorized(c) => Authorized(c)'
  BY <1>1, <1>3 DEF Authorized, Promotable, Actions
<1> QED
  BY <1>1, <1>4 DEF Entitled

\* A request that passes its checks is entitled to what it will do.
LEMMA AdmittedEntitled ==
  ASSUME TypeOK, NEW w \in Workers, NEW c \in Checkpoints,
         NEW a \in Approvals, Promote(w, c, a) \/ RollbackPolicy(w, c, a)
  PROVE  Entitled(c)
  BY DEF Promote, RollbackPolicy, Verify, Entitled, Authorized, Promotable,
         Signed

\* A step sets ACTIVE only what its handler was admitted for, and starts
\* only what it admits.
LEMMA StepEntitled ==
  TypeOK /\ EntitledOnly /\ [Next]_vars => EntitledOnly'
<1> SUFFICES ASSUME TypeOK, EntitledOnly, [Next]_vars PROVE EntitledOnly'
  OBVIOUS
<1>1. ASSUME NEW c \in Checkpoints, c \in Active'
      PROVE  c \in Active \/ \E w \in Workers : At(w, "activate")
                                                  /\ task[w].c = c
  BY <1>1 DEF Active, TypeOK, Next, Request, Step, Founder, vars, Train,
         RecordRun, Canary, Sign, Revoke, Expire, Promote, RollbackPolicy,
         Start, Demote, Activate, Crash
<1>2. ASSUME NEW w \in Workers, Underway(w)'
      PROVE  /\ task'[w].c \in Checkpoints
             /\ Entitled(task'[w].c)
  <2>1. ASSUME NEW c \in Checkpoints, NEW a \in Approvals,
               Promote(w, c, a) \/ RollbackPolicy(w, c, a)
        PROVE  task'[w].c \in Checkpoints /\ Entitled(task'[w].c)
    <3>1. task'[w].c = c
      BY <2>1 DEF Promote, RollbackPolicy, Start, TypeOK
    <3>2. Entitled(c)
      BY <2>1, AdmittedEntitled
    <3> QED
      BY <3>1, <3>2
  <2>2. CASE ~ \E c \in Checkpoints, a \in Approvals :
                  Promote(w, c, a) \/ RollbackPolicy(w, c, a)
    <3>1. ASSUME NEW v \in Workers, Step(v)
          PROVE  Underway(w) /\ task'[w].c = task[w].c
      BY <3>1, <1>2, TaskShape
      DEF Step, Underway, At, TypeOK, RecordRun, Demote, Activate, Idle
    <3>2. ASSUME NEW v \in Workers, Request(v)
          PROVE  Underway(w) /\ task'[w].c = task[w].c
      <4>1. ASSUME NEW c \in Checkpoints, NEW a \in Approvals,
                   Promote(v, c, a) \/ RollbackPolicy(v, c, a)
            PROVE  Underway(w) /\ task'[w].c = task[w].c
        <5>1. v # w
          BY <2>2, <4>1
        <5> QED
          BY <4>1, <5>1, <1>2
          DEF Promote, RollbackPolicy, Start, Underway, At, TypeOK
      <4>2. ASSUME NEW h \in Hashes, Train(v, h)
            PROVE  Underway(w) /\ task'[w].c = task[w].c
        BY <4>2, <1>2 DEF Train, Start, Underway, At, TypeOK
      <4>3. ASSUME NEW c \in Checkpoints, NEW passed \in BOOLEAN,
                   Canary(v, c, passed)
            PROVE  Underway(w) /\ task'[w].c = task[w].c
        BY <4>3, <1>2 DEF Canary, Underway, At
      <4> QED
        BY <3>2, <4>1, <4>2, <4>3 DEF Request
    <3>3. ASSUME UNCHANGED task
          PROVE  Underway(w) /\ task'[w].c = task[w].c
      BY <3>3, <1>2 DEF Underway, At
    <3>4. ASSUME Crash
          PROVE  Underway(w) /\ task'[w].c = task[w].c
      BY <3>4, <1>2 DEF Crash, Underway, At, Idle
    <3>5. Underway(w) /\ task'[w].c = task[w].c
      BY <3>1, <3>2, <3>3, <3>4
      DEF Next, Founder, Sign, Revoke, Expire, vars
    <3> QED
      BY <3>5, TaskShape DEF EntitledOnly, Underway
  <2> QED
    BY <2>1, <2>2
<1>3. ASSUME NEW c \in Active' PROVE Entitled(c)'
  <2>1. c \in Checkpoints
    BY <1>3 DEF Active
  <2>2. Entitled(c)
    BY <2>1, <1>1, <1>3 DEF EntitledOnly, Underway
  <2> QED
    BY <2>1, <2>2, EntitledStays
<1>4. ASSUME NEW w \in Workers, Underway(w)' PROVE Entitled(task[w].c)'
  <2>1. PICK c \in Checkpoints : c = task'[w].c /\ Entitled(c)
    BY <1>2, <1>4
  <2>2. Entitled(c)'
    BY <2>1, EntitledStays
  <2> QED
    BY <2>1, <2>2 DEF Entitled, Exists, Authorized, Promotable, Signed
<1> QED
  BY <1>3, <1>4 DEF EntitledOnly

(***************************************************************************)
(* An ACTIVE checkpoint was approved, under its id and hash, and if it was *)
(* only approved for promotion its canary passed, whatever handlers        *)
(* overlap, wherever one stops and whenever the approval is revoked or     *)
(* expires (promote, rollback_policy, FounderAuthority.verify).            *)
(***************************************************************************)
THEOREM ActivationIsAuthorized == Spec => []ActivationAuthorized
<1>1. Init => TypeOK /\ EntitledOnly
  BY InitType, InitEntitled
<1>2. TypeOK /\ EntitledOnly /\ [Next]_vars => TypeOK' /\ EntitledOnly'
  BY StepType, StepEntitled
<1>3. EntitledOnly => ActivationAuthorized
  BY DEF EntitledOnly, ActivationAuthorized, Entitled
<1> QED
  BY <1>1, <1>2, <1>3, PTL DEF Spec

-----------------------------------------------------------------------------
\* The sets that are counted are finite.
LEMMA Finite == /\ IsFiniteSet(Active) /\ IsFiniteSet(Activating)
                /\ IsFiniteSet(Workers)
                /\ Cardinality(Active) \in Nat
                /\ Cardinality(Activating) \in Nat
                /\ Cardinality(Workers) \in Nat
                /\ Cardinality(Activating) <= Cardinality(Workers)
<1>1. IsFiniteSet(Checkpoints)
  BY PolicyAssumption, FS_Interval DEF PolicyAssumption, Checkpoints
<1>2. Active \subseteq Checkpoints /\ Activating \subseteq Workers
  BY DEF Active, Activating
<1> QED
  BY <1>1, <1>2, FS_Subset, FS_CardinalityType, PolicyAssumption
  DEF PolicyAssumption

\* A request, or the recording of a training run, puts no worker between the
\* two UPDATEs and takes none from there.
LEMMA KeepsPlace ==
  ASSUME TypeOK, NEW w \in Workers, RecordRun(w) \/ Request(w)
  PROVE  Activating' = Activating
<1>1. ASSUME NEW v \in Workers PROVE At(v, "activate")' <=> At(v, "activate")
  <2>1. CASE RecordRun(w)
    BY <2>1 DEF RecordRun, At, TypeOK, Idle
  <2>2. ASSUME NEW h \in Hashes, Train(w, h)
        PROVE  At(v, "activate")' <=> At(v, "activate")
    BY <2>2 DEF Train, Start, At, IsIdle, TypeOK
  <2>3. ASSUME NEW c \in Checkpoints, NEW a \in Approvals,
               Promote(w, c, a) \/ RollbackPolicy(w, c, a)
        PROVE  At(v, "activate")' <=> At(v, "activate")
    BY <2>3 DEF Promote, RollbackPolicy, Start, At, IsIdle, TypeOK
  <2>4. ASSUME UNCHANGED task
        PROVE  At(v, "activate")' <=> At(v, "activate")
    BY <2>4 DEF At
  <2> QED
    BY <2>1, <2>2, <2>3, <2>4 DEF Request, Canary
<1> QED
  BY <1>1 DEF Activating

\* One ACTIVE row and no handler between its UPDATEs.
LEMMA InitBounded == Init => ActiveBounded
<1> SUFFICES ASSUME Init PROVE ActiveBounded
  OBVIOUS
<1>1. Active = {Baseline} /\ Activating = {}
  BY PolicyAssumption
  DEF PolicyAssumption, Init, Active, Activating, At, Idle, Baseline,
      Checkpoints
<1>2. Cardinality(Active) = 1 /\ Cardinality(Activating) = 0
  BY <1>1, FS_Singleton, FS_EmptySet
<1>3. Cardinality(Workers) # 0
  BY PolicyAssumption, FS_EmptySet DEF PolicyAssumption
<1> QED
  BY <1>2, <1>3, Finite DEF ActiveBounded

\* Each handler trades its place between the UPDATEs for one ACTIVE row.
LEMMA StepBounded ==
  TypeOK /\ ActiveBounded /\ [Next]_vars => ActiveBounded'
<1> SUFFICES ASSUME TypeOK, ActiveBounded, [Next]_vars PROVE ActiveBounded'
  OBVIOUS
<1>1. ASSUME NEW w \in Workers, Demote(w)
      PROVE  ActiveBounded'
  <2>1. Active' = {}
    BY <1>1 DEF Demote, Active
  <2>2. Activating' \subseteq Workers
    BY DEF Activating
  <2>3. Cardinality(Activating') <= Cardinality(Workers)
    BY <2>2, FS_Subset, PolicyAssumption DEF PolicyAssumption
  <2> QED
    <3>1. /\ Cardinality(Active') = 0
          /\ Cardinality(Activating') \in Nat
      BY <2>1, <2>2, FS_EmptySet, FS_Subset, FS_CardinalityType,
         PolicyAssumption DEF PolicyAssumption
    <3>2. Cardinality(Active') + Cardinality(Activating')
             <= Cardinality(Workers)
      BY <3>1, <2>3, Finite
    <3> QED
      BY <3>2 DEF ActiveBounded
<1>2. ASSUME NEW w \in Workers, Activate(w)
      PROVE  ActiveBounded'
  <2>1. PICK c \in Checkpoints : c = task[w].c
    BY <1>2, TaskShape DEF Activate
  <2>2. Active' = Active \cup {c}
    BY <1>2, <2>1 DEF Activate, Active, TypeOK
  <2>3. Activating' = Activating \ {w} /\ w \in Activating
    BY <1>2 DEF Activate, Activating, At, TypeOK, Idle
  <2>4. Cardinality(Active') <= Cardinality(Active) + 1
    <3>1. \/ Cardinality(Active') = Cardinality(Active)
          \/ Cardinality(Active') = Cardinality(Active) + 1
      BY <2>2, Finite, FS_AddElement
    <3> QED
      BY <3>1, Finite
  <2>5. Cardinality(Activating') = Cardinality(Activating) - 1
    BY <2>3, Finite, FS_RemoveElement
  <2>6. Cardinality(Active') \in Nat
    BY <2>2, Finite, FS_AddElement, FS_CardinalityType
  <2>7. Cardinality(Active') + Cardinality(Activating')
           <= Cardinality(Workers)
    BY <2>4, <2>5, <2>6, Finite DEF ActiveBounded
  <2> QED
    BY <2>7 DEF ActiveBounded
<1>3. ASSUME Active' = Active, Activating' \subseteq Activating
      PROVE  ActiveBounded'
  <2>1. /\ Cardinality(Activating') \in Nat
        /\ Cardinality(Activating') <= Cardinality(Activating)
    BY <1>3, Finite, FS_Subset, FS_CardinalityType
  <2>2. Cardinality(Active') + Cardinality(Activating')
           <= Cardinality(Workers)
    BY <1>3, <2>1, Finite DEF ActiveBounded
  <2> QED
    BY <2>2 DEF ActiveBounded
<1>4. ASSUME NEW w \in Workers, RecordRun(w) \/ Request(w)
      PROVE  ActiveBounded'
  <2>1. Active' = Active
    BY <1>4 DEF RecordRun, Request, Train, Canary, Promote, RollbackPolicy,
           Active, TypeOK, Exists
  <2>2. Activating' = Activating
    BY <1>4, KeepsPlace
  <2> QED
    BY <2>1, <2>2, <1>3
<1>5. CASE Crash
  <2>0. PICK w \in Workers : task' = [task EXCEPT ![w] = Idle]
    BY <1>5 DEF Crash
  <2>1. Active' = Active /\ Activating' \subseteq Activating
    BY <1>5, <2>0 DEF Crash, Active, Activating, At, Idle, TypeOK
  <2> QED
    BY <2>1, <1>3
<1>6. CASE UNCHANGED <<status, task>>
  <2>1. Active' = Active /\ Activating' = Activating
    BY <1>6 DEF Active, Activating, At
  <2> QED
    BY <2>1, <1>3
<1> QED
  BY <1>1, <1>2, <1>4, <1>5, <1>6
  DEF Next, Step, Founder, Sign, Revoke, Expire, vars

(***************************************************************************)
(* There are never more ACTIVE rows than threads, so never more than one   *)
(* when requests are handled one at a time (promote, rollback_policy).     *)
(***************************************************************************)
THEOREM ActiveIsBounded == Spec => []ActiveBounded
<1>1. Init => TypeOK /\ ActiveBounded
  BY InitType, InitBounded
<1>2. TypeOK /\ ActiveBounded /\ [Next]_vars => TypeOK' /\ ActiveBounded'
  BY StepType, StepBounded
<1> QED
  BY <1>1, <1>2, PTL DEF Spec

\* A step that is not a crash leaves a policy, or a handler to activate one.
LEMMA StepNeverWithout ==
  TypeOK /\ NeverWithoutPolicy /\ [Next]_vars => NeverWithoutPolicy'
<1> SUFFICES ASSUME TypeOK, NeverWithoutPolicy, [Next]_vars
             PROVE  NeverWithoutPolicy'
  OBVIOUS
<1>1. ASSUME NEW w \in Workers, Demote(w)
      PROVE  NeverWithoutPolicy'
  <2>1. w \in Activating'
    BY <1>1, TaskShape DEF Demote, Activating, At, TypeOK
  <2> QED
    BY <2>1 DEF NeverWithoutPolicy
<1>2. ASSUME NEW w \in Workers, Activate(w)
      PROVE  NeverWithoutPolicy'
  <2>1. PICK c \in Checkpoints : c = task[w].c
    BY <1>2, TaskShape DEF Activate
  <2>2. c \in Active'
    BY <1>2, <2>1 DEF Activate, Active, TypeOK
  <2> QED
    BY <2>2 DEF NeverWithoutPolicy
<1>3. ASSUME NEW w \in Workers, RecordRun(w) \/ Request(w)
      PROVE  NeverWithoutPolicy'
  <2>1. Active' = Active
    BY <1>3 DEF RecordRun, Request, Train, Canary, Promote, RollbackPolicy,
           Active, TypeOK, Exists
  <2>2. Activating' = Activating
    BY <1>3, KeepsPlace
  <2>3. stopped' = stopped
    BY <1>3 DEF RecordRun, Request, Train, Canary, Promote, RollbackPolicy,
           Start, past
  <2> QED
    BY <2>1, <2>2, <2>3 DEF NeverWithoutPolicy
<1>4. CASE Crash
  BY <1>4 DEF Crash, NeverWithoutPolicy
<1>5. CASE UNCHANGED <<status, task, past>>
  BY <1>5 DEF NeverWithoutPolicy, Active, Activating, At, past
<1> QED
  BY <1>1, <1>2, <1>3, <1>4, <1>5
  DEF Next, Step, Founder, Sign, Revoke, Expire, vars

(***************************************************************************)
(* As long as no handler stops half-way the table is never left without an *)
(* ACTIVE policy except by a handler that is about to set one (promote,    *)
(* rollback_policy).                                                       *)
(***************************************************************************)
THEOREM PolicyAlwaysThere == Spec => []NeverWithoutPolicy
<1>1. Init => TypeOK /\ NeverWithoutPolicy
  <2>1. Init => Baseline \in Active
    BY PolicyAssumption
    DEF PolicyAssumption, Init, Active, Baseline, Checkpoints
  <2> QED
    BY <2>1, InitType DEF NeverWithoutPolicy
<1>2. TypeOK /\ NeverWithoutPolicy /\ [Next]_vars
         => TypeOK' /\ NeverWithoutPolicy'
  BY StepType, StepNeverWithout
<1> QED
  BY <1>1, <1>2, PTL DEF Spec

-----------------------------------------------------------------------------
(***************************************************************************)
(* Until handlers overlap at most one is under way, and when it is between *)
(* its UPDATEs no row is ACTIVE: the one it sets is then the only one.     *)
(***************************************************************************)
OneAtATime == ~overlapped => \A v, w \in Workers :
                 ~IsIdle(v) /\ ~IsIdle(w) => v = w
ClearedFirst == ~overlapped => (Activating # {} => Active = {})
InTurn == OneAtATime /\ ClearedFirst

\* Nothing is under way at first.
LEMMA InitInTurn == Init => InTurn
  BY DEF Init, InTurn, OneAtATime, ClearedFirst, Activating, IsIdle, At, Idle

\* What a worker begins while no other is busy overlaps with nothing.
LEMMA StartInTurn ==
  ASSUME TypeOK, InTurn, NEW w \in Workers, NEW t, Start(w, t),
         t.pc # "activate", status' \in [Checkpoints -> PolicyStatuses],
         \A c \in Checkpoints : status'[c] = "ACTIVE" => status[c] = "ACTIVE"
  PROVE  InTurn'
<1>1. ASSUME ~overlapped'
      PROVE  ~overlapped /\ AllIdle
  BY <1>1 DEF Start, TypeOK
<1>2. OneAtATime'
  BY <1>1 DEF OneAtATime, AllIdle, Start, IsIdle, At, TypeOK
<1>3. ASSUME NEW v \in Workers PROVE At(v, "activate")' => At(v, "activate")
  BY <1>3 DEF Start, At, TypeOK
<1>4. Activating' \subseteq Activating
  BY <1>3 DEF Activating
<1>5. Active' \subseteq Active
  BY DEF Active
<1> QED
  BY <1>1, <1>2, <1>4, <1>5 DEF InTurn, ClearedFirst

\* Every step keeps turns as long as handlers have not overlapped.
LEMMA StepInTurn == TypeOK /\ InTurn /\ [Next]_vars => InTurn'
<1> SUFFICES ASSUME TypeOK, InTurn, [Next]_vars PROVE InTurn'
  OBVIOUS
<1>1. ASSUME NEW w \in Workers, NEW h \in Hashes, Train(w, h)
      PROVE  InTurn'
  <2>1. PICK c \in Checkpoints :
           /\ status' = [status EXCEPT ![c] = "CANDIDATE"]
           /\ Start(w, [pc |-> "record_run", c |-> c])
    BY <1>1 DEF Train
  <2>2. status' \in [Checkpoints -> PolicyStatuses]
    BY <2>1 DEF TypeOK, PolicyStatuses
  <2>3. \A d \in Checkpoints : status'[d] = "ACTIVE" => status[d] = "ACTIVE"
    BY <2>1 DEF TypeOK
  <2> QED
    BY <2>1, <2>2, <2>3, StartInTurn
<1>2. ASSUME NEW w \in Workers, NEW c \in Checkpoints, NEW a \in Approvals,
             Promote(w, c, a) \/ RollbackPolicy(w, c, a)
      PROVE  InTurn'
  <2>1. PICK t : Start(w, t) /\ t.pc = "demote"
    BY <1>2 DEF Promote, RollbackPolicy
  <2>2. status' = status
    BY <1>2 DEF Promote, RollbackPolicy
  <2> QED
    BY <2>1, <2>2, StartInTurn DEF TypeOK
<1>3. ASSUME NEW w \in Workers, Demote(w)
      PROVE  InTurn'
  <2>1. \A v \in Workers : IsIdle(v)' <=> IsIdle(v)
    BY <1>3, TaskShape DEF Demote, IsIdle, At, TypeOK
  <2>2. OneAtATime'
    BY <1>3, <2>1 DEF InTurn, OneAtATime, Demote, past
  <2>3. Active' = {}
    BY <1>3 DEF Demote, Active
  <2> QED
    BY <2>2, <2>3 DEF InTurn, ClearedFirst
<1>4. ASSUME NEW w \in Workers, UNCHANGED overlapped, ~IsIdle(w),
             task' = [task EXCEPT ![w] = Idle]
      PROVE  /\ OneAtATime'
             /\ ~overlapped => Activating' = {}
  <2>1. \A v \in Workers : IsIdle(v) => IsIdle(v)'
    BY <1>4 DEF IsIdle, At, TypeOK, Idle
  <2>2. \A v \in Workers : ~overlapped => IsIdle(v)'
    BY <1>4 DEF InTurn, OneAtATime, IsIdle, At, TypeOK, Idle
  <2> QED
    BY <1>4, <2>1, <2>2 DEF InTurn, OneAtATime, Activating, IsIdle, At
<1>5. ASSUME NEW w \in Workers, RecordRun(w) \/ Activate(w)
      PROVE  InTurn'
  BY <1>4, <1>5
  DEF InTurn, ClearedFirst, RecordRun, Activate, past, IsIdle, At
<1>6. CASE Crash
  <2>1. PICK w \in Workers : ~IsIdle(w) /\ task' = [task EXCEPT ![w] = Idle]
    BY <1>6 DEF Crash
  <2> QED
    BY <1>4, <1>6, <2>1 DEF InTurn, ClearedFirst, Crash
<1>7. CASE UNCHANGED <<status, task, past>>
  BY <1>7 DEF InTurn, OneAtATime, ClearedFirst, Active, Activating, IsIdle,
              At, past
<1> QED
  BY <1>1, <1>2, <1>3, <1>5, <1>6, <1>7
  DEF Next, Request, Step, Founder, Canary, Sign, Revoke, Expire, vars

(***************************************************************************)
(* While handlers run one at a time, promote and rollback_policy end with  *)
(* their target in use: not a row that was created later, and not what a   *)
(* handler that stopped has left.                                          *)
(***************************************************************************)
THEOREM PromotionTakesEffect == Spec => TakesEffect
<1>1. Init => TypeOK /\ InTurn
  BY InitType, InitInTurn
<1>2. TypeOK /\ InTurn /\ [Next]_vars => TypeOK' /\ InTurn'
  BY StepType, StepInTurn
<1>3. ASSUME TypeOK, InTurn, NEW w \in Workers, ~overlapped, Activate(w)
      PROVE  Selected' = task[w].c
  <2>1. PICK c \in Checkpoints : c = task[w].c
    BY <1>3, TaskShape DEF Activate
  <2>2. Active = {}
    BY <1>3 DEF InTurn, ClearedFirst, Activating, Activate
  <2>3. Active' = {c}
    BY <1>3, <2>1, <2>2 DEF Activate, Active, TypeOK
  <2>4. Selected' = CHOOSE d \in {c} : \A e \in {c} : e <= d
    BY <2>3 DEF Selected
  <2>5. c <= c
    BY <2>1, PolicyAssumption DEF PolicyAssumption, Checkpoints
  <2>6. Selected' = c
    BY <2>4, <2>5
  <2> QED
    BY <2>1, <2>6
<1>4. TypeOK /\ InTurn /\ [Next]_vars
         => [\A w \in Workers :
                ~overlapped /\ Activate(w) => Selected' = task[w].c]_vars
  BY <1>3
<1> QED
  BY <1>1, <1>2, <1>4, PTL DEF Spec, TakesEffect
=============================================================================
