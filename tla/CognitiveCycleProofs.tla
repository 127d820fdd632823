------------------------ MODULE CognitiveCycleProofs ------------------------
(***************************************************************************)
(* Proofs about CognitiveCycle, for any threads and requests, with stops,  *)
(* exceptions, overlaps and restorations.                                  *)
(***************************************************************************)
EXTENDS CognitiveCycle, TLAPS

-----------------------------------------------------------------------------
\* What a handler's next place, request and copy are; no other one moves.
Moves(w, pc, r, copy) ==
    task' = [task EXCEPT ![w] = [pc |-> pc, on |-> r, seen |-> copy]]

LEMMA TaskType ==
  ASSUME TypeOK, NEW w \in Workers
  PROVE  /\ task[w].pc \in Places
         /\ On(w) \in Requests \cup {None}
         /\ task[w].seen \in State
  BY DEF TypeOK, Tasks, On

LEMMA MovesAt ==
  ASSUME TypeOK, NEW w \in Workers, NEW pc, NEW r, NEW copy,
         Moves(w, pc, r, copy)
  PROVE  /\ task'[w].pc = pc /\ task'[w].seen = copy /\ On(w)' = r
         /\ \A v \in Workers : v # w =>
               task'[v] = task[v] /\ On(v)' = On(v) /\ (Busy(v)' <=> Busy(v))
         /\ pc \in Places /\ r \in Requests \cup {None} /\ copy \in State =>
               task' \in [Workers -> Tasks]
  BY DEF TypeOK, Moves, Tasks, On, Busy, At

LEMMA GotoMoves ==
  ASSUME TypeOK, NEW w \in Workers, NEW pc, Goto(w, pc)
  PROVE  Moves(w, pc, On(w), FirstState)
  BY DEF Goto, Moves, TypeOK, On

LEMMA FinishMoves ==
  ASSUME TypeOK, NEW w \in Workers, Finish(w)
  PROVE  Moves(w, "idle", None, FirstState)
  BY DEF Finish, Moves, Idle

LEMMA BeginMoves ==
  ASSUME NEW w \in Workers, NEW r, NEW pc, NEW copy, Begin(w, r, pc, copy)
  PROVE  Moves(w, pc, r, copy)
  BY DEF Begin, Moves

-----------------------------------------------------------------------------
(***************************************************************************)
(* The kinds of steps.                                                     *)
(***************************************************************************)
\* A request begins: r is new, and only the conflicts of a belief are stored.
Begins(w, r) ==
    /\ At(w, "idle") /\ r \in Requests \ begun
    /\ \E pc \in {"start", "insert", "dispute", "read", "save"} :
       \E copy \in Held \cup {FirstState} :
          /\ Moves(w, pc, r, copy)
          /\ r \in Cycles <=> pc = "start"
          /\ pc \in {"insert", "dispute"} <=> r \in Beliefs
    /\ begun' = begun \cup {r}
    /\ r \notin Beliefs => conflicts' = conflicts
    /\ r \in Beliefs => \E found \in SUBSET Beliefs :
          /\ \A c \in found : belief[c] = "SUPPORTED"
          /\ conflicts' = [conflicts EXCEPT ![r] = found]
          /\ task'[w].pc = "dispute" => found # {}
    /\ UNCHANGED <<state, snapshot, records, saved, lost>>

\* A statement of a cycle stores something, by its place.
Table == {<<"perceive", "experience", "simulate">>,
          <<"simulate", "prediction", "act">>,
          <<"act", "telemetry", "reflect">>,
          <<"act", "degraded", "mark">>,
          <<"mark", "failure", "report">>,
          <<"reflect", "evaluation", "predict">>,
          <<"predict", "prediction_error", "propose">>,
          <<"predict", "prediction_error", "respond">>,
          <<"propose", "proposal", "respond">>,
          <<"respond", "response", "evidence">>,
          <<"evidence", "evidence", "read">>}
Stores(w) == \E t \in Table : Store(w, t[1], t[2], t[3])

\* A handler goes on, stores nothing, and holds the state if it has just read it.
Idles(w) ==
    /\ Busy(w)
    /\ UNCHANGED <<state, snapshot, records, begun, conflicts, saved>>
    /\ lost' \in {lost, lost \cup {On(w)}}
    /\ \/ Moves(w, "idle", None, FirstState)
       \/ task[w].pc \in Unsaved \cup {"revised"} /\ On(w) \in Cycles
          /\ Moves(w, "report", On(w), FirstState)
       \/ At(w, "act") /\ Moves(w, "mark", On(w), FirstState)
       \/ At(w, "start") /\ Moves(w, "perceive", On(w), FirstState)
       \/ At(w, "revised") /\ On(w) \in Cycles
          /\ Moves(w, "assistant", On(w), FirstState)
       \/ At(w, "revised") /\ On(w) \in Beliefs
          /\ Moves(w, "insert", On(w), FirstState)
       \/ At(w, "read") /\ On(w) \in Checkpoints /\ Moves(w, "keep", On(w), state)
       \/ At(w, "read") /\ Moves(w, "save", On(w), state)

LEMMA StepKinds ==
  ASSUME TypeOK, Progress, Next
  PROVE  \E w \in Workers :
            \/ \E r \in Requests : Begins(w, r)
            \/ Stores(w) \/ Idles(w) \/ Dispute(w) \/ InsertBelief(w)
            \/ KeepSnapshot(w) \/ Save(w) \/ Answer(w) \/ ReportFailure(w)
<1>1. ASSUME NEW w \in Workers, Request(w)
      PROVE  \E r \in Requests : Begins(w, r)
  <2>1. ASSUME NEW c \in Cycles, Chat(w, c)
        PROVE  Begins(w, c)
    <3>1. c \in Requests /\ c \notin Beliefs
      BY CycleAssumption DEF Requests, Parts
    <3>2. Moves(w, "start", c, FirstState)
      BY <2>1, <3>1, BeginMoves DEF Chat
    <3>3. At(w, "idle") /\ c \notin begun /\ begun' = begun \cup {c}
          /\ UNCHANGED <<state, snapshot, records, saved, lost, conflicts>>
      BY <2>1 DEF Chat, Begin
    <3>4. \E p \in {"start", "insert", "dispute", "read", "save"} :
          \E copy \in Held \cup {FirstState} :
             /\ Moves(w, p, c, copy)
             /\ c \in Cycles <=> p = "start"
             /\ p \in {"insert", "dispute"} <=> c \in Beliefs
      BY <3>1, <3>2
    <3> QED
      BY <3>1, <3>3, <3>4 DEF Begins
  <2>2. ASSUME NEW b \in Beliefs, AddBelief(w, b)
        PROVE  Begins(w, b)
    <3> DEFINE found == {c \in Beliefs : belief[c] = "SUPPORTED"
                                          /\ Contradict(b, c)}
    <3>1. b \in Requests /\ b \notin Cycles
      BY CycleAssumption DEF Requests, Parts
    <3>2. PICK pc \in {"insert", "dispute"} :
             Begin(w, b, pc, FirstState) /\ (pc = "dispute" => found # {})
      BY <2>2 DEF AddBelief
    <3>3. Moves(w, pc, b, FirstState)
      BY <3>1, <3>2, BeginMoves
    <3>4. At(w, "idle") /\ b \notin begun /\ begun' = begun \cup {b}
          /\ UNCHANGED <<state, snapshot, records, saved, lost>>
      BY <3>2 DEF Begin
    <3>5. conflicts' = [conflicts EXCEPT ![b] = found]
      BY <2>2 DEF AddBelief
    <3>6. task'[w].pc = "dispute" => found # {}
      BY <3>2, <3>3, MovesAt
    <3>7. found \in SUBSET Beliefs /\ \A c \in found : belief[c] = "SUPPORTED"
      OBVIOUS
    <3> HIDE DEF found
    <3>8. \E f \in SUBSET Beliefs :
             /\ \A c \in f : belief[c] = "SUPPORTED"
             /\ conflicts' = [conflicts EXCEPT ![b] = f]
             /\ task'[w].pc = "dispute" => f # {}
      BY <3>5, <3>6, <3>7
    <3>9. \E p \in {"start", "insert", "dispute", "read", "save"} :
          \E copy \in Held \cup {FirstState} :
             /\ Moves(w, p, b, copy)
             /\ b \in Cycles <=> p = "start"
             /\ p \in {"insert", "dispute"} <=> b \in Beliefs
      BY <3>1, <3>2, <3>3
    <3> QED
      BY <3>1, <3>4, <3>8, <3>9 DEF Begins
  <2>3. ASSUME NEW r \in Changes \cup Checkpoints,
               Begin(w, r, "read", FirstState), UNCHANGED conflicts
        PROVE  Begins(w, r)
    <3>1. r \in Requests /\ r \notin Beliefs /\ r \notin Cycles
      BY CycleAssumption DEF Requests, Parts
    <3>2. Moves(w, "read", r, FirstState)
      BY <2>3, <3>1, BeginMoves
    <3>3. At(w, "idle") /\ r \notin begun /\ begun' = begun \cup {r}
          /\ UNCHANGED <<state, snapshot, records, saved, lost, conflicts>>
      BY <2>3 DEF Begin
    <3>4. \E p \in {"start", "insert", "dispute", "read", "save"} :
          \E copy \in Held \cup {FirstState} :
             /\ Moves(w, p, r, copy)
             /\ r \in Cycles <=> p = "start"
             /\ p \in {"insert", "dispute"} <=> r \in Beliefs
      BY <3>1, <3>2
    <3> QED
      BY <3>1, <3>3, <3>4 DEF Begins
  <2>4. ASSUME NEW r \in Restorations, Restore(w, r)
        PROVE  Begins(w, r)
    <3>1. r \in Requests /\ r \notin Beliefs /\ r \notin Cycles
      BY CycleAssumption DEF Requests, Parts
    <3>2. PICK k \in Checkpoints : /\ snapshot[k] # NotTaken
                                   /\ Begin(w, r, "save", snapshot[k])
      BY <2>4 DEF Restore
    <3>3. snapshot[k] \in Held
      BY <3>2 DEF Held
    <3>4. Moves(w, "save", r, snapshot[k])
      BY <3>2, BeginMoves
    <3>5. At(w, "idle") /\ r \notin begun /\ begun' = begun \cup {r}
          /\ UNCHANGED <<state, snapshot, records, saved, lost, conflicts>>
      BY <2>4, <3>2 DEF Begin, Restore
    <3>6. \E p \in {"start", "insert", "dispute", "read", "save"} :
          \E copy \in Held \cup {FirstState} :
             /\ Moves(w, p, r, copy)
             /\ r \in Cycles <=> p = "start"
             /\ p \in {"insert", "dispute"} <=> r \in Beliefs
      BY <3>1, <3>3, <3>4
    <3> QED
      BY <3>1, <3>5, <3>6 DEF Begins
  <2> QED
    BY <1>1, <2>1, <2>2, <2>3, <2>4 DEF Request, Change, Checkpoint, Requests,
                                        Parts
<1>2. ASSUME NEW w \in Workers, CycleStep(w)
      PROVE  Stores(w)
  BY <1>2 DEF CycleStep, Perceive, Simulate, Act, MarkFailed, Reflect,
     UpdatePrediction, Propose, StoreResponse, AddEvidence, Stores, Table
<1>3. ASSUME NEW w \in Workers, EnterTry(w) \/ RouteFails(w) \/ RaiseInCycle(w)
      PROVE  Idles(w)
  <2>1. ASSUME EnterTry(w) PROVE Idles(w)
    <3>1. Moves(w, "perceive", On(w), FirstState)
      BY <2>1, GotoMoves DEF EnterTry, Places, ChatPlaces, Tried
    <3> QED
      BY <2>1, <3>1 DEF EnterTry, Idles, Busy, At
  <2>2. ASSUME RouteFails(w) PROVE Idles(w)
    <3>1. Moves(w, "report", On(w), FirstState) /\ On(w) \in Cycles
      BY <2>2, GotoMoves DEF RouteFails, Places, ChatPlaces, Tried, Progress, At
    <3> QED
      BY <2>2, <3>1 DEF RouteFails, Idles, Busy, At, Unsaved, Tried
  <2>3. ASSUME RaiseInCycle(w) PROVE Idles(w)
    <3>1. On(w) \in Cycles /\ task[w].pc \in Unsaved \cup {"revised"}
      BY <2>3 DEF RaiseInCycle, Caught, Unsaved, Tried, Progress, ChatPlaces
    <3>2. \/ Moves(w, "report", On(w), FirstState)
          \/ At(w, "act") /\ Moves(w, "mark", On(w), FirstState)
      BY <2>3, GotoMoves DEF RaiseInCycle, Places, ChatPlaces, Tried
    <3> QED
      BY <2>3, <3>1, <3>2 DEF RaiseInCycle, Idles, Busy, At, Unsaved, Tried
  <2> QED
    BY <1>3, <2>1, <2>2, <2>3
<1>4. ASSUME NEW w \in Workers, ReadState(w)
      PROVE  Idles(w)
  <2>1. \/ On(w) \in Checkpoints /\ Moves(w, "keep", On(w), state)
        \/ Moves(w, "save", On(w), state)
    BY <1>4 DEF ReadState, Moves, TypeOK, On
  <2> QED
    BY <1>4, <2>1 DEF ReadState, Idles, Busy, At
<1>5. ASSUME NEW w \in Workers, Revised(w)
      PROVE  Idles(w)
  <2>1. \/ On(w) \in Cycles /\ Moves(w, "assistant", On(w), FirstState)
        \/ On(w) \in Beliefs /\ Moves(w, "insert", On(w), FirstState)
        \/ Moves(w, "idle", None, FirstState)
    BY <1>5, GotoMoves, FinishMoves DEF Revised, Places, ChatPlaces
  <2> QED
    BY <1>5, <2>1 DEF Revised, Idles, Busy, At
<1>6. ASSUME NEW w \in Workers, Stop(w)
      PROVE  Idles(w)
  BY <1>6, FinishMoves DEF Stop, Idles, Busy
<1> QED
  BY <1>1, <1>2, <1>3, <1>4, <1>5, <1>6 DEF Next, Step

-----------------------------------------------------------------------------
\* Whatever a handler holds is a state.
LEMMA HeldStates ==
  ASSUME TypeOK
  PROVE  Held \subseteq State /\ FirstState \in State
  BY DEF TypeOK, Held, Tasks, FirstState, State

\* Every step keeps the declared types.
LEMMA StepType == TypeOK /\ OneHandler /\ Progress /\ [Next]_vars => TypeOK'
<1> SUFFICES ASSUME TypeOK, OneHandler, Progress, Next PROVE TypeOK'
  BY DEF vars, records, TypeOK
<1> USE DEF records
<1>0. FirstState \in State /\ Held \subseteq State
  BY HeldStates
<1>1. ASSUME NEW w \in Workers, NEW r \in Requests, Begins(w, r)
      PROVE  TypeOK'
  <2>1. PICK pc \in {"start", "insert", "dispute", "read", "save"},
             copy \in Held \cup {FirstState} : Moves(w, pc, r, copy)
    BY <1>1 DEF Begins
  <2>2. task' \in [Workers -> Tasks]
    BY <1>0, <2>1, MovesAt DEF Places, ChatPlaces
  <2>3. conflicts' \in [Beliefs -> SUBSET Beliefs]
    BY <1>1 DEF Begins, TypeOK
  <2> QED
    BY <1>1, <2>2, <2>3 DEF Begins, TypeOK
<1>2. ASSUME NEW w \in Workers, Stores(w)
      PROVE  TypeOK'
  <2>1. PICK t \in Table : Store(w, t[1], t[2], t[3])
    BY <1>2 DEF Stores
  <2>2. t[2] \in Records /\ t[3] \in Places
    BY DEF Table, Records, Places, ChatPlaces, Tried
  <2>3. task' \in [Workers -> Tasks]
    BY <1>0, <2>1, <2>2, GotoMoves, MovesAt, TaskType DEF Store
  <2>4. stored' \in [Cycles -> SUBSET Records]
    BY <2>1, <2>2 DEF Store, TypeOK
  <2> QED
    BY <2>1, <2>3, <2>4 DEF Store, TypeOK
<1>3. ASSUME NEW w \in Workers, Idles(w)
      PROVE  TypeOK'
  <2>1. PICK pc \in Places, r \in {None, On(w)}, copy \in {FirstState, state} :
           Moves(w, pc, r, copy)
    BY <1>3 DEF Idles, Places, ChatPlaces, Tried
  <2>2. task' \in [Workers -> Tasks]
    BY <1>0, <2>1, MovesAt, TaskType DEF TypeOK
  <2>3. lost' \in SUBSET Requests
    BY <1>3 DEF Idles, OneHandler, TypeOK
  <2> QED
    BY <1>3, <2>2, <2>3 DEF Idles, TypeOK
<1>4. ASSUME NEW w \in Workers, Dispute(w) \/ InsertBelief(w)
      PROVE  TypeOK'
  <2>1. task' \in [Workers -> Tasks]
    BY <1>0, <1>4, GotoMoves, FinishMoves, MovesAt, TaskType
    DEF Dispute, InsertBelief, Places
  <2>2. belief' \in [Beliefs -> {"none", "SUPPORTED", "CONFLICTED"}]
    BY <1>4 DEF Dispute, InsertBelief, TypeOK
  <2> QED
    BY <1>4, <2>1, <2>2 DEF Dispute, InsertBelief, TypeOK
<1>5. ASSUME NEW w \in Workers,
             KeepSnapshot(w) \/ Answer(w) \/ ReportFailure(w)
      PROVE  TypeOK'
  <2>1. task' \in [Workers -> Tasks]
    BY <1>0, <1>5, FinishMoves, MovesAt DEF KeepSnapshot, Answer,
       ReportFailure, Places
  <2>2. Answer(w) \/ ReportFailure(w) => On(w) \in Cycles
    BY DEF Answer, ReportFailure, Progress, At, ChatPlaces
  <2>3. snapshot' \in [Checkpoints -> State]
    BY <1>5, TaskType DEF KeepSnapshot, Answer, ReportFailure, TypeOK
  <2> QED
    BY <1>5, <2>1, <2>2, <2>3 DEF KeepSnapshot, Answer, ReportFailure, TypeOK
<1>6. ASSUME NEW w \in Workers, Save(w)
      PROVE  TypeOK'
  <2>1. task' \in [Workers -> Tasks]
    BY <1>0, <1>6, GotoMoves, MovesAt, TaskType DEF Save, Places
  <2>2. task[w].seen.revision \in Nat /\ task[w].seen.remembers \in SUBSET Parts
    BY TaskType DEF State
  <2>3. state' \in State /\ state'.revision \in Nat
    BY <1>6, <2>2 DEF Save, State
  <2> QED
    BY <1>6, <2>1, <2>3 DEF Save, TypeOK
<1> QED
  BY <1>1, <1>2, <1>3, <1>4, <1>5, <1>6, StepKinds

-----------------------------------------------------------------------------
\* A step of a handler that has a request.
Works(w) == \/ Stores(w) \/ Idles(w) \/ Dispute(w) \/ InsertBelief(w)
            \/ KeepSnapshot(w) \/ Save(w) \/ Answer(w) \/ ReportFailure(w)

\* It goes on with its request, or is done with it.
LEMMA WorkMoves ==
  ASSUME TypeOK, NEW w \in Workers, Works(w)
  PROVE  /\ Busy(w) /\ begun' = begun /\ conflicts' = conflicts
         /\ \/ Moves(w, "idle", None, FirstState)
            \/ \E pc \in Places \ {"idle"}, copy \in {FirstState, state} :
                  Moves(w, pc, On(w), copy)
<1>1. CASE Stores(w)
  <2>1. PICK t \in Table : Store(w, t[1], t[2], t[3])
    BY <1>1 DEF Stores
  <2>2. t[1] # "idle" /\ t[3] \in Places \ {"idle"}
    BY DEF Table, Places, ChatPlaces, Tried
  <2>3. Moves(w, t[3], On(w), FirstState)
    BY <2>1, GotoMoves DEF Store
  <2> QED
    BY <2>1, <2>2, <2>3 DEF Store, Busy, At
<1>2. CASE Idles(w)
  BY <1>2 DEF Idles, Places, ChatPlaces, Tried
<1>3. CASE Dispute(w) \/ InsertBelief(w) \/ Save(w)
  BY <1>3, GotoMoves, FinishMoves
  DEF Dispute, InsertBelief, Save, Busy, At, Places
<1>4. CASE KeepSnapshot(w) \/ Answer(w) \/ ReportFailure(w)
  BY <1>4, FinishMoves DEF KeepSnapshot, Answer, ReportFailure, Busy, At
<1> QED
  BY <1>1, <1>2, <1>3, <1>4 DEF Works

\* Each request is run by one handler.
LEMMA StepOneHandler ==
  ASSUME TypeOK, OneHandler, Progress, Next
  PROVE  OneHandler'
<1>1. ASSUME NEW w \in Workers, NEW r \in Requests, Begins(w, r)
      PROVE  OneHandler'
  <2>1. PICK pc, copy : Moves(w, pc, r, copy)
    BY <1>1 DEF Begins
  <2>2. begun' = begun \cup {r} /\ r \notin begun
    BY <1>1 DEF Begins
  <2> QED
    BY <2>1, <2>2, MovesAt DEF OneHandler
<1>2. ASSUME NEW w \in Workers, Works(w)
      PROVE  OneHandler'
  <2>1. Busy(w) /\ begun' = begun
    BY <1>2, WorkMoves
  <2>2. CASE Moves(w, "idle", None, FirstState)
    <3>1. ~Busy(w)'
      BY <2>2, MovesAt DEF Busy, At
    <3> QED
      BY <2>1, <2>2, <3>1, MovesAt DEF OneHandler
  <2>3. CASE \E pc \in Places \ {"idle"}, copy \in {FirstState, state} :
                Moves(w, pc, On(w), copy)
    BY <2>1, <2>3, MovesAt DEF OneHandler
  <2> QED
    BY <1>2, <2>2, <2>3, WorkMoves
<1> QED
  BY <1>1, <1>2, StepKinds DEF Works

-----------------------------------------------------------------------------
\* What is known of a request other than the handler's own stays as it was.
SameFor(q) ==
    /\ saved'[q] = saved[q]
    /\ q \in Cycles => /\ stored'[q] = stored[q]
                       /\ q \in answered' <=> q \in answered
                       /\ q \in failures' <=> q \in failures
    /\ q \in Beliefs => (belief[q] = "none" => belief'[q] = "none")

LEMMA OthersSame ==
  ASSUME TypeOK, NothingBefore, Progress, NEW w \in Workers, Works(w),
         NEW q \in Requests, q # On(w)
  PROVE  SameFor(q)
<1> USE DEF records, SameFor
<1>1. CASE Stores(w)
  <2>1. PICK t \in Table : Store(w, t[1], t[2], t[3])
    BY <1>1 DEF Stores
  <2> QED
    BY <2>1 DEF Store, TypeOK
<1>2. CASE Idles(w) \/ KeepSnapshot(w)
  BY <1>2 DEF Idles, KeepSnapshot
<1>3. CASE Dispute(w) \/ InsertBelief(w)
  <2>1. q \in Beliefs /\ belief[q] = "none" => belief'[q] = "none"
    <3>1. CASE Dispute(w)
      <4>1. On(w) \in Beliefs => \A c \in conflicts[On(w)] : belief[c] # "none"
        BY DEF NothingBefore
      <4>2. On(w) \in Beliefs
        BY <3>1 DEF Dispute, Progress, At
      <4> QED
        BY <3>1, <4>1, <4>2 DEF Dispute
    <3>2. CASE InsertBelief(w)
      BY <3>2 DEF InsertBelief, TypeOK
    <3> QED
      BY <1>3, <3>1, <3>2
  <2> QED
    BY <1>3, <2>1 DEF Dispute, InsertBelief
<1>4. CASE Save(w)
  BY <1>4 DEF Save, TypeOK
<1>5. CASE Answer(w) \/ ReportFailure(w)
  BY <1>5 DEF Answer, ReportFailure
<1> QED
  BY <1>1, <1>2, <1>3, <1>4, <1>5 DEF Works

\* What no step takes back.
Kept ==
    /\ \A c \in Cycles : stored[c] \subseteq stored'[c]
    /\ \A b \in Beliefs : conflicts[b] # {} => conflicts'[b] = conflicts[b]
    /\ \A b \in Beliefs : belief[b] = "CONFLICTED" => belief'[b] = "CONFLICTED"
    /\ \A b \in Beliefs : belief[b] # "none" => belief'[b] # "none"
    /\ \A b \in Beliefs : conflicts[b] # {} /\ belief[b] # "SUPPORTED" =>
                            belief'[b] # "SUPPORTED"

LEMMA StepKept ==
  ASSUME TypeOK, NothingBefore, Progress, Next
  PROVE  Kept
<1> USE DEF records, Kept
<1>1. ASSUME NEW w \in Workers, NEW r \in Requests, Begins(w, r)
      PROVE  Kept
  <2>1. \A b \in Beliefs : conflicts[b] # {} => b # r
    BY <1>1 DEF Begins, NothingBefore
  <2>2. \A b \in Beliefs : conflicts[b] # {} => conflicts'[b] = conflicts[b]
    BY <1>1, <2>1 DEF Begins, TypeOK
  <2> QED
    BY <1>1, <2>2 DEF Begins
<1>2. ASSUME NEW w \in Workers, Stores(w)
      PROVE  Kept
  <2>1. PICK t \in Table : Store(w, t[1], t[2], t[3])
    BY <1>2 DEF Stores
  <2> QED
    BY <2>1 DEF Store, TypeOK
<1>3. ASSUME NEW w \in Workers, Dispute(w)
      PROVE  Kept
  BY <1>3 DEF Dispute, TypeOK
<1>4. ASSUME NEW w \in Workers, InsertBelief(w)
      PROVE  Kept
  <2>1. On(w) \in Beliefs /\ belief[On(w)] = "none"
    BY <1>4 DEF InsertBelief, Progress, BeliefProgress, Busy, At
  <2> QED
    BY <1>4, <2>1 DEF InsertBelief, TypeOK
<1>5. ASSUME NEW w \in Workers,
             \/ Idles(w) \/ KeepSnapshot(w) \/ Save(w) \/ Answer(w)
             \/ ReportFailure(w)
      PROVE  Kept
  BY <1>5 DEF Idles, KeepSnapshot, Save, Answer, ReportFailure
<1> QED
  BY <1>1, <1>2, <1>3, <1>4, <1>5, StepKinds

\* A saving step gives a number of at least 2 to a request that has none.
LEMMA SaveNumbers ==
  ASSUME TypeOK, OneHandler, Progress, Copies, NEW w \in Workers, Save(w)
  PROVE  /\ task[w].seen \in Held /\ task[w].seen \in State
         /\ On(w) \in Requests /\ saved[On(w)] = 0
         /\ task[w].seen.revision \in Nat /\ task[w].seen.revision >= 1
         /\ state' = [revision |-> task[w].seen.revision + 1,
                      remembers |-> task[w].seen.remembers
                                       \cup ({On(w)} \cap Parts)]
         /\ saved' = [saved EXCEPT ![On(w)] = task[w].seen.revision + 1]
<1>1. task[w].seen \in Held /\ task[w].seen \in State
  BY TaskType DEF Held
<1>2. saved[On(w)] = 0 /\ On(w) \in Requests
  BY DEF Save, At, Progress, Unsaved, OneHandler, Busy, TypeOK
<1>3. task[w].seen.revision >= 1
  BY <1>1 DEF Copies, Sound, Numbered
<1>4. /\ state' = [revision |-> task[w].seen.revision + 1,
                   remembers |-> task[w].seen.remembers
                                    \cup ({On(w)} \cap Parts)]
      /\ saved' = [saved EXCEPT ![On(w)] = task[w].seen.revision + 1]
  BY DEF Save
<1> QED
  BY <1>1, <1>2, <1>3, <1>4 DEF State

\* Nothing is stored, found or saved for a request before it begins.
LEMMA StepNothingBefore ==
  ASSUME TypeOK, OneHandler, NothingBefore, Progress, Copies, Next
  PROVE  NothingBefore'
<1> USE DEF records
<1>1. ASSUME NEW w \in Workers, NEW r \in Requests, Begins(w, r)
      PROVE  NothingBefore'
  <2>1. /\ begun' = begun \cup {r}
        /\ UNCHANGED <<records, saved>>
    BY <1>1 DEF Begins
  <2>2. \A b \in Beliefs : /\ b # r => conflicts'[b] = conflicts[b]
                           /\ \A c \in conflicts'[b] : belief[c] # "none"
    BY <1>1 DEF Begins, TypeOK, NothingBefore
  <2> QED
    BY <2>1, <2>2 DEF NothingBefore
<1>2. ASSUME NEW w \in Workers, Works(w)
      PROVE  NothingBefore'
  <2>1. Busy(w) /\ begun' = begun /\ conflicts' = conflicts
    BY <1>2, WorkMoves
  <2>2. On(w) \in begun
    BY <2>1 DEF OneHandler
  <2>3. \A q \in Requests \ begun : SameFor(q)
    BY <1>2, <2>2, OthersSame
  <2>4. Beliefs \subseteq Requests /\ Cycles \subseteq Requests
    BY DEF Requests, Parts
  <2>5. \A b \in Beliefs : belief[b] # "none" => belief'[b] # "none"
    BY StepKept DEF Kept
  <2>6. \A r \in Requests : saved'[r] # 1
    <3>1. CASE Save(w)
      BY <3>1, SaveNumbers DEF NothingBefore, TypeOK
    <3>2. CASE ~Save(w)
      <4>1. saved' = saved
        BY <1>2, <3>2 DEF Works, Stores, Store, Idles, Dispute, InsertBelief,
                          KeepSnapshot, Answer, ReportFailure
      <4> QED
        BY <4>1 DEF NothingBefore
    <3> QED
      BY <3>1, <3>2
  <2>7. \A b \in Beliefs : conflicts[b] \subseteq Beliefs
    BY DEF TypeOK
  <2>8. \A b \in Beliefs : \A c \in conflicts'[b] : belief'[c] # "none"
    BY <2>1, <2>5, <2>7 DEF NothingBefore
  <2>9. \A r \in Requests \ begun' : saved'[r] = 0
    BY <2>1, <2>3 DEF SameFor, NothingBefore
  <2>10. \A c \in Cycles \ begun' :
            stored'[c] = {} /\ c \notin answered' \cup failures'
    BY <2>1, <2>3, <2>4 DEF SameFor, NothingBefore
  <2>11. \A b \in Beliefs \ begun' : conflicts'[b] = {} /\ belief'[b] = "none"
    BY <2>1, <2>3, <2>4 DEF SameFor, NothingBefore
  <2> QED
    BY <2>6, <2>8, <2>9, <2>10, <2>11 DEF NothingBefore
<1> QED
  BY <1>1, <1>2, StepKinds DEF Works

-----------------------------------------------------------------------------
\* What Progress says of one handler.
ProgressOf(w) ==
    /\ task[w].pc \in ChatPlaces => On(w) \in Cycles
    /\ task[w].pc \in {"dispute", "insert"} => On(w) \in Beliefs
    /\ At(w, "keep") => On(w) \in Checkpoints
    /\ task[w].pc \in Unsaved => saved[On(w)] = 0
    /\ Busy(w) /\ On(w) \in Cycles => CycleProgress(w)
    /\ Busy(w) /\ On(w) \in Beliefs => BeliefProgress(w)

\* The progress of a handler is not touched by a step on another request.
LEMMA ProgressKept ==
  ASSUME TypeOK, NothingBefore, OneHandler, NEW v \in Workers, ProgressOf(v),
         task'[v] = task[v], Busy(v) => SameFor(On(v)), Kept,
         Busy(v) /\ On(v) \in Beliefs => conflicts'[On(v)] = conflicts[On(v)]
  PROVE  ProgressOf(v)'
<1>1. /\ On(v)' = On(v) /\ (Busy(v)' <=> Busy(v)) /\ task'[v].pc = task[v].pc
      /\ \A pc \in Places : At(v, pc)' <=> At(v, pc)
  BY DEF On, Busy, At
<1>2. CASE ~Busy(v)
  BY <1>1, <1>2 DEF ProgressOf, Busy, At, ChatPlaces, Tried, Unsaved
<1>3. CASE Busy(v) /\ On(v) \in Cycles
  <2>1. CycleProgress(v)'
    BY <1>1, <1>3 DEF ProgressOf, CycleProgress, SameFor
  <2> QED
    BY <1>1, <1>3, <2>1, CycleAssumption DEF ProgressOf, SameFor, Parts, At
<1>4. CASE Busy(v) /\ On(v) \in Beliefs
  <2>1. conflicts[On(v)] \subseteq Beliefs
    BY <1>4 DEF TypeOK
  <2>2. BeliefProgress(v)'
    BY <1>1, <1>4, <2>1 DEF ProgressOf, BeliefProgress, SameFor, Kept, At
  <2> QED
    BY <1>1, <1>4, <2>2, CycleAssumption DEF ProgressOf, SameFor, Parts, At
<1>5. CASE Busy(v) /\ On(v) \notin Cycles /\ On(v) \notin Beliefs
  BY <1>1, <1>5 DEF ProgressOf, SameFor, At
<1> QED
  BY <1>2, <1>3, <1>4, <1>5

\* A handler without a request has made no progress.
LEMMA IdleProgress ==
  ASSUME TypeOK, NEW w \in Workers, Moves(w, "idle", None, FirstState)
  PROVE  ProgressOf(w)'
<1>1. task'[w].pc = "idle"
  BY MovesAt
<1> QED
  BY <1>1 DEF ProgressOf, Busy, At, ChatPlaces, Tried, Unsaved

\* A request that begins has nothing stored for it yet.
LEMMA BeginProgress ==
  ASSUME TypeOK, NothingBefore, NEW w \in Workers, NEW r \in Requests,
         Begins(w, r)
  PROVE  ProgressOf(w)'
<1>1. PICK pc \in {"start", "insert", "dispute", "read", "save"},
           copy \in Held \cup {FirstState} :
         /\ Moves(w, pc, r, copy)
         /\ r \in Cycles <=> pc = "start"
         /\ pc \in {"insert", "dispute"} <=> r \in Beliefs
  BY DEF Begins
<1>2. task'[w].pc = pc /\ On(w)' = r
  BY <1>1, MovesAt
<1>3. r \notin begun /\ UNCHANGED <<records, saved>>
  BY DEF Begins
<1>4. saved'[r] = 0
  BY <1>3 DEF NothingBefore
<1>5. r \in Cycles => CycleProgress(w)'
  <2> SUFFICES ASSUME r \in Cycles PROVE CycleProgress(w)'
    OBVIOUS
  <2>1. task'[w].pc = "start"
    BY <1>1, <1>2
  <2>2. stored'[r] = {} /\ r \notin answered' \cup failures'
    BY <1>3 DEF NothingBefore, records
  <2> QED
    BY <1>2, <2>1, <2>2 DEF CycleProgress, AfterAct, AfterReflect,
       AfterPredict, AfterRespond, AfterEvidence
<1>6. r \in Beliefs => BeliefProgress(w)'
  <2> SUFFICES ASSUME r \in Beliefs PROVE BeliefProgress(w)'
    OBVIOUS
  <2>1. task'[w].pc \in {"insert", "dispute"}
    BY <1>1, <1>2
  <2>2. belief'[r] = "none"
    BY <1>3 DEF NothingBefore, records
  <2>3. task'[w].pc = "dispute" => conflicts'[r] # {}
    BY DEF Begins, TypeOK
  <2> QED
    BY <1>2, <2>1, <2>2, <2>3 DEF BeliefProgress, At
<1> QED
  BY <1>1, <1>2, <1>4, <1>5, <1>6
  DEF ProgressOf, At, ChatPlaces, Tried, Unsaved

\* A statement of a cycle brings it to a place that has what it has stored.
LEMMA StoreProgress ==
  ASSUME TypeOK, OneHandler, NEW w \in Workers, ProgressOf(w), Stores(w)
  PROVE  ProgressOf(w)'
<1> USE DEF records
<1>1. PICK t \in Table : Store(w, t[1], t[2], t[3])
  BY DEF Stores
<1>2. task[w].pc = t[1] /\ task'[w].pc = t[3] /\ On(w)' = On(w)
  BY <1>1, GotoMoves, MovesAt DEF Store, At
<1>3. On(w) \in Cycles /\ Busy(w) /\ saved[On(w)] = 0 /\ CycleProgress(w)
  BY <1>2 DEF Table, ProgressOf, ChatPlaces, Tried, Busy, At, Unsaved
<1>4. /\ stored'[On(w)] = stored[On(w)] \cup {t[2]}
      /\ UNCHANGED <<answered, failures, saved>>
  BY <1>1, <1>3 DEF Store, TypeOK
<1>5. CycleProgress(w)'
  <2> USE DEF CycleProgress, AfterAct, AfterReflect, AfterPredict,
              AfterRespond, AfterEvidence, BeforeAct, Failed, Later
  <2>1. CASE t[1] \in {"perceive", "simulate", "act"}
    BY <1>2, <1>3, <1>4, <2>1 DEF Table
  <2>2. CASE t[1] \in {"mark", "reflect", "predict"}
    BY <1>2, <1>3, <1>4, <2>2 DEF Table
  <2>3. CASE t[1] \in {"propose", "respond", "evidence"}
    BY <1>2, <1>3, <1>4, <2>3 DEF Table
  <2> QED
    BY <2>1, <2>2, <2>3 DEF Table
<1>6. t[3] \notin {"dispute", "insert", "keep"}
  BY DEF Table
<1> QED
  BY <1>2, <1>3, <1>4, <1>5, <1>6, CycleAssumption
  DEF ProgressOf, Parts, At

\* So does going on without storing anything.
LEMMA GoOnProgress ==
  ASSUME TypeOK, OneHandler, NEW w \in Workers, ProgressOf(w),
         Idles(w) \/ Save(w)
  PROVE  ProgressOf(w)'
<1> USE DEF records
<1>1. CASE Moves(w, "idle", None, FirstState)
  BY <1>1, IdleProgress
<1>2. CASE ~Moves(w, "idle", None, FirstState)
  <2>1. Busy(w) /\ UNCHANGED <<records, conflicts>>
    BY DEF Idles, Save, Busy, At
  <2>2. \/ Save(w) /\ Moves(w, "revised", On(w), FirstState)
        \/ Idles(w) /\ UNCHANGED saved /\ \E copy :
             \/ task[w].pc \in Unsaved \cup {"revised"} /\ On(w) \in Cycles
                /\ Moves(w, "report", On(w), copy)
             \/ At(w, "act") /\ Moves(w, "mark", On(w), copy)
             \/ At(w, "start") /\ Moves(w, "perceive", On(w), copy)
             \/ At(w, "revised") /\ On(w) \in Cycles
                /\ Moves(w, "assistant", On(w), copy)
             \/ At(w, "revised") /\ On(w) \in Beliefs
                /\ Moves(w, "insert", On(w), copy)
             \/ At(w, "read") /\ On(w) \in Checkpoints
                /\ Moves(w, "keep", On(w), copy)
             \/ At(w, "read") /\ Moves(w, "save", On(w), copy)
    BY <1>2, GotoMoves DEF Idles, Save
  <2>3. /\ On(w)' = On(w)
        /\ \/ At(w, "save") /\ task'[w].pc = "revised"
           \/ At(w, "revised") /\ task'[w].pc = "assistant" /\ On(w) \in Cycles
           \/ At(w, "revised") /\ task'[w].pc = "insert" /\ On(w) \in Beliefs
           \/ /\ task[w].pc \in Unsaved \cup {"revised"} /\ On(w) \in Cycles
              /\ task'[w].pc = "report"
           \/ /\ UNCHANGED saved
              /\ \/ At(w, "act") /\ task'[w].pc = "mark"
                 \/ At(w, "start") /\ task'[w].pc = "perceive"
                 \/ At(w, "read") /\ task'[w].pc = "save"
                 \/ /\ At(w, "read") /\ task'[w].pc = "keep"
                    /\ On(w) \in Checkpoints
    BY <2>2, MovesAt DEF Save
  <2>4. On(w) \in Cycles => CycleProgress(w)'
    <3> SUFFICES ASSUME On(w) \in Cycles PROVE CycleProgress(w)'
      OBVIOUS
    <3>1. CycleProgress(w) /\ On(w) \notin Checkpoints /\ On(w) \notin Beliefs
      BY <2>1, CycleAssumption DEF ProgressOf, Parts
    <3> QED
      BY <2>1, <2>3, <3>1 DEF CycleProgress, At, BeforeAct, AfterAct,
         AfterReflect, AfterPredict, AfterRespond, AfterEvidence
  <2>5. On(w) \in Beliefs => BeliefProgress(w)'
    <3> SUFFICES ASSUME On(w) \in Beliefs PROVE BeliefProgress(w)'
      OBVIOUS
    <3>1. BeliefProgress(w) /\ On(w) \notin Checkpoints /\ On(w) \notin Cycles
      BY <2>1, CycleAssumption DEF ProgressOf, Parts
    <3>2. task[w].pc \notin ChatPlaces
      BY <3>1 DEF ProgressOf
    <3> QED
      BY <2>1, <2>3, <3>1, <3>2 DEF BeliefProgress, At, ChatPlaces, Tried
  <2>6. /\ task'[w].pc \in ChatPlaces => On(w) \in Cycles
        /\ task'[w].pc \in {"dispute", "insert"} => On(w) \in Beliefs
        /\ task'[w].pc = "keep" => On(w) \in Checkpoints
    BY <2>3 DEF ProgressOf, At, ChatPlaces, Tried
  <2>7. task'[w].pc \in Unsaved => saved'[On(w)] = 0
    BY <2>3 DEF ProgressOf, At, Unsaved, Tried
  <2> QED
    BY <2>3, <2>4, <2>5, <2>6, <2>7 DEF ProgressOf, At
<1> QED
  BY <1>1, <1>2

LEMMA DisputeProgress ==
  ASSUME TypeOK, OneHandler, NEW w \in Workers, ProgressOf(w), Dispute(w),
         Busy(w), NothingBefore
  PROVE  ProgressOf(w)'
<1>1. task'[w].pc = "read" /\ On(w)' = On(w)
  BY GotoMoves, MovesAt DEF Dispute
<1>2. /\ On(w) \in Beliefs /\ On(w) \notin Cycles /\ saved[On(w)] = 0
      /\ BeliefProgress(w) /\ conflicts[On(w)] \subseteq Beliefs
  BY CycleAssumption DEF Dispute, ProgressOf, At, Unsaved, TypeOK
<1>3. belief'[On(w)] = "none"
  BY <1>2 DEF Dispute, BeliefProgress, NothingBefore
<1>4. \A c \in conflicts[On(w)] : belief'[c] = "CONFLICTED"
  BY <1>2 DEF Dispute
<1>5. conflicts[On(w)] # {}
  BY <1>2 DEF Dispute, BeliefProgress, At
<1>6. UNCHANGED <<saved, conflicts>>
  BY DEF Dispute
<1>7. BeliefProgress(w)'
  BY <1>1, <1>3, <1>4, <1>5, <1>6 DEF BeliefProgress, At
<1> QED
  BY <1>1, <1>2, <1>6, <1>7 DEF ProgressOf, At, ChatPlaces, Tried

\* The place of every handler keeps telling what there is of its request.
LEMMA StepProgress ==
  ASSUME TypeOK, OneHandler, NothingBefore, Progress, Next
  PROVE  Progress'
<1> SUFFICES \A w \in Workers : ProgressOf(w)'
  BY DEF Progress, ProgressOf
<1>0. /\ \A w \in Workers : ProgressOf(w)
      /\ Kept
  BY StepKept DEF Progress, ProgressOf
<1>1. ASSUME NEW w \in Workers, NEW r \in Requests, Begins(w, r)
      PROVE  \A v \in Workers : ProgressOf(v)'
  <2>1. PICK pc, copy : Moves(w, pc, r, copy)
    BY <1>1 DEF Begins
  <2>2. ASSUME NEW v \in Workers, v # w
        PROVE  ProgressOf(v)'
    <3>1. task'[v] = task[v] /\ (Busy(v) => SameFor(On(v)))
      BY <1>1, <2>1, <2>2, MovesAt DEF Begins, SameFor, records
    <3>2. Busy(v) /\ On(v) \in Beliefs => conflicts'[On(v)] = conflicts[On(v)]
      <4>1. Busy(v) => On(v) # r
        BY <1>1 DEF Begins, OneHandler
      <4> QED
        BY <1>1, <4>1 DEF Begins, TypeOK
    <3> QED
      BY <1>0, <3>1, <3>2, ProgressKept
  <2> QED
    BY <1>1, <2>2, BeginProgress
<1>2. ASSUME NEW w \in Workers, Works(w)
      PROVE  \A v \in Workers : ProgressOf(v)'
  <2>0. Busy(w) /\ conflicts' = conflicts
    BY <1>2, WorkMoves
  <2>1. \A v \in Workers : v # w => task'[v] = task[v]
    BY <1>2, WorkMoves, MovesAt
  <2>2. ASSUME NEW v \in Workers, v # w
        PROVE  ProgressOf(v)'
    <3>1. Busy(v) => On(v) # On(w) /\ On(v) \in Requests
      BY <2>0, <2>2 DEF OneHandler, TypeOK
    <3>2. Busy(v) => SameFor(On(v))
      BY <1>2, <3>1, OthersSame
    <3> QED
      BY <1>0, <2>0, <2>1, <2>2, <3>2, ProgressKept
  <2>3. ProgressOf(w)'
    <3>1. CASE Stores(w)
      BY <1>0, <3>1, StoreProgress
    <3>2. CASE Idles(w) \/ Save(w)
      BY <1>0, <3>2, GoOnProgress
    <3>3. CASE Dispute(w)
      BY <1>0, <2>0, <3>3, DisputeProgress
    <3>4. CASE InsertBelief(w) \/ KeepSnapshot(w) \/ Answer(w) \/ ReportFailure(w)
      BY <3>4, FinishMoves, IdleProgress
      DEF InsertBelief, KeepSnapshot, Answer, ReportFailure
    <3> QED
      BY <1>2, <3>1, <3>2, <3>3, <3>4 DEF Works
  <2> QED
    BY <2>2, <2>3
<1> QED
  BY <1>1, <1>2, StepKinds DEF Works

-----------------------------------------------------------------------------
\* A cycle whose instrument failed is not evaluated, evidenced, saved, answered.
LEMMA StepFailures ==
  ASSUME TypeOK, OneHandler, NothingBefore, Progress, FailuresApart, Next
  PROVE  FailuresApart'
<1> USE DEF records
<1>0. Cycles \subseteq Requests
  BY DEF Requests, Parts
<1>1. ASSUME NEW w \in Workers, NEW r \in Requests, Begins(w, r)
      PROVE  FailuresApart'
  BY <1>1 DEF Begins, FailuresApart
<1>2. ASSUME NEW w \in Workers, Works(w)
      PROVE  FailuresApart'
  <2> DEFINE Apart(c) ==
        /\ stored[c] \cap Failed # {} =>
             saved[c] = 0 /\ c \notin answered /\ stored[c] \cap Later = {}
        /\ c \notin failures \cap answered
  <2>1. \A c \in Cycles : c # On(w) => Apart(c)'
    BY <1>0, <1>2, OthersSame DEF SameFor, FailuresApart
  <2>2. Busy(w)
    BY <1>2, WorkMoves
  <2>3. ASSUME NEW c \in Cycles, c = On(w) PROVE Apart(c)'
    <3>1. /\ CycleProgress(w) /\ Apart(c)
          /\ task[w].pc \in Unsaved => saved[c] = 0
      BY <2>2, <2>3 DEF Progress, FailuresApart
    <3>2. CASE Stores(w)
      <4>1. PICK t \in Table : Store(w, t[1], t[2], t[3])
        BY <3>2 DEF Stores
      <4>2. /\ task[w].pc = t[1] /\ UNCHANGED <<saved, answered, failures>>
            /\ stored'[c] = stored[c] \cup {t[2]}
        BY <2>3, <4>1 DEF Store, At, TypeOK
      <4>3. CASE t[2] \in Failed
        <5>1. t[1] \in {"act", "mark"}
          BY <4>3 DEF Table, Failed
        <5>2. saved[c] = 0 /\ c \notin answered /\ stored[c] \cap Later = {}
          BY <2>3, <3>1, <4>2, <5>1
          DEF CycleProgress, BeforeAct, Unsaved, Tried
        <5> QED
          BY <4>2, <4>3, <5>2 DEF Failed, Later
      <4>4. CASE t[2] \in Later
        <5>1. t[1] \in AfterAct
          BY <4>4 DEF Table, Later, AfterAct, AfterReflect, AfterPredict,
                      AfterRespond, AfterEvidence
        <5>2. stored[c] \cap Failed = {}
          BY <2>3, <3>1, <4>2, <5>1 DEF CycleProgress
        <5> QED
          BY <3>1, <4>2, <4>4, <5>2 DEF Failed, Later
      <4>5. CASE t[2] \notin Failed \cup Later
        BY <3>1, <4>2, <4>5
      <4> QED
        BY <4>3, <4>4, <4>5
    <3>3. CASE Save(w)
      <4>1. stored[c] \cap Failed = {}
        BY <2>3, <3>1, <3>3 DEF Save, At, CycleProgress, AfterAct,
           AfterReflect, AfterPredict, AfterRespond, AfterEvidence
      <4> QED
        BY <3>1, <3>3, <4>1 DEF Save
    <3>4. CASE Answer(w)
      <4>1. stored[c] \cap Failed = {} /\ c \notin failures
        BY <2>3, <3>1, <3>4 DEF Answer, At, CycleProgress, AfterAct,
           AfterReflect, AfterPredict, AfterRespond, AfterEvidence
      <4> QED
        BY <3>4, <4>1 DEF Answer
    <3>5. CASE ReportFailure(w)
      BY <2>3, <3>1, <3>5 DEF ReportFailure, CycleProgress
    <3>6. CASE Idles(w) \/ Dispute(w) \/ InsertBelief(w) \/ KeepSnapshot(w)
      BY <3>1, <3>6 DEF Idles, Dispute, InsertBelief, KeepSnapshot
    <3> QED
      BY <1>2, <3>2, <3>3, <3>4, <3>5, <3>6 DEF Works
  <2>4. failures' \subseteq Cycles
    BY StepType DEF TypeOK
  <2> QED
    BY <2>1, <2>3, <2>4 DEF FailuresApart
<1> QED
  BY <1>1, <1>2, StepKinds DEF Works

-----------------------------------------------------------------------------
\* Where the states come from that are held after a step.
LEMMA HeldAfter ==
  ASSUME TypeOK, Progress, Next, NEW S \in Held'
  PROVE  \/ S \in Held \cup {FirstState}
         \/ \E w \in Workers : Save(w) /\ S = state'
<1>1. ASSUME NEW w \in Workers, NEW pc, NEW r, NEW copy \in Held \cup {FirstState},
             Moves(w, pc, r, copy), UNCHANGED <<state, snapshot>>
      PROVE  S \in Held \cup {FirstState}
  <2>1. \A v \in Workers : task'[v].seen \in Held \cup {FirstState}
    BY <1>1, MovesAt DEF Held
  <2> QED
    BY <1>1, <2>1 DEF Held
<1>2. ASSUME NEW w \in Workers, NEW r \in Requests, Begins(w, r)
      PROVE  S \in Held \cup {FirstState}
  <2>1. PICK copy \in Held \cup {FirstState} : \E pc : Moves(w, pc, r, copy)
    BY <1>2 DEF Begins
  <2> QED
    BY <1>1, <1>2, <2>1 DEF Begins
<1>3. ASSUME NEW w \in Workers, Works(w), ~Save(w), ~KeepSnapshot(w)
      PROVE  S \in Held \cup {FirstState}
  <2>1. UNCHANGED <<state, snapshot>>
    BY <1>3 DEF Works, Stores, Store, Idles, Dispute, InsertBelief, Answer,
                ReportFailure
  <2>2. PICK copy \in {FirstState, state} : \E pc, r : Moves(w, pc, r, copy)
    BY <1>3, WorkMoves
  <2> QED
    BY <1>1, <2>1, <2>2 DEF Held
<1>4. ASSUME NEW w \in Workers, KeepSnapshot(w)
      PROVE  S \in Held \cup {FirstState}
  <2>1. \A v \in Workers : task'[v].seen \in Held \cup {FirstState}
    BY <1>4, FinishMoves, MovesAt DEF Held, KeepSnapshot
  <2>2. \A k \in Checkpoints : snapshot'[k] \in Held \cup {NotTaken}
    BY <1>4 DEF KeepSnapshot, Held, TypeOK
  <2> QED
    BY <1>4, <2>1, <2>2 DEF Held, KeepSnapshot
<1>5. ASSUME NEW w \in Workers, Save(w)
      PROVE  S \in Held \cup {FirstState, state'}
  <2>1. \A v \in Workers : task'[v].seen \in Held \cup {FirstState}
    BY <1>5, GotoMoves, MovesAt DEF Held, Save
  <2> QED
    BY <1>5, <2>1 DEF Held, Save
<1> QED
  BY <1>2, <1>3, <1>4, <1>5, StepKinds DEF Works

\* A state that was sound stays so, whoever saves in the meantime.
LEMMA SoundKept ==
  ASSUME TypeOK, OneHandler, NothingBefore, Progress, Copies, Next,
         NEW S \in State, Sound(S)
  PROVE  Sound(S)'
<1>1. Kept
  BY StepKept
<1>2. \/ saved' = saved
      \/ \E w \in Workers : Save(w)
  BY StepKinds DEF Begins, Stores, Store, Idles, Dispute, InsertBelief,
                   KeepSnapshot, Answer, ReportFailure
<1>3. Parts \subseteq Requests /\ Cycles \subseteq Parts /\ Beliefs \subseteq Parts
  BY DEF Requests, Parts
<1>4. \A r \in Requests : saved[r] # 0 => saved'[r] = saved[r]
  BY <1>2, SaveNumbers DEF TypeOK
<1>5. Remembers(S)'
  <2>1. S.remembers \subseteq Parts
    BY DEF State
  <2>2. \A c \in S.remembers \cap Cycles : Complete \subseteq stored'[c]
    BY <1>1 DEF Sound, Remembers, Kept
  <2>3. \A r \in S.remembers : saved'[r] # 0
    BY <1>3, <1>4, <2>1 DEF Sound, Remembers
  <2>4. ASSUME NEW b \in S.remembers \cap Beliefs
        PROVE  /\ conflicts'[b] # {} /\ belief'[b] # "SUPPORTED"
               /\ \A c \in conflicts'[b] : belief'[c] = "CONFLICTED"
    <3>1. conflicts[b] \subseteq Beliefs
      BY DEF TypeOK
    <3> QED
      BY <1>1, <3>1 DEF Sound, Remembers, Kept
  <2> QED
    BY <2>2, <2>3, <2>4 DEF Remembers
<1>6. Numbered(S)'
  <2>1. S.revision \in Nat
    BY DEF State
  <2>2. \A n \in 2 .. S.revision : \E q \in Requests : saved'[q] = n
    <3> SUFFICES ASSUME NEW n \in 2 .. S.revision
                 PROVE  \E q \in Requests : saved'[q] = n
      OBVIOUS
    <3>1. PICK q \in Requests : saved[q] = n
      BY DEF Sound, Numbered
    <3> QED
      BY <1>4, <2>1, <3>1
  <2>3. ASSUME NEW r \in Parts, saved'[r] # 0, saved'[r] <= S.revision,
               r \notin S.remembers
        PROVE  \E q \in Requests \ {r} : saved'[q] = saved'[r]
    <3>1. CASE saved[r] # 0
      <4>1. PICK q \in Requests \ {r} : saved[q] = saved[r]
        BY <1>3, <1>4, <2>3, <3>1 DEF Sound, Numbered
      <4> QED
        BY <1>3, <1>4, <3>1, <4>1
    <3>2. CASE saved[r] = 0
      <4>1. PICK w \in Workers : Save(w)
        BY <1>2, <2>3, <3>2
      <4>2. r = On(w) /\ saved'[r] = task[w].seen.revision + 1
            /\ task[w].seen.revision \in Nat /\ task[w].seen.revision >= 1
        BY <1>3, <2>3, <3>2, <4>1, SaveNumbers DEF TypeOK
      <4>3. saved'[r] \in 2 .. S.revision
        BY <2>1, <2>3, <4>2
      <4>4. PICK q \in Requests : saved[q] = saved'[r]
        BY <4>3 DEF Sound, Numbered
      <4>5. q # r /\ saved'[q] = saved[q]
        BY <1>4, <3>2, <4>3, <4>4
      <4> QED
        BY <4>4, <4>5
    <3> QED
      BY <3>1, <3>2
  <2> QED
    BY <2>2, <2>3 DEF Sound, Numbered
<1> QED
  BY <1>5, <1>6 DEF Sound

\* What is saved is sound too.
LEMMA SavedSound ==
  ASSUME TypeOK, OneHandler, NothingBefore, Progress, Copies, Next,
         NEW w \in Workers, Save(w), NEW S, S = state'
  PROVE  Sound(S)'
<1>1. PICK old \in State : old = task[w].seen
  BY TaskType
<1>2. PICK r \in Requests : r = On(w)
  BY SaveNumbers
<1>3. /\ old \in Held /\ old.revision \in Nat /\ old.revision >= 1
      /\ S = [revision |-> old.revision + 1,
              remembers |-> old.remembers \cup ({r} \cap Parts)]
      /\ saved' = [saved EXCEPT ![r] = old.revision + 1]
      /\ saved[r] = 0
  BY <1>1, <1>2, SaveNumbers
<1>4. Sound(old)'
  BY <1>3, SoundKept DEF Copies
<1>5. /\ S.revision = old.revision + 1
      /\ S.remembers = old.remembers \cup ({r} \cap Parts)
  BY <1>3
<1>6. saved'[r] = old.revision + 1 /\ \A q \in Requests : q # r => saved'[q] = saved[q]
  BY <1>3 DEF TypeOK
<1>7. UNCHANGED <<records, conflicts>>
  BY DEF Save
<1>8. Remembers(S)'
  <2>1. r \in Cycles => Complete \subseteq stored[r]
    BY <1>2 DEF Save, At, Progress, Busy, CycleProgress, Complete, AfterAct,
                AfterReflect, AfterPredict, AfterRespond, AfterEvidence
  <2>2. r \in Beliefs => /\ conflicts[r] # {} /\ belief[r] # "SUPPORTED"
                         /\ \A c \in conflicts[r] : belief[c] = "CONFLICTED"
    BY <1>2 DEF Save, At, Progress, Busy, BeliefProgress
  <2>3. saved'[r] # 0
    BY <1>3, <1>6
  <2> QED
    BY <1>4, <1>5, <1>7, <2>1, <2>2, <2>3 DEF Sound, Remembers, records
<1>9. Numbered(S)'
  <2>1. \A n \in 2 .. S.revision : \E q \in Requests : saved'[q] = n
    <3> SUFFICES ASSUME NEW n \in 2 .. S.revision
                 PROVE  \E q \in Requests : saved'[q] = n
      OBVIOUS
    <3>1. CASE n \in 2 .. old.revision
      BY <1>4, <3>1 DEF Sound, Numbered
    <3>2. CASE n = old.revision + 1
      BY <1>6, <3>2
    <3> QED
      BY <1>3, <1>5, <3>1, <3>2
  <2>2. ASSUME NEW p \in Parts, saved'[p] # 0, saved'[p] <= S.revision,
               p \notin S.remembers
        PROVE  \E q \in Requests \ {p} : saved'[q] = saved'[p]
    <3>1. p # r /\ p \notin old.remembers
      BY <1>5, <2>2
    <3>2. CASE saved'[p] <= old.revision
      BY <1>4, <2>2, <3>1, <3>2 DEF Sound, Numbered
    <3>3. CASE saved'[p] = old.revision + 1
      BY <1>6, <3>1, <3>3
    <3>4. saved'[p] \in Nat
      BY StepType DEF TypeOK, Requests
    <3> QED
      BY <1>3, <1>5, <2>2, <3>2, <3>3, <3>4
  <2>3. S.revision >= 1
    BY <1>3, <1>5
  <2> QED
    BY <2>1, <2>2, <2>3 DEF Numbered
<1> QED
  BY <1>8, <1>9 DEF Sound

LEMMA StepCopies ==
  ASSUME TypeOK, OneHandler, NothingBefore, Progress, Copies, Next
  PROVE  Copies'
<1> SUFFICES ASSUME NEW S \in Held' PROVE Sound(S)'
  BY DEF Copies
<1>1. CASE S \in Held
  BY <1>1, SoundKept, HeldStates DEF Copies
<1>2. CASE S = FirstState
  <2>1. \A r \in Parts : saved'[r] # 1 /\ saved'[r] \in Nat
    BY StepNothingBefore, StepType DEF NothingBefore, TypeOK, Requests
  <2> QED
    BY <1>2, <2>1 DEF FirstState, Sound, Remembers, Numbered
<1>3. CASE \E w \in Workers : Save(w) /\ S = state'
  BY <1>3, SavedSound
<1> QED
  BY <1>1, <1>2, <1>3, HeldAfter

-----------------------------------------------------------------------------
\* Initially nothing has begun.
LEMMA InitInv == Init => TypeOK /\ CycleInv
<1> SUFFICES ASSUME Init PROVE TypeOK /\ CycleInv
  OBVIOUS
<1> USE DEF Init
<1>1. TypeOK
  BY DEF TypeOK, State, FirstState, NotTaken, Tasks, Idle, Places
<1>2. \A w \in Workers : task[w] = Idle /\ task[w].pc = "idle"
                         /\ task[w].seen = FirstState
  BY DEF Idle
<1>3. OneHandler /\ Progress
  BY <1>2 DEF OneHandler, Progress, Busy, At, ChatPlaces, Tried, Unsaved
<1>4. NothingBefore /\ FailuresApart
  BY DEF NothingBefore, FailuresApart, Requests, Parts
<1>5. Held = {FirstState} \/ Held = {}
  BY <1>2 DEF Held
<1>6. Sound(FirstState)
  BY DEF Sound, Remembers, Numbered, FirstState, Requests, Parts
<1> QED
  BY <1>1, <1>3, <1>4, <1>5, <1>6 DEF CycleInv, Copies

(***************************************************************************)
(* The inductive invariant: one handler for a request, the place of which  *)
(* tells what has been done for it, and every copy of the state sound.     *)
(***************************************************************************)
THEOREM CycleInvHolds == Spec => [](TypeOK /\ CycleInv)
<1>1. Init => TypeOK /\ CycleInv
  BY InitInv
<1>2. TypeOK /\ CycleInv /\ [Next]_vars => (TypeOK /\ CycleInv)'
  <2> SUFFICES ASSUME TypeOK, CycleInv, [Next]_vars
               PROVE  TypeOK' /\ CycleInv'
    OBVIOUS
  <2>1. CASE Next
    BY <2>1, StepType, StepOneHandler, StepNothingBefore, StepProgress,
       StepFailures, StepCopies DEF CycleInv
  <2>2. CASE UNCHANGED vars
    <3>1. TypeOK'
      BY <2>2 DEF vars, records, TypeOK
    <3>2. OneHandler' /\ Progress'
      BY <2>2 DEF vars, records, CycleInv, OneHandler, Progress, Busy, At, On,
         CycleProgress, BeliefProgress
    <3>3. NothingBefore' /\ FailuresApart'
      BY <2>2 DEF vars, records, CycleInv, NothingBefore, FailuresApart
    <3>4. Copies'
      BY <2>2 DEF vars, records, CycleInv, Copies, Held, Sound, Remembers,
         Numbered
    <3> QED
      BY <3>1, <3>2, <3>3, <3>4 DEF CycleInv
  <2> QED
    BY <2>1, <2>2
<1> QED
  BY <1>1, <1>2, PTL DEF Spec

(***************************************************************************)
(* Type correctness: whatever overlaps, fails, is refused or stops, the    *)
(* variables keep the types they are declared with.                        *)
(***************************************************************************)
THEOREM CycleTypeCorrect == Spec => []TypeOK
  BY CycleInvHolds, PTL

(***************************************************************************)
(* What the state remembers rests on an answer, an evaluation, verified    *)
(* telemetry, a prediction error and evidence.                             *)
(***************************************************************************)
THEOREM MemoryRestsOnEvidence == Spec => []StateRestsOnEvidence
<1>1. TypeOK /\ CycleInv => StateRestsOnEvidence
  BY DEF CycleInv, Copies, Held, Sound, Remembers, StateRestsOnEvidence
<1> QED
  BY <1>1, CycleInvHolds, PTL

(***************************************************************************)
(* What two beliefs contradict each other in stays marked, as long as the  *)
(* state names the contradiction.                                          *)
(***************************************************************************)
THEOREM ContradictionsStayMarked == Spec => []ContradictionsMarked
<1>1. TypeOK /\ CycleInv => ContradictionsMarked
  BY DEF CycleInv, Copies, Held, Sound, Remembers, ContradictionsMarked
<1> QED
  BY <1>1, CycleInvHolds, PTL

(***************************************************************************)
(* A failed instrument commits nothing, and a failed chat has no answer.   *)
(***************************************************************************)
THEOREM FailuresStayOut == Spec => []FailureNotCommitted
<1>1. TypeOK /\ CycleInv => FailureNotCommitted
  <2> SUFFICES ASSUME TypeOK, CycleInv PROVE FailureNotCommitted
    OBVIOUS
  <2>1. \A c \in state.remembers : saved[c] # 0
    BY DEF CycleInv, Copies, Held, Sound, Remembers
  <2> QED
    BY <2>1 DEF CycleInv, FailuresApart, FailureNotCommitted, Failed, Later
<1> QED
  BY <1>1, CycleInvHolds, PTL

(***************************************************************************)
(* A lost experience or contradiction shows in the revision numbers.       *)
(***************************************************************************)
THEOREM LossesShow == Spec => []LossShows
<1>1. TypeOK /\ CycleInv => LossShows
  <2> SUFFICES ASSUME TypeOK, CycleInv,
                      NEW r \in Parts, saved[r] # 0, r \notin state.remembers
               PROVE  \/ state.revision < saved[r]
                      \/ \E q \in Requests \ {r} : saved[q] = saved[r]
    BY DEF LossShows
  <2>1. Numbered(state)
    BY DEF CycleInv, Copies, Held, Sound
  <2>2. saved[r] \in Nat /\ state.revision \in Nat
    BY DEF TypeOK, State, Requests
  <2> QED
    BY <2>1, <2>2 DEF Numbered
<1> QED
  BY <1>1, CycleInvHolds, PTL
=============================================================================
