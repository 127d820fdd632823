--------------------------- MODULE PortZeroProofs ---------------------------
(***************************************************************************)
(* Proofs about PortZeroGateway, for any messages, ids, keys and threads:  *)
(* what crossed and what was stored, then the events of a request and the  *)
(* evidence of what crossed.                                               *)
(***************************************************************************)
EXTENDS PortZeroGateway, SequenceTheorems, TLAPS

\* The task records, under the name that the proofs use.
Tasks == {Idle} \cup Task \cup MoveTask
Places == {"outbox", "check", "route", "send", "await", "respond"}

\* The initial state has the declared types.
LEMMA InitType == Init => TypeOK
  BY GatewayAssumption
  DEF GatewayAssumption, Init, TypeOK, Idle, Transition

\* A worker that is not idle has a message, and a transition if it makes one.
LEMMA TaskShape ==
  ASSUME TypeOK, NEW w \in Workers
  PROVE  /\ ~IsIdle(w) => task[w].m \in Messages /\ IdAt(w) \in Ids
         /\ At(w, "log") \/ At(w, "update") => task[w] \in MoveTask
         /\ ~At(w, "log") /\ ~At(w, "update") /\ ~IsIdle(w)
               => task[w] \in Task
  BY GatewayAssumption
  DEF GatewayAssumption, TypeOK, IsIdle, At, IdAt, Idle, Task, MoveTask

\* Goto, Finish and Move keep the task records well typed.
LEMMA TaskSteps ==
  ASSUME TypeOK, NEW w \in Workers, ~IsIdle(w),
         \/ \E pc \in Places : Goto(w, pc)
         \/ \E prior, new \in States : Move(w, prior, new)
         \/ Finish(w)
  PROVE  task' \in [Workers -> Tasks]
<1>1. task[w].m \in Messages
  BY TaskShape
<1>2. ASSUME NEW pc \in Places, Goto(w, pc)
      PROVE  task' \in [Workers -> Tasks]
  <2>1. [pc |-> pc, m |-> task[w].m] \in Tasks
    BY <1>1 DEF Tasks, Task, Places
  <2> QED
    BY <1>2, <2>1 DEF Goto, TypeOK, Tasks
<1>3. ASSUME NEW prior \in States, NEW new \in States, Move(w, prior, new)
      PROVE  task' \in [Workers -> Tasks]
  <2>1. [pc |-> "log", m |-> task[w].m, prior |-> prior, new |-> new]
           \in Tasks
    BY <1>1 DEF Tasks, MoveTask
  <2> QED
    BY <1>3, <2>1 DEF Move, TypeOK, Tasks
<1>4. Finish(w) => task' \in [Workers -> Tasks]
  BY DEF Finish, TypeOK, Tasks
<1> QED
  BY <1>2, <1>3, <1>4

\* A handler past its INSERT finds the row of its message.
LEMMA OwnRow ==
  ASSUME TypeOK, Owned, NEW w \in Workers, Owns(w)
  PROVE  /\ IdAt(w) \in Ids
         /\ requests[IdAt(w)] \in Request
         /\ requests[IdAt(w)].message = task[w].m
  BY TaskShape DEF TypeOK, Owned, Owns, IsIdle, At, Holds, Exists, IdAt

\* Every step keeps the declared types; that of the row a handler updates
\* is known because the handler owns it.
LEMMA StepType == TypeOK /\ Owned /\ [Next]_vars => TypeOK'
<1> SUFFICES ASSUME TypeOK, Owned, [Next]_vars PROVE TypeOK'
  OBVIOUS
<1> USE DEF rows, founder
<1>1. ASSUME NEW w \in Workers, NEW m \in Messages, Submit(w, m)
      PROVE  TypeOK'
  <2>1. [pc |-> "insert", m |-> m] \in Task
    BY DEF Task
  <2> QED
    BY <1>1, <2>1 DEF Submit, TypeOK
<1>2. ASSUME NEW w \in Workers, Insert(w)
      PROVE  TypeOK'
  <2>1. task' \in [Workers -> Tasks] /\ task[w].m \in Messages
    BY <1>2, TaskSteps, TaskShape DEF Insert, At, IsIdle, Places
  <2>2. requests' \in [Ids -> Request \cup {Absent}]
    <3>1. [message |-> task[w].m, state |-> "CREATED", response |-> FALSE]
             \in Request
      BY <2>1 DEF Request, States
    <3> QED
      BY <1>2, <3>1 DEF Insert, TypeOK
  <2> QED
    BY <1>2, <2>1, <2>2 DEF Insert, TypeOK, Tasks
<1>3. ASSUME NEW w \in Workers, WriteOutbox(w)
      PROVE  TypeOK'
  <2>1. task' \in [Workers -> Tasks] /\ IdAt(w) \in Ids
    BY <1>3, TaskSteps, TaskShape DEF WriteOutbox, At, IsIdle, Places
  <2> QED
    BY <1>3, <2>1 DEF WriteOutbox, TypeOK, Tasks
<1>4. ASSUME NEW w \in Workers, Check(w) \/ Route(w)
      PROVE  TypeOK'
  <2>1. \/ \E prior, new \in States : Move(w, prior, new)
        \/ Finish(w)
    BY <1>4 DEF Check, Route, Abandon, States
  <2>2. task' \in [Workers -> Tasks] /\ task[w].m \in Messages
    BY <1>4, <2>1, TaskSteps, TaskShape DEF Check, Route, At, IsIdle
  <2>3. abandoned' \subseteq Messages
    BY <1>4, <2>2 DEF Check, Route, Abandon, TypeOK
  <2> QED
    BY <1>4, <2>2, <2>3 DEF Check, Route, TypeOK, Tasks
<1>5. ASSUME NEW w \in Workers, LogTransition(w)
      PROVE  TypeOK'
  <2>1. task[w] \in MoveTask
    BY <1>5, TaskShape DEF LogTransition
  <2>2. [task[w] EXCEPT !.pc = "update"] \in MoveTask
    BY <2>1 DEF MoveTask
  <2>3. [prior |-> task[w].prior, new |-> task[w].new] \in Transition
    BY <2>1 DEF MoveTask, Transition
  <2>4. events' \in [Ids -> Seq(Transition)]
    <3>1. ASSUME NEW i \in Ids
          PROVE  Append(events[i], [prior |-> task[w].prior,
                                    new   |-> task[w].new]) \in Seq(Transition)
      BY <2>3 DEF TypeOK
    <3> QED
      BY <1>5, <3>1 DEF LogTransition, TypeOK
  <2> QED
    BY <1>5, <2>2, <2>4 DEF LogTransition, TypeOK
<1>6. ASSUME NEW w \in Workers, UpdateState(w)
      PROVE  TypeOK'
  <2>1. task[w] \in MoveTask
    BY <1>6, TaskShape DEF UpdateState
  <2>2. task' \in [Workers -> Tasks]
    BY <1>6, TaskSteps
    DEF UpdateState, After, At, IsIdle, States, Places
  <2>3. [requests[IdAt(w)] EXCEPT !.state = task[w].new] \in Request
    BY <1>6, <2>1, OwnRow DEF UpdateState, At, Owns, Request, MoveTask
  <2> QED
    BY <1>6, <2>2, <2>3 DEF UpdateState, TypeOK, Tasks
<1>7. ASSUME NEW w \in Workers, Send(w)
      PROVE  TypeOK'
  <2>1. task' \in [Workers -> Tasks] /\ task[w].m \in Messages
    BY <1>7, TaskSteps, TaskShape DEF Send, Abandon, At, IsIdle, Places
  <2>2. posted' \in [Messages -> Nat] /\ abandoned' \subseteq Messages
    BY <1>7, <2>1 DEF Send, Abandon, TypeOK
  <2> QED
    BY <1>7, <2>1, <2>2 DEF Send, TypeOK, Tasks
<1>8. ASSUME NEW w \in Workers, Receive(w)
      PROVE  TypeOK'
  <2>1. task' \in [Workers -> Tasks] /\ task[w].m \in Messages
    BY <1>8, TaskSteps, TaskShape DEF Receive, Abandon, At, IsIdle, States
  <2>2. abandoned' \subseteq Messages
    BY <1>8, <2>1 DEF Receive, Abandon, TypeOK
  <2> QED
    BY <1>8, <2>1, <2>2 DEF Receive, TypeOK, Tasks
<1>9. ASSUME NEW w \in Workers, StoreResponse(w)
      PROVE  TypeOK'
  <2>1. task' \in [Workers -> Tasks]
    BY <1>9, TaskSteps DEF StoreResponse, At, IsIdle
  <2>2. [requests[IdAt(w)] EXCEPT !.response = TRUE] \in Request
    BY <1>9, OwnRow DEF StoreResponse, At, Owns, Request
  <2> QED
    BY <1>9, <2>1, <2>2 DEF StoreResponse, TypeOK, Tasks
<1>10. ASSUME NEW m \in Messages, Environment(m)
       PROVE  TypeOK'
  BY <1>10 DEF Environment, SignFor, Withdraw, TypeOK
<1>11. CASE Crash
  <2>1. PICK w \in Workers :
           /\ ~IsIdle(w) /\ Finish(w)
           /\ abandoned' = abandoned \/ Abandon(w)
    BY <1>11 DEF Crash, Abandon, At, IsIdle
  <2>2. task' \in [Workers -> Tasks] /\ task[w].m \in Messages
    BY <2>1, TaskSteps, TaskShape
  <2>3. abandoned' \subseteq Messages
    BY <2>1, <2>2 DEF Abandon, TypeOK
  <2> QED
    BY <1>11, <2>2, <2>3 DEF Crash, TypeOK, Tasks
<1>12. CASE UNCHANGED vars
  BY <1>12 DEF vars, TypeOK
<1> QED
  BY <1>1, <1>2, <1>3, <1>4, <1>5, <1>6, <1>7, <1>8, <1>9, <1>10, <1>11,
     <1>12 DEF Next, Step

-----------------------------------------------------------------------------
\* There is no row, no task and no post at first.
LEMMA InitInv == Init => GatewayInv
  BY DEF Init, GatewayInv, Owned, RowsApart, SentOnce, Duties, Reports, Owns,
         MaySend, Cleared, Moving, Reporting, Exists, Idle, Onward

(***************************************************************************)
(* Most steps keep every row's message and every post.  They preserve the  *)
(* invariant if no worker takes on what it was not entitled to before: it  *)
(* owns no more than it did, and is cleared, or reports, only for cause.   *)
(***************************************************************************)
SameRows == \A i \in Ids :
               /\ Exists(i)' <=> Exists(i)
               /\ Exists(i) => requests'[i].message = requests[i].message
Entitled(w) ==
    /\ Owns(w)' => Owns(w) /\ task'[w].m = task[w].m
    /\ MaySend(w)' => MaySend(w)
    /\ Cleared(w)' => task[w].m \in everSigned
    /\ Reporting(w)' => posted[task[w].m] # 0
ReportsFor(i) == requests'[i].state = "PORT_REPORTED" =>
                    \/ requests[i].state = "PORT_REPORTED"
                    \/ posted[requests[i].message] # 0

\* A worker that may send, is cleared or reports owns its row.
LEMMA DutiesOwn ==
  ASSUME NEW w \in Workers
  PROVE  MaySend(w) \/ Cleared(w) \/ Reporting(w) => Owns(w)
  BY DEF MaySend, Cleared, Reporting, Moving, Owns

\* The quiet steps preserve the invariant.
LEMMA Carry ==
  ASSUME TypeOK, GatewayInv, SameRows, posted' = posted,
         everSigned \subseteq everSigned', valid' \subseteq everSigned',
         \A w \in Workers : Entitled(w),
         \A i \in Ids : Exists(i) => ReportsFor(i)
  PROVE  GatewayInv'
<1>1. ASSUME NEW m \in Messages PROVE Holds(m)' <=> Holds(m)
  <2>1. IdOf[m] \in Ids
    BY GatewayAssumption DEF GatewayAssumption
  <2> QED
    BY <2>1 DEF SameRows, Holds, Exists
<1>2. Owned'
  <2>1. ASSUME NEW w \in Workers, Owns(w)'
        PROVE  Holds(task[w].m)'
    <3>1. Owns(w) /\ task'[w].m = task[w].m
      BY <2>1 DEF Entitled
    <3>2. PICK m \in Messages : m = task[w].m
      BY <3>1, TaskShape DEF Owns, IsIdle, At
    <3>3. Holds(m)'
      BY <1>1, <3>1, <3>2 DEF GatewayInv, Owned
    <3> QED
      BY <3>1, <3>2, <3>3 DEF Holds, Exists
  <2>2. ASSUME NEW v \in Workers, NEW w \in Workers, Owns(v)', Owns(w)',
               task'[v].m = task'[w].m
        PROVE  v = w
    BY <2>2 DEF Entitled, GatewayInv, Owned
  <2> QED
    BY <2>1, <2>2 DEF Owned
<1>3. RowsApart'
  BY DEF GatewayInv, RowsApart, SameRows
<1>4. SentOnce'
  BY <1>1 DEF GatewayInv, SentOnce
<1>5. Duties'
  <2>1. ASSUME NEW w \in Workers, MaySend(w)' PROVE posted'[task'[w].m] = 0
    <3>1. task'[w].m = task[w].m /\ posted[task[w].m] = 0
      BY <2>1, DutiesOwn DEF Entitled, GatewayInv, Duties, Owns, MaySend,
         Cleared, Moving
    <3> QED
      BY <3>1
  <2>2. ASSUME NEW w \in Workers, Cleared(w)'
        PROVE  task'[w].m \in everSigned'
    BY <2>2 DEF Entitled, Owns, Cleared, Moving
  <2>3. ASSUME NEW w \in Workers, Reporting(w)'
        PROVE  posted'[task'[w].m] # 0
    <3>1. task'[w].m = task[w].m /\ posted[task[w].m] # 0
      BY <2>3 DEF Entitled, Owns, Reporting, Moving
    <3> QED
      BY <3>1
  <2> QED
    BY <2>1, <2>2, <2>3 DEF Duties
<1>6. Reports'
  BY DEF GatewayInv, Reports, SameRows, ReportsFor
<1> QED
  BY <1>2, <1>3, <1>4, <1>5, <1>6 DEF GatewayInv

\* Workers whose task a step leaves alone stay entitled.
LEMMA OthersEntitled ==
  ASSUME TypeOK, GatewayInv, NEW v \in Workers, task'[v] = task[v]
  PROVE  Entitled(v)
  BY DEF Entitled, Owns, MaySend, Cleared, Reporting, Moving, GatewayInv,
         Duties

\* An idle worker, or one that is about to insert, is entitled.
LEMMA RestEntitled ==
  ASSUME NEW v \in Workers, task'[v].pc \in {"idle", "insert"}
  PROVE  Entitled(v)
  BY DEF Entitled, Owns, MaySend, Cleared, Reporting, Moving

\* The steps that change no row and send nothing.
LEMMA QuietInv ==
  ASSUME TypeOK, GatewayInv, NEW w \in Workers,
         WriteOutbox(w) \/ Check(w) \/ LogTransition(w) \/ Route(w)
            \/ Receive(w)
  PROVE  GatewayInv'
<1>1. UNCHANGED <<requests, posted, everSigned, valid>>
  BY DEF WriteOutbox, Check, LogTransition, Route, Receive, rows, founder
<1>2. ASSUME NEW v \in Workers, v # w PROVE task'[v] = task[v]
  BY <1>2 DEF WriteOutbox, Check, LogTransition, Route, Receive, Goto, Move,
         Abandon, Finish, TypeOK
<1>3. Entitled(w)
  <2>1. CASE WriteOutbox(w)
    BY <2>1 DEF WriteOutbox, Goto, At, TypeOK, Entitled, Owns, MaySend,
           Cleared, Reporting, Moving
  <2>2. CASE Check(w)
    BY <2>2 DEF Check, Move, Abandon, Finish, At, TypeOK, Entitled, Owns,
           MaySend, Cleared, Reporting, Moving, Onward, GatewayInv, Idle
  <2>3. CASE LogTransition(w)
    <3>1. task[w] \in MoveTask
      BY <2>3, TaskShape DEF LogTransition
    <3>2. task'[w] = [task[w] EXCEPT !.pc = "update"]
      BY <2>3 DEF LogTransition, TypeOK
    <3> QED
      BY <2>3, <3>1, <3>2
      DEF LogTransition, At, MoveTask, Entitled, Owns, MaySend, Cleared,
          Reporting, Moving, GatewayInv, Duties
  <2>4. CASE Route(w)
    BY <2>4 DEF Route, Move, At, TypeOK, Entitled, Owns, MaySend, Cleared,
           Reporting, Moving, Onward, GatewayInv, Duties
  <2>5. CASE Receive(w)
    BY <2>5 DEF Receive, Move, Abandon, Finish, At, TypeOK, Entitled, Owns,
           MaySend, Cleared, Reporting, Moving, Onward, GatewayInv, Duties,
           Idle
  <2> QED
    BY <2>1, <2>2, <2>3, <2>4, <2>5
<1>4. \A v \in Workers : Entitled(v)
  BY <1>2, <1>3, OthersEntitled
<1>5. SameRows /\ \A i \in Ids : Exists(i) => ReportsFor(i)
  BY <1>1 DEF SameRows, ReportsFor, Exists
<1> QED
  BY <1>1, <1>4, <1>5, Carry DEF GatewayInv

\* The steps of a handler that update the row it owns.
LEMMA UpdateInv ==
  ASSUME TypeOK, GatewayInv, NEW w \in Workers,
         UpdateState(w) \/ StoreResponse(w)
  PROVE  GatewayInv'
<1> DEFINE i == IdAt(w)
<1>1. Owns(w)
  BY DEF UpdateState, StoreResponse, Owns, At
<1>2. /\ i \in Ids /\ requests[i] \in Request
      /\ requests[i].message = task[w].m
  BY <1>1, OwnRow DEF GatewayInv
<1>3. UNCHANGED <<posted, everSigned, valid>>
  BY DEF UpdateState, StoreResponse, founder
<1>4. ASSUME NEW v \in Workers, v # w PROVE task'[v] = task[v]
  BY <1>4 DEF UpdateState, StoreResponse, After, Goto, Move, Finish, TypeOK
<1>5. /\ \A j \in Ids \ {i} : requests'[j] = requests[j]
      /\ requests'[i] \in Request
      /\ requests'[i].message = requests[i].message
      /\ UpdateState(w) => requests'[i].state = task[w].new
      /\ StoreResponse(w) => requests'[i].state = requests[i].state
  <2>1. CASE UpdateState(w)
    <3>1. task[w] \in MoveTask /\ ~StoreResponse(w)
      BY <2>1, TaskShape DEF UpdateState, StoreResponse, At
    <3> QED
      BY <2>1, <3>1, <1>2 DEF UpdateState, TypeOK, Request, MoveTask
  <2>2. CASE StoreResponse(w)
    <3>1. ~UpdateState(w)
      BY <2>2 DEF UpdateState, StoreResponse, At
    <3> QED
      BY <2>2, <3>1, <1>2 DEF StoreResponse, TypeOK, Request
  <2> QED
    BY <2>1, <2>2
<1>6. SameRows
  BY <1>2, <1>5 DEF SameRows, Exists, Request, Absent, States
<1>7. ASSUME NEW j \in Ids, Exists(j) PROVE ReportsFor(j)
  <2>1. CASE UpdateState(w) /\ j = i
    <3>1. task[w].new = "PORT_REPORTED" => posted[task[w].m] # 0
      BY <2>1 DEF UpdateState, At, GatewayInv, Duties, Reporting, Moving
    <3> QED
      BY <2>1, <3>1, <1>2, <1>5 DEF ReportsFor
  <2> QED
    BY <2>1, <1>5 DEF ReportsFor
<1>8. Entitled(w)
  <2>1. CASE StoreResponse(w)
    BY <2>1, RestEntitled DEF StoreResponse, Finish, TypeOK, Idle
  <2>2. CASE UpdateState(w)
    <3>1. task[w] \in MoveTask /\ task[w].pc = "update"
      BY <2>2, TaskShape DEF UpdateState, At
    <3>2. CASE task[w].new \in Onward
      <4>1. MaySend(w) /\ Cleared(w) /\ task[w].m \in everSigned
        BY <3>1, <3>2 DEF MaySend, Cleared, Moving, GatewayInv, Duties
      <4>2. \/ task'[w] = [pc |-> "route", m |-> task[w].m]
            \/ task'[w] = [pc |-> "send", m |-> task[w].m]
            \/ task'[w] = [pc |-> "log", m |-> task[w].m,
                           prior |-> "ROUTE_AUTHORIZED",
                           new |-> "SUBMITTED_TO_PORT_ZERO"]
        BY <2>2, <3>2 DEF UpdateState, After, Goto, Move, Onward, TypeOK
      <4> QED
        BY <1>1, <4>1, <4>2
        DEF Entitled, Owns, MaySend, Cleared, Reporting, Moving
    <3>3. CASE task[w].new \notin Onward
      <4>1. \/ task'[w] = [pc |-> "respond", m |-> task[w].m]
            \/ task'[w] = Idle
        BY <2>2, <3>3 DEF UpdateState, After, Goto, Finish, Onward, TypeOK
      <4> QED
        BY <1>1, <4>1
        DEF Entitled, Owns, MaySend, Cleared, Reporting, Moving, Idle
    <3> QED
      BY <3>2, <3>3
  <2> QED
    BY <2>1, <2>2
<1>9. \A v \in Workers : Entitled(v)
  BY <1>4, <1>8, OthersEntitled
<1> QED
  BY <1>3, <1>6, <1>7, <1>9, Carry DEF GatewayInv

\* A request is admitted, the environment moves, or a handler stops.
LEMMA OutsideInv ==
  ASSUME TypeOK, GatewayInv,
         \/ \E w \in Workers, m \in Messages : Submit(w, m)
         \/ \E m \in Messages : Environment(m)
         \/ Crash \/ UNCHANGED vars
  PROVE  GatewayInv'
<1>1. /\ UNCHANGED <<requests, posted>>
      /\ everSigned \subseteq everSigned' /\ valid' \subseteq everSigned'
  BY DEF Submit, Environment, SignFor, Withdraw, Crash, vars, rows,
         founder, GatewayInv
<1>2. ASSUME NEW v \in Workers PROVE Entitled(v)
  <2>1. task'[v] = task[v] \/ task'[v].pc \in {"idle", "insert"}
    BY DEF Submit, Environment, SignFor, Withdraw, Crash, Abandon, vars,
           TypeOK, Idle, Finish
  <2> QED
    BY <2>1, OthersEntitled, RestEntitled
<1>3. SameRows /\ \A i \in Ids : Exists(i) => ReportsFor(i)
  BY <1>1 DEF SameRows, ReportsFor, Exists
<1> QED
  BY <1>1, <1>2, <1>3, Carry

(***************************************************************************)
(* The INSERT that succeeds: no row was a rival, so none is for the        *)
(* message of another handler or for one that was posted.                  *)
(***************************************************************************)
LEMMA InsertInv ==
  ASSUME TypeOK, GatewayInv, NEW w \in Workers, Insert(w)
  PROVE  GatewayInv'
<1>1. PICK m \in Messages : m = task[w].m
  BY TaskShape DEF Insert, At, IsIdle
<1>2. IdOf[m] \in Ids /\ At(w, "insert") /\ task[w].pc = "insert"
  BY GatewayAssumption DEF GatewayAssumption, Insert, At
<1>3. /\ UNCHANGED <<posted, everSigned, valid>>
      /\ \A v \in Workers \ {w} : task'[v] = task[v]
  BY DEF Insert, Finish, Goto, TypeOK, founder
<1>4. CASE Taken(m)
  <2>1. requests' = requests /\ task'[w] = Idle
    BY <1>1, <1>4 DEF Insert, Finish, TypeOK
  <2>2. \A v \in Workers : Entitled(v)
    BY <1>3, <2>1, OthersEntitled, RestEntitled DEF Idle
  <2>3. SameRows /\ \A i \in Ids : Exists(i) => ReportsFor(i)
    BY <2>1 DEF SameRows, ReportsFor, Exists
  <2> QED
    BY <1>3, <2>2, <2>3, Carry DEF GatewayInv
<1>5. CASE ~Taken(m)
  <2>1. /\ requests' = [requests EXCEPT ![IdOf[m]] =
                          [message |-> m, state |-> "CREATED",
                           response |-> FALSE]]
        /\ task'[w] = [pc |-> "outbox", m |-> m]
    BY <1>1, <1>5 DEF Insert, Goto, IdAt, TypeOK
  <2>2. /\ ~Exists(IdOf[m])
        /\ requests'[IdOf[m]].message = m
        /\ requests'[IdOf[m]].state = "CREATED"
        /\ Exists(IdOf[m])'
        /\ \A j \in Ids \ {IdOf[m]} : requests'[j] = requests[j]
    <3>1. ~Exists(IdOf[m])
      BY <1>2, <1>5 DEF Taken, Rivals, GatewayInv, RowsApart
    <3> QED
      BY <1>2, <2>1, <3>1 DEF TypeOK, Exists, Absent
  <2>3. ASSUME NEW n \in Messages, Holds(n) PROVE Holds(n)' /\ n # m
    <3>1. IdOf[n] # IdOf[m] /\ IdOf[n] \in Ids
      BY <2>2, <2>3, GatewayAssumption DEF Holds, GatewayAssumption
    <3> QED
      BY <2>2, <2>3, <3>1 DEF Holds, Exists
  <2>4. Holds(m)' /\ posted[m] = 0
    <3>1. ~Holds(m)
      BY <2>2 DEF Holds
    <3> QED
      BY <2>2, <3>1 DEF Holds, Exists, GatewayInv, SentOnce
  <2>5. Owned'
    <3>1. ASSUME NEW v \in Workers, v # w, Owns(v)'
          PROVE  Owns(v) /\ task'[v].m = task[v].m
                 /\ Holds(task[v].m)' /\ task[v].m # m
      <4>1. Owns(v) /\ task'[v].m = task[v].m
        BY <1>3, <3>1 DEF Owns
      <4>2. PICK n \in Messages : n = task[v].m /\ Holds(n)
        BY <4>1, TaskShape DEF GatewayInv, Owned, Owns, IsIdle, At
      <4>3. Holds(n)' /\ n # m
        BY <2>3, <4>2
      <4> QED
        BY <4>1, <4>2, <4>3
    <3>2. ASSUME NEW v \in Workers, Owns(v)' PROVE Holds(task[v].m)'
      <4>1. PICK n : n = task'[v].m /\ Holds(n)'
        BY <2>1, <2>4, <3>1, <3>2
      <4> QED
        BY <4>1 DEF Holds, Exists
    <3>3. ASSUME NEW v \in Workers, NEW u \in Workers, Owns(v)', Owns(u)',
                 task'[v].m = task'[u].m
          PROVE  v = u
      BY <2>1, <3>1, <3>3 DEF GatewayInv, Owned
    <3> QED
      BY <3>2, <3>3 DEF Owned
  <2>6. RowsApart'
    <3>1. ASSUME NEW i \in Ids, Exists(i)
          PROVE  i # IdOf[m] /\ ~Rivals(requests[i].message, m)
                 /\ ~Rivals(m, requests[i].message)
      BY <1>5, <2>2, <3>1 DEF Taken, Rivals, SameKey
    <3> QED
      BY <1>2, <2>2, <3>1 DEF RowsApart, GatewayInv, Exists
  <2>7. SentOnce'
    BY <1>3, <2>3 DEF SentOnce, GatewayInv
  <2>8. Duties'
    <3>1. ASSUME NEW v \in Workers, v # w
          PROVE  /\ MaySend(v)' => posted'[task'[v].m] = 0
                 /\ Cleared(v)' => task'[v].m \in everSigned'
                 /\ Reporting(v)' => posted'[task'[v].m] # 0
      BY <1>3, <3>1
      DEF GatewayInv, Duties, MaySend, Cleared, Reporting, Moving
    <3>2. /\ posted'[task'[w].m] = 0
          /\ ~Cleared(w)' /\ ~Reporting(w)'
      BY <1>3, <2>1, <2>4 DEF Cleared, Reporting, Moving
    <3> QED
      BY <3>1, <3>2 DEF Duties
  <2>9. Reports'
    BY <1>2, <1>3, <2>2 DEF Reports, GatewayInv, Exists
  <2> QED
    BY <1>3, <2>5, <2>6, <2>7, <2>8, <2>9 DEF GatewayInv
<1> QED
  BY <1>4, <1>5

(***************************************************************************)
(* The POST: its sender is the only owner of the row, so no other handler  *)
(* is left that may send this message.                                     *)
(***************************************************************************)
LEMMA SendInv ==
  ASSUME TypeOK, GatewayInv, NEW w \in Workers, Send(w)
  PROVE  GatewayInv'
<1>1. PICK m \in Messages : m = task[w].m
  BY TaskShape DEF Send, At, IsIdle
<1>2. /\ posted[m] = 0 /\ Owns(w) /\ Holds(m)
      /\ task[w].pc = "send"
  BY <1>1 DEF Send, At, GatewayInv, Duties, MaySend, Cleared, Owned, Owns
<1>3. /\ UNCHANGED <<requests, everSigned, valid>>
      /\ task'[w] = [pc |-> "await", m |-> m] \/ task'[w] = Idle
      /\ \A v \in Workers \ {w} : task'[v] = task[v]
      /\ \/ posted' = posted
         \/ posted' = [posted EXCEPT ![m] = 1]
  BY <1>1, <1>2 DEF Send, Goto, Abandon, Finish, TypeOK, rows, founder
<1>4. \A v \in Workers : Entitled(v)
  <2>1. Entitled(w)
    BY <1>1, <1>2, <1>3
    DEF Entitled, Owns, MaySend, Cleared, Reporting, Moving, Idle
  <2> QED
    BY <1>3, <2>1, OthersEntitled
<1>5. CASE posted' = posted
  BY <1>3, <1>4, <1>5, Carry DEF SameRows, ReportsFor, Exists, GatewayInv
<1>6. CASE posted' = [posted EXCEPT ![m] = 1]
  <2>1. /\ posted'[m] = 1
        /\ \A n \in Messages \ {m} : posted'[n] = posted[n]
    BY <1>6 DEF TypeOK
  <2>2. Owned' /\ RowsApart'
    <3>1. ASSUME NEW v \in Workers, Owns(v)'
          PROVE  Owns(v) /\ task'[v].m = task[v].m
      BY <1>4, <3>1 DEF Entitled
    <3> QED
      BY <1>3, <3>1 DEF GatewayInv, Owned, RowsApart, Holds, Exists
  <2>3. SentOnce'
    BY <1>2, <1>3, <2>1 DEF GatewayInv, SentOnce, Holds, Exists
  <2>4. Duties'
    <3>1. ASSUME NEW v \in Workers, v # w, Owns(v)
          PROVE  task[v].m \in Messages \ {m}
      <4>1. task[v].m \in Messages
        BY <3>1, TaskShape DEF Owns, IsIdle, At
      <4> QED
        BY <1>1, <1>2, <3>1, <4>1 DEF GatewayInv, Owned
    <3>2. ASSUME NEW v \in Workers, v # w
          PROVE  /\ MaySend(v)' => posted'[task'[v].m] = 0
                 /\ Cleared(v)' => task'[v].m \in everSigned'
                 /\ Reporting(v)' => posted'[task'[v].m] # 0
      <4>1. /\ MaySend(v)' => MaySend(v)
            /\ Cleared(v)' => Cleared(v)
            /\ Reporting(v)' => Reporting(v)
            /\ task'[v].m = task[v].m
        BY <1>3, <3>2 DEF MaySend, Cleared, Reporting, Moving
      <4> QED
        BY <1>3, <2>1, <3>1, <3>2, <4>1, DutiesOwn DEF GatewayInv, Duties
    <3>3. ~MaySend(w)' /\ ~Cleared(w)' /\ ~Reporting(w)'
      BY <1>3 DEF MaySend, Cleared, Reporting, Moving, Idle
    <3> QED
      BY <3>2, <3>3 DEF Duties
  <2>5. Reports'
    <3>1. ASSUME NEW i \in Ids, Exists(i)
          PROVE  requests[i].message \in Messages
      BY <3>1 DEF TypeOK, Exists, Request
    <3> QED
      BY <1>3, <2>1, <3>1 DEF GatewayInv, Reports, Exists
  <2> QED
    BY <1>3, <2>2, <2>3, <2>4, <2>5 DEF GatewayInv
<1> QED
  BY <1>3, <1>5, <1>6

\* Every step preserves the invariant.
LEMMA StepInv == TypeOK /\ GatewayInv /\ [Next]_vars => GatewayInv'
  BY QuietInv, UpdateInv, OutsideInv, InsertInv, SendInv DEF Next, Step

(***************************************************************************)
(* The variables hold what their declarations say in every reachable state *)
(* (all of PortZeroGateway).                                               *)
(***************************************************************************)
THEOREM GatewayTypeCorrect == Spec => []TypeOK
<1>1. Init => TypeOK /\ GatewayInv
  BY InitType, InitInv
<1>2. TypeOK /\ GatewayInv /\ [Next]_vars => TypeOK' /\ GatewayInv'
  BY StepType, StepInv DEF GatewayInv
<1> QED
  BY <1>1, <1>2, PTL DEF Spec

(***************************************************************************)
(* Of all messages that share a request id or an idempotency key at most   *)
(* one reaches Port Zero, once, for any number of threads, submissions and *)
(* crashes (submit).                                                       *)
(***************************************************************************)
THEOREM CrossesAtMostOnce == Spec => []AtMostOnce
<1>1. Init => TypeOK /\ GatewayInv
  BY InitType, InitInv
<1>2. TypeOK /\ GatewayInv /\ [Next]_vars => TypeOK' /\ GatewayInv'
  BY StepType, StepInv DEF GatewayInv
<1>3. TypeOK /\ GatewayInv => AtMostOnce
  <2> SUFFICES ASSUME TypeOK, GatewayInv,
                      NEW m \in Messages, NEW n \in Messages,
                      posted[m] > 0, posted[n] > 0, Rivals(m, n)
               PROVE  m = n /\ posted[m] = 1
    BY DEF AtMostOnce
  <2>1. posted[m] = 1 /\ Holds(m) /\ Holds(n)
    BY DEF TypeOK, GatewayInv, SentOnce
  <2>2. IdOf[m] \in Ids /\ IdOf[n] \in Ids
    BY GatewayAssumption DEF GatewayAssumption
  <2> QED
    BY <2>1, <2>2 DEF Holds, GatewayInv, RowsApart
<1> QED
  BY <1>1, <1>2, <1>3, PTL DEF Spec

-----------------------------------------------------------------------------
(***************************************************************************)
(* The refinement.  SignFor is BSign, the Send that arrives is Cross, the  *)
(* UPDATE to PORT_REPORTED is Report, every other step stutters.           *)
(***************************************************************************)
ReportedNow == {m \in Messages :
                  /\ Exists(IdOf[m])
                  /\ requests[IdOf[m]].message = m
                  /\ requests[IdOf[m]].state = "PORT_REPORTED"}

\* Nothing was signed, crossed or reported at first.
LEMMA InitPromise == Init => Promise!BInit
  BY GatewayAssumption
  DEF GatewayAssumption, Init, Promise!BInit, Exists

\* A handler that is not about to store an answer owns no reported row.
LEMMA StepUnreported ==
  TypeOK /\ PromiseInv /\ [Next]_vars => Unreported'
<1> SUFFICES ASSUME TypeOK, PromiseInv, [Next]_vars,
                    NEW v \in Workers, Owns(v)', ~At(v, "respond")'
             PROVE  requests'[IdAt(v)'].state # "PORT_REPORTED"
  BY DEF Unreported
<1> USE DEF PromiseInv
<1>1. ASSUME Owns(v), ~At(v, "respond"), task'[v].m = task[v].m,
             requests'[IdAt(v)] = requests[IdAt(v)]
      PROVE  requests'[IdAt(v)'].state # "PORT_REPORTED"
  BY <1>1 DEF Unreported, IdAt
<1>2. ASSUME NEW w \in Workers, w # v, Owns(v), Owns(w)
      PROVE  IdAt(w) # IdAt(v)
  BY <1>2 DEF GatewayInv, Owned, Holds, IdAt
<1>3. ASSUME NEW w \in Workers, Insert(w)
      PROVE  requests'[IdAt(v)'].state # "PORT_REPORTED"
  <2>1. PICK m \in Messages : m = task[w].m
    BY <1>3, TaskShape DEF Insert, At, IsIdle
  <2>2. IdOf[m] \in Ids
    BY GatewayAssumption DEF GatewayAssumption
  <2>3. CASE v = w
    <3>1. ~Taken(m) /\ task'[w].m = m
      BY <1>3, <2>1, <2>3 DEF Insert, Finish, Goto, Owns, Idle, TypeOK
    <3>2. requests'[IdOf[m]].state = "CREATED"
      BY <1>3, <2>1, <2>2, <3>1 DEF Insert, IdAt, TypeOK
    <3> QED
      BY <2>3, <3>1, <3>2 DEF IdAt
  <2>4. CASE v # w
    <3>1. task'[v] = task[v]
      BY <1>3, <2>4 DEF Insert, Finish, Goto, TypeOK
    <3>2. Owns(v) /\ ~At(v, "respond")
      BY <3>1 DEF Owns, At
    <3>3. CASE Taken(m)
      BY <1>1, <1>3, <2>1, <3>1, <3>2, <3>3 DEF Insert
    <3>4. CASE ~Taken(m)
      <4>1. ~Exists(IdOf[m]) /\ Exists(IdAt(v)) /\ IdAt(v) \in Ids
        BY <2>2, <3>2, <3>4, TaskShape
        DEF Taken, Rivals, GatewayInv, RowsApart, Owned, Holds, IdAt, Owns,
            IsIdle, At
      <4>2. requests'[IdAt(v)] = requests[IdAt(v)]
        BY <1>3, <2>1, <4>1 DEF Insert, IdAt, TypeOK
      <4> QED
        BY <1>1, <3>1, <3>2, <4>2
    <3> QED
      BY <3>3, <3>4
  <2> QED
    BY <2>3, <2>4
<1>4. ASSUME NEW w \in Workers, UpdateState(w) \/ StoreResponse(w)
      PROVE  requests'[IdAt(v)'].state # "PORT_REPORTED"
  <2>1. /\ IdAt(w) \in Ids /\ requests[IdAt(w)] \in Request /\ Owns(w)
    BY <1>4, OwnRow DEF UpdateState, StoreResponse, At, Owns, GatewayInv
  <2>2. CASE v = w
    <3>1. UpdateState(w) /\ task[w].new # "PORT_REPORTED"
                        /\ task'[w].m = task[w].m
      BY <1>4, <2>2
      DEF UpdateState, After, StoreResponse, Goto, Move, Finish, Owns, At,
          Idle, TypeOK
    <3>2. requests'[IdAt(w)].state = task[w].new
      BY <2>1, <3>1 DEF UpdateState, TypeOK, Request
    <3> QED
      BY <2>2, <3>1, <3>2 DEF IdAt
  <2>3. CASE v # w
    <3>1. task'[v] = task[v]
      BY <1>4, <2>3
      DEF UpdateState, After, StoreResponse, Goto, Move, Finish, TypeOK
    <3>2. Owns(v) /\ ~At(v, "respond")
      BY <3>1 DEF Owns, At
    <3>3. IdAt(w) # IdAt(v) /\ IdAt(v) \in Ids
      BY <1>2, <2>1, <2>3, <3>2, OwnRow DEF GatewayInv
    <3>4. requests'[IdAt(v)] = requests[IdAt(v)]
      BY <1>4, <3>3 DEF UpdateState, StoreResponse, TypeOK
    <3> QED
      BY <1>1, <3>1, <3>2, <3>4
  <2> QED
    BY <2>2, <2>3
<1>5. ASSUME UNCHANGED requests, Owns(v), ~At(v, "respond"),
             task'[v].m = task[v].m
      PROVE  requests'[IdAt(v)'].state # "PORT_REPORTED"
  BY <1>1, <1>5
<1>6. ASSUME NEW w \in Workers,
             WriteOutbox(w) \/ Check(w) \/ LogTransition(w) \/ Route(w)
                \/ Receive(w) \/ Send(w)
      PROVE  requests'[IdAt(v)'].state # "PORT_REPORTED"
  <2>1. UNCHANGED requests
    BY <1>6 DEF WriteOutbox, Check, LogTransition, Route, Receive, Send, rows
  <2>2. CASE v = w
    <3>1. Owns(v) /\ ~At(v, "respond")
      BY <1>6, <2>2 DEF WriteOutbox, Check, LogTransition, Route, Receive,
             Send, Owns, At
    <3>2. task'[v].m = task[v].m
      <4>1. CASE LogTransition(w)
        <5>1. task[w] \in MoveTask
          BY <4>1, TaskShape DEF LogTransition
        <5> QED
          BY <2>2, <4>1, <5>1 DEF LogTransition, TypeOK, MoveTask
      <4>2. CASE ~LogTransition(w)
        BY <1>6, <2>2, <4>2
        DEF WriteOutbox, Check, Route, Receive, Send, Goto, Move, Abandon,
            Finish, Owns, Idle, TypeOK
      <4> QED
        BY <4>1, <4>2
    <3> QED
      BY <1>5, <2>1, <3>1, <3>2
  <2>3. CASE v # w
    <3>1. task'[v] = task[v]
      BY <1>6, <2>3 DEF WriteOutbox, Check, LogTransition, Route, Receive,
             Send, Goto, Move, Abandon, Finish, TypeOK
    <3> QED
      BY <1>5, <2>1, <3>1 DEF Owns, At
  <2> QED
    BY <2>2, <2>3
<1>7. ASSUME NEW w \in Workers, NEW m \in Messages, Submit(w, m)
      PROVE  requests'[IdAt(v)'].state # "PORT_REPORTED"
  <2>1. task'[v] = task[v] /\ UNCHANGED requests
    BY <1>7 DEF Submit, Owns, TypeOK, rows
  <2> QED
    BY <1>5, <2>1 DEF Owns, At
<1>8. CASE UNCHANGED <<requests, task>>
  BY <1>5, <1>8 DEF Owns, At
<1>9. ASSUME Crash
      PROVE  requests'[IdAt(v)'].state # "PORT_REPORTED"
  <2>1. PICK w \in Workers : Finish(w)
    BY <1>9 DEF Crash, Abandon
  <2>2. task'[v] = task[v] /\ UNCHANGED requests
    BY <1>5, <1>9, <2>1 DEF Crash, Finish, Idle, Owns, TypeOK, rows
  <2> QED
    BY <1>5, <2>2 DEF Owns, At
<1> QED
  BY <1>3, <1>4, <1>6, <1>7, <1>8, <1>9
  DEF Next, Step, Environment, SignFor, Withdraw, vars, rows

\* Only an UPDATE changes what is reported, and it adds the handler's message.
LEMMA ReportedSteps ==
  ASSUME TypeOK, PromiseInv, [Next]_vars
  PROVE  \/ ReportedNow' = ReportedNow
         \/ \E m \in Messages :
               /\ ReportedNow' = ReportedNow \cup {m}
               /\ posted[m] = 1
               /\ UNCHANGED <<everSigned, posted>>
<1> USE DEF PromiseInv
<1>0. \A m \in Messages : IdOf[m] \in Ids
  BY GatewayAssumption DEF GatewayAssumption
<1>1. CASE UNCHANGED requests
  BY <1>1 DEF ReportedNow, Exists
<1>2. ASSUME NEW w \in Workers, Insert(w)
      PROVE  ReportedNow' = ReportedNow
  <2>1. CASE Taken(task[w].m)
    BY <1>2, <2>1 DEF Insert, ReportedNow, Exists
  <2>2. CASE ~Taken(task[w].m)
    <3>1. PICK m \in Messages : m = task[w].m
      BY <1>2, TaskShape DEF Insert, At, IsIdle
    <3>2. ~Exists(IdOf[m])
      BY <1>0, <2>2, <3>1 DEF Taken, Rivals, GatewayInv, RowsApart
    <3>3. requests' = [requests EXCEPT ![IdOf[m]] =
                         [message |-> m, state |-> "CREATED",
                          response |-> FALSE]]
      BY <1>2, <2>2, <3>1 DEF Insert, IdAt
    <3>4. ASSUME NEW n \in Messages
          PROVE  n \in ReportedNow' <=> n \in ReportedNow
      BY <1>0, <3>2, <3>3 DEF ReportedNow, Exists, TypeOK
    <3> QED
      BY <3>4 DEF ReportedNow
  <2> QED
    BY <2>1, <2>2
<1>3. ASSUME NEW w \in Workers, StoreResponse(w)
      PROVE  ReportedNow' = ReportedNow
  <2>1. /\ IdAt(w) \in Ids /\ requests[IdAt(w)] \in Request
    BY <1>3, OwnRow DEF StoreResponse, At, Owns, GatewayInv
  <2>2. ASSUME NEW n \in Messages
        PROVE  n \in ReportedNow' <=> n \in ReportedNow
    BY <1>0, <1>3, <2>1
    DEF StoreResponse, ReportedNow, Exists, TypeOK, Request, Absent
  <2> QED
    BY <2>2 DEF ReportedNow
<1>4. ASSUME NEW w \in Workers, UpdateState(w)
      PROVE  \/ ReportedNow' = ReportedNow
             \/ \E m \in Messages :
                   /\ ReportedNow' = ReportedNow \cup {m}
                   /\ posted[m] = 1
                   /\ UNCHANGED <<everSigned, posted>>
  <2>1. PICK m \in Messages : m = task[w].m
    BY <1>4, TaskShape DEF UpdateState, At, IsIdle
  <2>2. /\ IdAt(w) = IdOf[m] /\ requests[IdOf[m]] \in Request
        /\ requests[IdOf[m]].message = m
    BY <1>4, <2>1, OwnRow DEF UpdateState, At, Owns, GatewayInv, IdAt
  <2>3. task[w] \in MoveTask
    BY <1>4, TaskShape DEF UpdateState
  <2>4. requests' = [requests EXCEPT ![IdOf[m]].state = task[w].new]
    BY <1>4, <2>2 DEF UpdateState
  <2>5. /\ requests'[IdOf[m]] \in Request
        /\ requests'[IdOf[m]].message = m
        /\ requests'[IdOf[m]].state = task[w].new
        /\ \A j \in Ids \ {IdOf[m]} : requests'[j] = requests[j]
    BY <1>0, <2>2, <2>3, <2>4 DEF TypeOK, Request, MoveTask
  <2>6. ASSUME NEW n \in Messages, n # m
        PROVE  n \in ReportedNow' <=> n \in ReportedNow
    BY <1>0, <2>2, <2>5, <2>6 DEF ReportedNow, Exists
  <2>7. m \in ReportedNow' <=> task[w].new = "PORT_REPORTED"
    BY <2>5 DEF ReportedNow, Exists, Request, Absent, States
  <2>8. CASE task[w].new = "PORT_REPORTED"
    <3>1. posted[m] = 1
      BY <1>4, <2>1, <2>8
      DEF UpdateState, At, GatewayInv, Duties, Reporting, Moving, SentOnce
    <3>2. ReportedNow' = ReportedNow \cup {m}
      BY <2>6, <2>7, <2>8 DEF ReportedNow
    <3> QED
      BY <1>4, <3>1, <3>2 DEF UpdateState, founder
  <2>9. CASE task[w].new # "PORT_REPORTED"
    <3>1. m \notin ReportedNow
      BY <1>4, <2>2 DEF UpdateState, At, Owns, Unreported, ReportedNow
    <3> QED
      BY <2>6, <2>7, <2>9, <3>1 DEF ReportedNow
  <2> QED
    BY <2>8, <2>9
<1> QED
  BY <1>1, <1>2, <1>3, <1>4
  DEF Next, Step, Submit, WriteOutbox, Check, LogTransition, Route, Send,
      Receive, Environment, SignFor, Withdraw, Crash, vars, rows

\* Every step is one that BoundaryPromise allows, or a stutter.
LEMMA StepPromise ==
  TypeOK /\ PromiseInv /\ [Next]_vars => [Promise!BNext]_(Promise!bvars)
<1> SUFFICES ASSUME TypeOK, PromiseInv, [Next]_vars
             PROVE  [Promise!BNext]_(Promise!bvars)
  OBVIOUS
<1>1. CASE UNCHANGED <<everSigned, posted>>
  <2>1. CASE ReportedNow' = ReportedNow
    BY <1>1, <2>1 DEF Promise!bvars, ReportedNow
  <2>2. ASSUME NEW m \in Messages, ReportedNow' = ReportedNow \cup {m},
               posted[m] = 1
        PROVE  Promise!BNext
    <3>1. Promise!Report(m)
      BY <1>1, <2>2 DEF Promise!Report, ReportedNow
    <3> QED
      BY <3>1 DEF Promise!BNext
  <2> QED
    BY <2>1, <2>2, ReportedSteps
<1>2. ASSUME NEW m \in Messages, SignFor(m)
      PROVE  Promise!BNext
  <2>1. ReportedNow' = ReportedNow
    BY <1>2 DEF SignFor, rows, ReportedNow, Exists
  <2>2. Promise!BSign(m)
    BY <1>2, <2>1 DEF SignFor, Promise!BSign, ReportedNow
  <2> QED
    BY <2>2 DEF Promise!BNext
<1>3. ASSUME NEW w \in Workers, Send(w), posted' # posted
      PROVE  Promise!BNext
  <2>1. PICK m \in Messages : m = task[w].m
    BY <1>3, TaskShape DEF Send, At, IsIdle
  <2>2. /\ m \in everSigned /\ posted[m] = 0 /\ Holds(m)
    BY <1>3, <2>1
    DEF Send, At, PromiseInv, GatewayInv, Duties, MaySend, Cleared, Owned,
        Owns
  <2>3. ASSUME NEW n \in Messages, Rivals(n, m)
        PROVE  posted[n] = 0
    <3>1. CASE posted[n] # 0
      <4>1. Holds(n) /\ IdOf[n] \in Ids /\ IdOf[m] \in Ids
        BY <3>1, GatewayAssumption
        DEF GatewayAssumption, PromiseInv, GatewayInv, SentOnce
      <4>2. n = m
        BY <2>2, <2>3, <4>1 DEF PromiseInv, GatewayInv, RowsApart, Holds
      <4> QED
        BY <2>2, <4>2
    <3> QED
      BY <3>1
  <2>4. ReportedNow' = ReportedNow
    BY <1>3 DEF Send, rows, ReportedNow, Exists
  <2>5. /\ posted' = [posted EXCEPT ![m] = 1]
        /\ UNCHANGED everSigned
    BY <1>3, <2>1, <2>2 DEF Send, founder
  <2>6. Promise!Cross(m)
    BY <2>2, <2>3, <2>4, <2>5 DEF Promise!Cross, ReportedNow
  <2> QED
    BY <2>6 DEF Promise!BNext
<1> QED
  BY <1>1, <1>2, <1>3
  DEF Next, Step, Submit, Insert, WriteOutbox, Check, LogTransition,
      UpdateState, Route, Send, Receive, StoreResponse, Environment, Withdraw,
      Crash, vars, rows, founder

(***************************************************************************)
(* The gateway implements BoundaryPromise: a message crosses at most once, *)
(* never beside a rival, only when it was signed, and is only reported as  *)
(* answered when it crossed (submit).                                      *)
(***************************************************************************)
THEOREM BoundaryKept == Spec => KeepsPromise
<1>1. Init => TypeOK /\ PromiseInv
  <2>1. Init => Unreported
    BY DEF Init, Unreported, Owns, Idle
  <2> QED
    BY <2>1, InitType, InitInv DEF PromiseInv
<1>2. TypeOK /\ PromiseInv /\ [Next]_vars => TypeOK' /\ PromiseInv'
  BY StepType, StepInv, StepUnreported DEF PromiseInv, GatewayInv
<1> QED
  BY <1>1, <1>2, InitPromise, StepPromise, PTL
  DEF Spec, KeepsPromise, Promise!BSpec

(***************************************************************************)
(* The events of a request are one chain, and what crossed left its        *)
(* evidence first.                                                         *)
(***************************************************************************)

\* The events of an id are a sequence of transitions.
LEMMA EventsSeq ==
  ASSUME TypeOK, NEW i \in Ids
  PROVE  /\ events[i] \in Seq(Transition)
         /\ Len(events[i]) \in Nat
         /\ DOMAIN events[i] = 1 .. Len(events[i])
<1>1. events[i] \in Seq(Transition)
  BY DEF TypeOK
<1> QED
  BY <1>1, LenProperties

\* The places along the way differ.
LEMMA WayApart ==
  ASSUME NEW n \in Nat
  PROVE  /\ Way(n) = "CREATED" <=> n = 0
         /\ Way(n) = "IDENTITY_VERIFIED" <=> n = 1
         /\ Way(n) = "ROUTE_AUTHORIZED" <=> n = 2
         /\ Way(n) = "SUBMITTED_TO_PORT_ZERO" <=> n = 3
         /\ n > 3 => Way(n) = "settled"
  BY DEF Way

\* Two handlers with a row have different ones.
LEMMA RowsDiffer ==
  ASSUME TypeOK, GatewayInv, NEW v \in Workers, NEW w \in Workers, v # w,
         Owns(v), Owns(w)
  PROVE  IdAt(v) # IdAt(w)
<1>1. Holds(task[v].m) /\ Holds(task[w].m) /\ task[v].m # task[w].m
  BY DEF GatewayInv, Owned
<1> QED
  BY <1>1 DEF Holds, IdAt

\* A handler whose row and place stay leads to it as before.
LEMMA LeadsKept ==
  ASSUME TypeOK, NEW v \in Workers, Leads(v), task'[v] = task[v],
         outbox \subseteq outbox',
         Owns(v) => /\ events'[IdAt(v)] = events[IdAt(v)]
                    /\ requests'[IdAt(v)] = requests[IdAt(v)]
  PROVE  Leads(v)'
<1>1. CASE Owns(v)
  BY <1>1 DEF Leads, Behind, Crossed, Owns, Cleared, Moving, IdAt
<1>2. CASE ~Owns(v)
  BY <1>2 DEF Leads, Owns, Cleared, Moving
<1> QED
  BY <1>1, <1>2

\* A handler that has no row leads nowhere.
LEMMA LeadsRest ==
  ASSUME NEW v \in Workers, task'[v].pc \in {"idle", "insert"}
  PROVE  Leads(v)'
  BY DEF Leads, Owns, Cleared, Moving

\* What a step of one handler has to keep of its own row.
LEMMA TrailStep ==
  ASSUME TypeOK, TrailInv, NEW w \in Workers, NEW i \in Ids, i = IdAt(w),
         \A v \in Workers : v # w => task'[v] = task[v],
         \A j \in Ids : j # i => /\ requests'[j] = requests[j]
                                 /\ events'[j] = events[j],
         \A v \in Workers : v # w /\ Owns(v) => IdAt(v) # i,
         outbox \subseteq outbox', everSigned \subseteq everSigned',
         Leads(w)',
         ~Exists(i)' => events'[i] = <<>>,
         Exists(i)' => OnWay(i)' /\ StateFollows(i)',
         Crossed(i) => Crossed(i)',
         \A m \in Messages : posted'[m] # posted[m] =>
            IdOf[m] = i /\ Crossed(i)' /\ i \in outbox /\ m \notin External
               /\ m \in everSigned
  PROVE  Trail'
<1>1. \A j \in Ids : ~Exists(j)' => events'[j] = <<>>
  BY DEF TrailInv, Trail, Exists
<1>2. \A j \in Ids : Exists(j)' => OnWay(j)' /\ StateFollows(j)'
  <2> SUFFICES ASSUME NEW j \in Ids, Exists(j)'
               PROVE  OnWay(j)' /\ StateFollows(j)'
    OBVIOUS
  <2>1. CASE j = i
    BY <2>1 DEF Exists, OnWay, StateFollows
  <2>2. CASE j # i
    <3>1. requests'[j] = requests[j] /\ events'[j] = events[j]
      BY <2>2
    <3>2. OnWay(j) /\ StateFollows(j)
      BY <3>1 DEF TrailInv, Trail, Exists
    <3> QED
      BY <3>1, <3>2 DEF OnWay, StateFollows
  <2> QED
    BY <2>1, <2>2
<1>3. \A v \in Workers : Leads(v)'
  <2> SUFFICES ASSUME NEW v \in Workers, v # w PROVE Leads(v)'
    OBVIOUS
  <2>1. Owns(v) => IdAt(v) \in Ids
    BY TaskShape DEF Owns, IsIdle, At
  <2> QED
    BY <2>1, LeadsKept DEF TrailInv, Trail
<1>4. ASSUME NEW m \in Messages, posted'[m] # 0
      PROVE  /\ Crossed(IdOf[m])' /\ IdOf[m] \in outbox' /\ m \notin External
             /\ m \in everSigned'
  <2>1. IdOf[m] \in Ids
    BY GatewayAssumption DEF GatewayAssumption
  <2>2. CASE posted'[m] # posted[m]
    BY <2>2
  <2>3. CASE posted'[m] = posted[m]
    <3>1. /\ Crossed(IdOf[m]) /\ IdOf[m] \in outbox /\ m \notin External
          /\ m \in everSigned
      BY <1>4, <2>3 DEF TrailInv, Trail
    <3>2. Crossed(IdOf[m])'
      BY <2>1, <3>1 DEF Crossed
    <3> QED
      BY <3>1, <3>2
  <2> QED
    BY <2>2, <2>3
<1> QED
  BY <1>1, <1>2, <1>3, <1>4 DEF Trail

\* The steps that change no row: they only move their own handler.
LEMMA TrailQuiet ==
  ASSUME TypeOK, TrailInv, UNCHANGED <<requests, events, outbox, posted>>,
         everSigned \subseteq everSigned',
         \A v \in Workers : task'[v] = task[v] \/ Leads(v)'
  PROVE  Trail'
<1>1. \A v \in Workers : Leads(v)'
  BY LeadsKept DEF TrailInv, Trail
<1>2. \A i \in Ids : Exists(i)' =>  OnWay(i)' /\ StateFollows(i)'
  BY DEF TrailInv, Trail, Exists, OnWay, StateFollows
<1>3. \A i \in Ids : Crossed(i) => Crossed(i)'
  BY DEF Crossed
<1>4. \A m \in Messages : IdOf[m] \in Ids
  BY GatewayAssumption DEF GatewayAssumption
<1> QED
  BY <1>1, <1>2, <1>3, <1>4 DEF TrailInv, Trail, Exists, Crossed

LEMMA OutsideTrail ==
  ASSUME TypeOK, TrailInv,
         \/ \E w \in Workers, m \in Messages : Submit(w, m)
         \/ \E m \in Messages : Environment(m)
         \/ Crash \/ UNCHANGED vars
  PROVE  Trail'
<1>1. /\ UNCHANGED <<requests, events, outbox, posted>>
      /\ everSigned \subseteq everSigned'
  BY DEF Submit, Environment, SignFor, Withdraw, Crash, vars, rows, founder
<1>2. ASSUME NEW v \in Workers
      PROVE  task'[v] = task[v] \/ task'[v].pc \in {"idle", "insert"}
  BY DEF Submit, Environment, SignFor, Withdraw, Crash, Abandon, vars,
         TypeOK, Idle, Finish
<1> QED
  BY <1>1, <1>2, LeadsRest, TrailQuiet

\* The decisions: where a handler goes next is along the way, or off it.
LEMMA DecideTrail ==
  ASSUME TypeOK, TrailInv, NEW w \in Workers,
         Check(w) \/ Route(w) \/ Receive(w)
  PROVE  Trail'
<1>1. /\ UNCHANGED <<requests, events, outbox, posted, everSigned>>
      /\ \A v \in Workers : v # w => task'[v] = task[v]
  BY DEF Check, Route, Receive, Move, Abandon, Finish, rows, founder, TypeOK
<1>2. Leads(w) /\ Owns(w) /\ task[w].pc # "outbox" /\ w \in DOMAIN task
  BY DEF TrailInv, Trail, Check, Route, Receive, At, Owns, TypeOK
<1>3. Leads(w)'
  <2>1. ASSUME NEW prior, NEW new, Move(w, prior, new),
               LET n == Len(events[IdAt(w)]) IN
                  /\ n < 4 /\ prior = Way(n)
                  /\ n > 0 => events[IdAt(w)][n].new = Way(n)
                  /\ new \in Onward => new = Way(n + 1),
               Behind(IdAt(w)), new \in Onward => task[w].m \notin External
        PROVE  Leads(w)'
    <3>1. task'[w] = [pc |-> "log", m |-> task[w].m, prior |-> prior,
                      new |-> new]
      BY <1>2, <2>1 DEF Move
    <3>2. task'[w].pc = "log" /\ task'[w].m = task[w].m
          /\ task'[w].prior = prior /\ task'[w].new = new
      BY <3>1
    <3>3. IdAt(w)' = IdAt(w)
      BY <3>2 DEF IdAt
    <3> QED
      BY <1>1, <1>2, <2>1, <3>2, <3>3
      DEF Leads, Behind, Crossed, Owns, Cleared, Moving
  <2>2. CASE Check(w)
    <3>1. Finish(w) \/ \E new \in {"IDENTITY_VERIFIED", "BLOCKED"} :
             /\ Move(w, "CREATED", new)
             /\ new = "IDENTITY_VERIFIED" => task[w].m \notin External
      BY <2>2 DEF Check, Abandon
    <3>2. Len(events[IdAt(w)]) = 0 /\ Behind(IdAt(w))
      BY <1>2, <2>2 DEF Check, At, Leads
    <3>3. Finish(w) => Leads(w)'
      BY <1>2, LeadsRest DEF Finish, Idle
    <3> QED
      BY <2>1, <3>1, <3>2, <3>3 DEF Onward, Way
  <2>3. CASE Route(w)
    <3>1. PICK new \in {"BLOCKED", "FAILED", "ROUTE_AUTHORIZED"} :
             Move(w, "IDENTITY_VERIFIED", new)
      BY <2>3 DEF Route
    <3>2. /\ Len(events[IdAt(w)]) = 1 /\ Behind(IdAt(w))
          /\ events[IdAt(w)][1].new = Way(1)
          /\ task[w].m \notin External
      BY <1>2, <2>3 DEF Route, At, Leads, Cleared
    <3> QED
      BY <2>1, <3>1, <3>2 DEF Onward, Way
  <2>4. CASE Receive(w)
    <3>1. Finish(w) \/ \E new \in {"PORT_REPORTED", "FAILED"} :
                          Move(w, "SUBMITTED_TO_PORT_ZERO", new)
      BY <2>4 DEF Receive, Abandon
    <3>2. /\ Len(events[IdAt(w)]) = 3 /\ Behind(IdAt(w))
          /\ events[IdAt(w)][3].new = Way(3)
      BY <1>2, <2>4 DEF Receive, At, Leads, Crossed
    <3>3. Finish(w) => Leads(w)'
      BY <1>2, LeadsRest DEF Finish, Idle
    <3> QED
      BY <2>1, <3>1, <3>2, <3>3 DEF Onward, Way
  <2> QED
    BY <2>2, <2>3, <2>4
<1> QED
  BY <1>1, <1>3, TrailQuiet

\* The INSERT that succeeds finds no events under its id.
LEMMA InsertTrail ==
  ASSUME TypeOK, TrailInv, NEW w \in Workers, Insert(w)
  PROVE  Trail'
<1>1. task[w].m \in Messages /\ IdAt(w) \in Ids /\ ~Owns(w)
  BY TaskShape DEF Insert, At, IsIdle, Owns
<1>2. /\ UNCHANGED <<events, outbox, posted, everSigned>>
      /\ \A v \in Workers : v # w => task'[v] = task[v]
  BY DEF Insert, Finish, Goto, TypeOK, founder
<1>3. CASE Taken(task[w].m)
  <2>1. requests' = requests /\ task'[w] = Idle
    BY <1>3 DEF Insert, Finish, TypeOK
  <2> QED
    BY <1>2, <2>1, LeadsRest, TrailQuiet DEF Idle
<1>4. CASE ~Taken(task[w].m)
  <2> PICK i \in Ids : i = IdAt(w)
    BY <1>1
  <2>1. ~Exists(i)
    BY <1>1, <1>4 DEF Taken, Rivals, TrailInv, GatewayInv, RowsApart, IdAt
  <2>2. events'[i] = <<>> /\ Len(events'[i]) = 0
    BY <1>2, <2>1 DEF TrailInv, Trail
  <2>3. /\ requests' = [requests EXCEPT ![i] =
                          [message |-> task[w].m, state |-> "CREATED",
                           response |-> FALSE]]
        /\ task'[w] = [pc |-> "outbox", m |-> task[w].m]
    BY <1>4 DEF Insert, Goto, TypeOK
  <2>4. /\ requests'[i].state = "CREATED"
        /\ \A j \in Ids : j # i => requests'[j] = requests[j]
    BY <2>3 DEF TypeOK
  <2>5. \A v \in Workers : v # w /\ Owns(v) => IdAt(v) # i
    BY <2>1 DEF TrailInv, GatewayInv, Owned, Holds, IdAt
  <2>6. Leads(w)'
    <3>1. IdAt(w)' = i /\ task'[w].pc = "outbox"
      BY <2>3 DEF IdAt
    <3> QED
      BY <2>2, <2>4, <3>1 DEF Leads, Behind, Owns, Cleared, Moving, Way
  <2>7. OnWay(i)' /\ StateFollows(i)' /\ ~Crossed(i)
    BY <1>2, <2>2, <2>4 DEF OnWay, StateFollows, Crossed
  <2> QED
    BY <1>2, <2>2, <2>4, <2>5, <2>6, <2>7, TrailStep
<1> QED
  BY <1>3, <1>4

LEMMA OutboxTrail ==
  ASSUME TypeOK, TrailInv, NEW w \in Workers,
         WriteOutbox(w) \/ Send(w) \/ StoreResponse(w)
  PROVE  Trail'
<1> PICK i \in Ids : i = IdAt(w)
  BY TaskShape DEF WriteOutbox, Send, StoreResponse, At, IsIdle
<1>1. /\ Owns(w) /\ Leads(w) /\ Exists(i) /\ OnWay(i) /\ StateFollows(i)
      /\ task[w].m \in Messages /\ IdOf[task[w].m] = i
  BY TaskShape
  DEF WriteOutbox, Send, StoreResponse, Owns, IsIdle, At, TrailInv, Trail,
      GatewayInv, Owned, Holds, IdAt
<1>2. /\ UNCHANGED <<events, everSigned>> /\ outbox \subseteq outbox'
      /\ \A v \in Workers : v # w => task'[v] = task[v]
      /\ \A j \in Ids : j # i => requests'[j] = requests[j]
      /\ requests'[i].state = requests[i].state
  <2>1. requests[i] \in Request
    BY <1>1 DEF TypeOK, Exists
  <2> QED
    BY <2>1
    DEF WriteOutbox, Send, StoreResponse, Goto, Abandon, Finish, rows,
        founder, TypeOK, Request
<1>3. \A v \in Workers : v # w /\ Owns(v) => IdAt(v) # i
  BY <1>1, RowsDiffer DEF TrailInv
<1>4. Leads(w)'
  <2>1. CASE WriteOutbox(w)
    <3>1. /\ task'[w].pc = "check" /\ task'[w].m = task[w].m
          /\ i \in outbox' /\ task[w].pc = "outbox" /\ IdAt(w)' = i
      BY <2>1 DEF WriteOutbox, Goto, At, IdAt, TypeOK
    <3> QED
      BY <1>1, <1>2, <3>1 DEF Leads, Behind, Owns, Cleared, Moving
  <2>2. CASE Send(w) /\ Goto(w, "await")
    <3>1. /\ task'[w].pc = "await" /\ task'[w].m = task[w].m
          /\ task[w].pc = "send" /\ IdAt(w)' = i
      BY <2>2 DEF Send, Goto, At, IdAt, TypeOK
    <3> QED
      BY <1>1, <1>2, <3>1 DEF Leads, Behind, Crossed, Owns, Cleared, Moving
  <2>3. CASE StoreResponse(w)
    BY <2>3, LeadsRest DEF StoreResponse, Finish, Idle, TypeOK
  <2>4. CASE Abandon(w)
    BY <2>4, LeadsRest DEF Abandon, Finish, Idle, TypeOK
  <2> QED
    BY <2>1, <2>2, <2>3, <2>4 DEF Send
<1>5. OnWay(i)' /\ StateFollows(i)' /\ (Crossed(i) => Crossed(i)')
  BY <1>1, <1>2 DEF OnWay, StateFollows, Crossed
<1>6. ASSUME NEW m \in Messages, posted'[m] # posted[m]
      PROVE  /\ IdOf[m] = i /\ Crossed(i)' /\ i \in outbox
             /\ m \notin External /\ m \in everSigned
  <2>1. m = task[w].m /\ task[w].pc = "send"
    BY <1>6 DEF WriteOutbox, Send, StoreResponse, At, TypeOK
  <2>2. Cleared(w) /\ task[w].m \in everSigned
    BY <2>1 DEF Cleared, TrailInv, GatewayInv, Duties
  <2> QED
    BY <1>1, <1>5, <2>1, <2>2 DEF Leads
<1>7. Exists(i)'
  BY <1>1 DEF WriteOutbox, Send, StoreResponse, rows, Exists, TypeOK, Absent,
              Request
<1> QED
  BY <1>2, <1>3, <1>4, <1>5, <1>6, <1>7, TrailStep

\* A transition is logged where the events have got to.
LEMMA LogTrail ==
  ASSUME TypeOK, TrailInv, NEW w \in Workers, LogTransition(w)
  PROVE  Trail'
<1> PICK i \in Ids : i = IdAt(w)
  BY TaskShape DEF LogTransition, At, IsIdle
<1> DEFINE n == Len(events[i])
           t == [prior |-> task[w].prior, new |-> task[w].new]
<1>1. /\ Owns(w) /\ Leads(w) /\ Exists(i) /\ OnWay(i)
      /\ task[w].pc = "log" /\ task[w] \in MoveTask
  BY TaskShape
  DEF LogTransition, Owns, At, TrailInv, Trail, GatewayInv, Owned, Holds, IdAt
<1>2. /\ n < 4 /\ (n > 0 => events[i][n].new = Way(n)) /\ Behind(i)
      /\ t.prior = Way(n)
      /\ t.new \in Onward => t.new = Way(n + 1)
      /\ i \in outbox /\ (Cleared(w) => task[w].m \notin External)
  BY <1>1 DEF Leads
<1>3. /\ UNCHANGED <<requests, outbox, posted, everSigned>>
      /\ events' = [events EXCEPT ![i] = Append(events[i], t)]
      /\ task' = [task EXCEPT ![w].pc = "update"]
  BY DEF LogTransition, founder
<1>4. /\ n \in Nat /\ Len(events'[i]) = n + 1
      /\ \A k \in 1 .. n : events'[i][k] = events[i][k]
      /\ events'[i][n + 1] = t
  <2>1. events[i] \in Seq(Transition) /\ n \in Nat
    BY EventsSeq
  <2>2. t \in Transition
    BY <1>1 DEF MoveTask, Transition
  <2>3. events'[i] = Append(events[i], t)
    BY <1>3 DEF TypeOK
  <2> HIDE DEF t
  <2> QED
    BY <2>1, <2>2, <2>3, AppendProperties
<1>5. /\ \A v \in Workers : v # w => task'[v] = task[v]
      /\ \A j \in Ids : j # i => events'[j] = events[j]
      /\ task'[w].pc = "update" /\ task'[w].m = task[w].m
      /\ task'[w].new = task[w].new
  BY <1>1, <1>3 DEF TypeOK, MoveTask
<1> HIDE DEF n
<1>6. OnWay(i)'
  <2> SUFFICES ASSUME NEW k \in 1 .. n + 1
               PROVE  /\ k <= 4
                      /\ events'[i][k].prior = Way(k - 1)
                      /\ k < n + 1 => events'[i][k].new = Way(k)
    BY <1>4 DEF OnWay
  <2>1. CASE k = n + 1
    BY <1>2, <1>4, <2>1
  <2>2. CASE k \in 1 .. n
    <3>1. /\ k <= 4
          /\ events[i][k].prior = Way(k - 1)
          /\ k < n => events[i][k].new = Way(k)
      BY <1>1, <2>2 DEF OnWay, n
    <3>2. k = n => events[i][k].new = Way(k)
      BY <1>2, <2>2
    <3>3. events'[i][k] = events[i][k]
      BY <1>4, <2>2
    <3>4. k < n \/ k = n
      BY <1>4, <2>2
    <3> QED
      BY <3>1, <3>2, <3>3, <3>4
  <2> QED
    BY <1>4, <2>1, <2>2
<1>7. StateFollows(i)'
  BY <1>2, <1>3, <1>4 DEF StateFollows, Behind, n
<1>8. Crossed(i) => Crossed(i)'
  BY <1>4 DEF Crossed, n
<1>9. Leads(w)'
  <2>1. IdAt(w)' = i /\ (Cleared(w)' => Cleared(w))
    BY <1>1, <1>5 DEF IdAt, Cleared, Moving
  <2> QED
    BY <1>1, <1>2, <1>3, <1>4, <1>5, <2>1 DEF Leads, Owns
<1>10. \A v \in Workers : v # w /\ Owns(v) => IdAt(v) # i
  BY <1>1, RowsDiffer DEF TrailInv
<1>11. Exists(i)'
  BY <1>1, <1>3 DEF Exists
<1> QED
  BY <1>3, <1>5, <1>6, <1>7, <1>8, <1>9, <1>10, <1>11, TrailStep

\* The UPDATE brings the row to where the events are, and its handler there.
LEMMA UpdateTrail ==
  ASSUME TypeOK, TrailInv, NEW w \in Workers, UpdateState(w)
  PROVE  Trail'
<1> PICK i \in Ids : i = IdAt(w)
  BY TaskShape DEF UpdateState, At, IsIdle
<1> DEFINE n == Len(events[i])
<1>1. /\ Owns(w) /\ Leads(w) /\ Exists(i) /\ OnWay(i)
      /\ task[w].pc = "update" /\ task[w] \in MoveTask
  BY TaskShape
  DEF UpdateState, Owns, At, TrailInv, Trail, GatewayInv, Owned, Holds, IdAt
<1>2. /\ n \in Nat /\ n > 0 /\ n <= 4 /\ events[i][n].new = task[w].new
      /\ task[w].new \in Onward => task[w].new = Way(n) /\ task[w].m \notin External
      /\ i \in outbox
  <2>1. n \in Nat
    BY EventsSeq
  <2>2. /\ n > 0 /\ events[i][n].new = task[w].new
        /\ task[w].new \in Onward => task[w].new = Way(n)
        /\ i \in outbox /\ (Cleared(w) => task[w].m \notin External)
    BY <1>1 DEF Leads
  <2>3. n <= 4
    BY <1>1, <2>1, <2>2 DEF OnWay
  <2> QED
    BY <1>1, <2>1, <2>2, <2>3 DEF Cleared, Moving
<1>3. /\ UNCHANGED <<events, outbox, posted, everSigned>>
      /\ requests' = [requests EXCEPT ![i].state = task[w].new]
      /\ requests[i] \in Request
  BY <1>1 DEF UpdateState, founder, TypeOK, Exists
<1>4. /\ requests'[i].state = task[w].new /\ requests'[i] # Absent
      /\ \A j \in Ids : j # i => requests'[j] = requests[j]
  BY <1>3 DEF TypeOK, Request, Absent
<1>5. \A v \in Workers : v # w => task'[v] = task[v]
  BY DEF UpdateState, After, Goto, Move, Finish, TypeOK
<1>6. OnWay(i)' /\ StateFollows(i)' /\ (Crossed(i) => Crossed(i)')
  BY <1>1, <1>2, <1>3, <1>4 DEF OnWay, StateFollows, Crossed
<1>7. Leads(w)'
  <2> HIDE DEF n
  <2>1. CASE task[w].new = "IDENTITY_VERIFIED"
    <3>1. task'[w] = [pc |-> "route", m |-> task[w].m] /\ IdAt(w)' = i
      BY <2>1 DEF UpdateState, After, Goto, TypeOK, IdAt
    <3>2. n = 1 /\ events[i][1].new = Way(1)
      BY <1>2, <2>1, WayApart DEF Onward
    <3> QED
      BY <1>2, <1>3, <1>4, <2>1, <3>1, <3>2
      DEF Leads, Behind, Owns, Cleared, Moving, Onward, n
  <2>2. CASE task[w].new = "ROUTE_AUTHORIZED"
    <3>1. /\ task'[w] = [pc |-> "log", m |-> task[w].m,
                         prior |-> "ROUTE_AUTHORIZED",
                         new |-> "SUBMITTED_TO_PORT_ZERO"]
          /\ IdAt(w)' = i
      BY <2>2 DEF UpdateState, After, Move, TypeOK, IdAt
    <3>2. n = 2 /\ events[i][2].new = Way(2)
      BY <1>2, <2>2, WayApart DEF Onward
    <3>3. Way(2) = "ROUTE_AUTHORIZED" /\ Way(3) = "SUBMITTED_TO_PORT_ZERO"
      BY DEF Way
    <3> QED
      BY <1>2, <1>3, <1>4, <2>2, <3>1, <3>2, <3>3
      DEF Leads, Behind, Owns, Cleared, Moving, Onward, n
  <2>3. CASE task[w].new = "SUBMITTED_TO_PORT_ZERO"
    <3>1. task'[w] = [pc |-> "send", m |-> task[w].m] /\ IdAt(w)' = i
      BY <2>3 DEF UpdateState, After, Goto, TypeOK, IdAt
    <3>2. n = 3 /\ events[i][3].new = Way(3)
      BY <1>2, <2>3, WayApart DEF Onward
    <3> QED
      BY <1>2, <1>3, <1>4, <2>3, <3>1, <3>2
      DEF Leads, Behind, Crossed, Owns, Cleared, Moving, Onward, n
  <2>4. CASE task[w].new \notin Onward
    <3>1. task'[w] = [pc |-> "respond", m |-> task[w].m] \/ task'[w] = Idle
      BY <2>4 DEF UpdateState, After, Goto, Finish, Onward, TypeOK
    <3>2. CASE task'[w] = Idle
      BY <3>2, LeadsRest DEF Idle
    <3>3. CASE task'[w] = [pc |-> "respond", m |-> task[w].m]
      BY <1>2, <1>3, <3>3 DEF Leads, Owns, Cleared, Moving, IdAt
    <3> QED
      BY <3>1, <3>2, <3>3
  <2> QED
    BY <2>1, <2>2, <2>3, <2>4 DEF Onward
<1>8. \A v \in Workers : v # w /\ Owns(v) => IdAt(v) # i
  BY <1>1, RowsDiffer DEF TrailInv
<1>9. Exists(i)'
  BY <1>4 DEF Exists
<1> QED
  BY <1>3, <1>4, <1>5, <1>6, <1>7, <1>8, <1>9, TrailStep

LEMMA TrailHolds == Spec => [](TypeOK /\ TrailInv)
<1>1. Init => TypeOK /\ TrailInv
  <2>1. Init => Trail
    BY GatewayAssumption
    DEF GatewayAssumption, Init, Trail, Exists, Leads, Owns, Cleared, Moving,
        Idle
  <2> QED
    BY <2>1, InitType, InitInv DEF TrailInv
<1>2. TypeOK /\ TrailInv /\ [Next]_vars => (TypeOK /\ TrailInv)'
  <2> SUFFICES ASSUME TypeOK, TrailInv, [Next]_vars
               PROVE  (TypeOK /\ TrailInv)'
    OBVIOUS
  <2>1. TypeOK' /\ GatewayInv'
    BY StepType, StepInv DEF TrailInv, GatewayInv
  <2>2. Trail'
    BY OutsideTrail, InsertTrail, OutboxTrail, DecideTrail, LogTrail,
       UpdateTrail DEF Next, Step
  <2> QED
    BY <2>1, <2>2 DEF TrailInv
<1> QED
  BY <1>1, <1>2, PTL DEF Spec

(***************************************************************************)
(* The events of a request are one chain that its row follows, whatever    *)
(* handlers overlap or stop (_transition).                                 *)
(***************************************************************************)
THEOREM EventsAreChained == Spec => []AuditChain
<1>1. TypeOK /\ TrailInv => AuditChain
  <2> SUFFICES ASSUME TypeOK, TrailInv, NEW i \in Ids, Exists(i)
               PROVE  Chained(i) /\ StateFollows(i)
    BY DEF AuditChain
  <2>1. OnWay(i) /\ StateFollows(i)
    BY DEF TrailInv, Trail
  <2>2. Chained(i)
    <3> SUFFICES ASSUME NEW k \in DOMAIN events[i]
                 PROVE  events[i][k].prior =
                          IF k = 1 THEN "CREATED" ELSE events[i][k - 1].new
      BY DEF Chained
    <3>1. k \in 1 .. Len(events[i]) /\ Len(events[i]) \in Nat
      BY EventsSeq
    <3>2. events[i][k].prior = Way(k - 1)
      BY <2>1, <3>1 DEF OnWay
    <3>3. CASE k = 1
      BY <3>2, <3>3 DEF Way
    <3>4. CASE k # 1
      <4>1. k - 1 \in 1 .. Len(events[i]) /\ k - 1 < Len(events[i])
        BY <3>1, <3>4
      <4>2. events[i][k - 1].new = Way(k - 1)
        BY <2>1, <4>1 DEF OnWay
      <4> QED
        BY <3>2, <3>4, <4>2
    <3> QED
      BY <3>3, <3>4
  <2> QED
    BY <2>1, <2>2
<1> QED
  BY <1>1, TrailHolds, PTL

(***************************************************************************)
(* What reached Port Zero left its row, its outbox row and the events of   *)
(* its verification, its route and its submission first (submit).          *)
(***************************************************************************)
THEOREM EvidenceComesFirst == Spec => []EvidenceFirst
<1>1. TypeOK /\ TrailInv => EvidenceFirst
  <2> SUFFICES ASSUME TypeOK, TrailInv, NEW m \in Messages, posted[m] > 0,
                      NEW i \in Ids, i = IdOf[m]
               PROVE  /\ Exists(i) /\ requests[i].message = m
                      /\ i \in outbox
                      /\ Len(events[i]) >= 3
                      /\ SubSeq(Reached(i), 1, 3) = Approach
                      /\ m \in everSigned \ External
    BY GatewayAssumption DEF GatewayAssumption, EvidenceFirst
  <2>1. posted[m] # 0
    BY DEF TypeOK
  <2>2. Exists(i) /\ requests[i].message = m
    BY <2>1 DEF TrailInv, GatewayInv, SentOnce, Holds
  <2>3. Crossed(i) /\ OnWay(i) /\ i \in outbox /\ m \in everSigned \ External
    BY <2>1, <2>2 DEF TrailInv, Trail
  <2>4. /\ Len(events[i]) \in Nat /\ Len(events[i]) >= 3
        /\ DOMAIN events[i] = 1 .. Len(events[i])
    BY <2>3, EventsSeq DEF Crossed
  <2>5. \A k \in 1 .. 3 : k \in DOMAIN events[i] /\ Reached(i)[k] = Way(k)
    <3> SUFFICES ASSUME NEW k \in 1 .. 3
                 PROVE  k \in DOMAIN events[i] /\ Reached(i)[k] = Way(k)
      OBVIOUS
    <3>1. k \in 1 .. Len(events[i])
      BY <2>4
    <3>2. k \in DOMAIN events[i] /\ Reached(i)[k] = events[i][k].new
      BY <3>1, <2>4 DEF Reached
    <3>3. CASE k = 3
      BY <3>2, <3>3, <2>3 DEF Crossed
    <3>4. CASE k # 3
      <4>1. k < Len(events[i])
        BY <3>4, <2>4
      <4>2. events[i][k].new = Way(k)
        BY <4>1, <3>1, <2>3 DEF OnWay
      <4> QED
        BY <3>2, <4>2
    <3> QED
      BY <3>3, <3>4
  <2>6. SubSeq(Reached(i), 1, 3) = Approach
    <3>1. \A k \in 1 .. 3 : Reached(i)[k] \in {Way(1), Way(2), Way(3)}
      BY <2>5
    <3>2. /\ SubSeq(Reached(i), 1, 3) \in Seq({Way(1), Way(2), Way(3)})
          /\ Len(SubSeq(Reached(i), 1, 3)) = 3
          /\ \A k \in 1 .. 3 : SubSeq(Reached(i), 1, 3)[k] = Reached(i)[k]
      BY <3>1, SubSeqProperties
    <3>3. /\ Approach \in Seq({Way(1), Way(2), Way(3)}) /\ Len(Approach) = 3
          /\ \A k \in 1 .. 3 : Approach[k] = Way(k)
      BY DEF Approach, Way
    <3> QED
      BY <2>5, <3>2, <3>3, SeqEqual
  <2> QED
    BY <2>2, <2>3, <2>4, <2>6
<1> QED
  BY <1>1, TrailHolds, PTL
=============================================================================
