--------------------------- MODULE CognitiveCycle ---------------------------
(***************************************************************************)
(* RuntimeService.chat and the requests that rewrite the cognitive state.  *)
(* A chat records the user's message, perceives it, lets an instrument     *)
(* answer, reflects, proposes learning, stores the evidence, commits a     *)
(* revision of the state and records the answer.                           *)
(*                                                                         *)
(* Every StateStore call is a transaction of its own and the requests run  *)
(* on several threads.  There is one cognitive state: a chat, a belief     *)
(* that contradicts another, the activation or rollback of a strategy and  *)
(* the restoration of a checkpoint each write back the whole of it, from   *)
(* a copy that they read in a transaction before.  What they write besides *)
(* about strategies and proposals is in LearningGovernance.                *)
(***************************************************************************)
EXTENDS Naturals, FiniteSets

CONSTANTS
    Workers,      \* threads that run handlers
    Cycles,       \* chat requests; also the ids of their experiences
    Beliefs,      \* requests to add a belief; also the ids of the beliefs
    Changes,      \* activations and rollbacks of learned strategies
    Checkpoints,  \* requests for a checkpoint; also their ids
    Restorations, \* requests to go back to a checkpoint
    None,         \* the request of a thread that has none
    ClaimOf,      \* what each belief is about (subject, predicate), the object
    MayCrash,     \* may the process of a handler stop between two statements?
    MayRaise      \* may a statement raise: a lock, the benchmark seal, a key?

Parts == Cycles \cup Beliefs
Requests == Parts \cup Changes \cup Checkpoints \cup Restorations

\* Ids have a prefix of their kind.
ASSUME CycleAssumption ==
    /\ Cycles \cap Beliefs = {}
    /\ Parts \cap (Changes \cup Checkpoints \cup Restorations) = {}
    /\ None \notin Requests
    /\ MayCrash \in BOOLEAN /\ MayRaise \in BOOLEAN

VARIABLES
    state,      \* the cognitive state: its revision and what it remembers
    snapshot,   \* the state in the row of each checkpoint, once it is inserted
    stored,     \* what the store holds about the cycle of each chat
    belief,     \* status of the row of each belief
    answered,   \* chats with the message of the assistant
    failures,   \* chats with a model.failed event
    begun,      \* requests that have begun; a chat with the user's message
    conflicts,  \* the beliefs that the query of add_belief found
    saved,      \* the revision that each request gave the state, else 0
    lost,       \* requests that ended without a result or a logged failure
    task        \* what each thread is doing, with the state it has read

records == <<stored, belief, answered, failures>>
vars == <<state, snapshot, records, begun, conflicts, saved, lost, task>>

\* A state remembers the experiences in its episodic_memory, and the beliefs
\* for which there is an entry in its unresolved_contradictions.
State == [revision : Nat, remembers : SUBSET Parts]
FirstState == [revision |-> 1, remembers |-> {}]
NotTaken == [revision |-> 0, remembers |-> {}]
Records == {"experience", "prediction", "telemetry", "degraded", "failure",
            "evaluation", "prediction_error", "proposal", "response",
            "evidence"}
Tried == {"perceive", "simulate", "act", "mark", "reflect", "predict",
          "propose", "respond", "evidence"}
ChatPlaces == Tried \cup {"start", "assistant", "report"}
Places == ChatPlaces \cup {"dispute", "insert", "read", "keep", "save",
                           "revised", "idle"}
Tasks == [pc : Places, on : Requests \cup {None}, seen : State]
Idle == [pc |-> "idle", on |-> None, seen |-> FirstState]

Init == /\ state = FirstState
        /\ snapshot = [k \in Checkpoints |-> NotTaken]
        /\ stored = [c \in Cycles |-> {}]
        /\ belief = [b \in Beliefs |-> "none"]
        /\ answered = {}
        /\ failures = {}
        /\ begun = {}
        /\ conflicts = [b \in Beliefs |-> {}]
        /\ saved = [r \in Requests |-> 0]
        /\ lost = {}
        /\ task = [w \in Workers |-> Idle]

At(w, pc) == task[w].pc = pc
On(w) == task[w].on
Goto(w, pc) == task' = [task EXCEPT ![w] =
                          [pc |-> pc, on |-> @.on, seen |-> FirstState]]
Finish(w) == task' = [task EXCEPT ![w] = Idle]

-----------------------------------------------------------------------------
\* A request comes to a thread that has none.
Begin(w, r, pc, copy) ==
    /\ At(w, "idle")
    /\ r \notin begun
    /\ begun' = begun \cup {r}
    /\ task' = [task EXCEPT ![w] = [pc |-> pc, on |-> r, seen |-> copy]]
    /\ UNCHANGED <<state, snapshot, records, saved, lost>>

\* chat(): the session is read and the user's message recorded; the event of
\* the message comes before the try.
Chat(w, c) == Begin(w, c, "start", FirstState) /\ UNCHANGED conflicts

EnterTry(w) ==
    /\ At(w, "start")
    /\ Goto(w, "perceive")
    /\ UNCHANGED <<state, snapshot, records, begun, conflicts, saved, lost>>

\* route_instrument() finds no instrument for "auto" that qualifies.
RouteFails(w) ==
    /\ At(w, "perceive")
    /\ Goto(w, "report")
    /\ UNCHANGED <<state, snapshot, records, begun, conflicts, saved, lost>>

\* A statement of the cycle stores something about it, in rows of its own.
Store(w, at, what, next) ==
    /\ At(w, at)
    /\ stored' = [stored EXCEPT ![On(w)] = @ \cup {what}]
    /\ Goto(w, next)
    /\ UNCHANGED <<state, snapshot, belief, answered, failures, begun,
                   conflicts, saved, lost>>

Perceive(w) == Store(w, "perceive", "experience", "simulate")

\* A prediction and its counterfactual; recall(), reason(), decide() only read.
Simulate(w) == Store(w, "simulate", "prediction", "act")

\* A slip: the failure of an instrument is not told from an answer.
ActOn(w) == \/ Store(w, "act", "telemetry", "reflect")
            \/ Store(w, "act", "degraded", "reflect")

\* The instrument answers or raises, and act() records its telemetry.
Act(w) == \/ Store(w, "act", "telemetry", "reflect")
          \/ Store(w, "act", "degraded", "mark")

MarkFailed(w) == Store(w, "mark", "failure", "report")

\* reflect(): the evaluation, then the error of the prediction.
Reflect(w) == Store(w, "reflect", "evaluation", "predict")

\* The error is the confidence in the strategy, 0.25 or more, or less.
UpdatePrediction(w) == \/ Store(w, "predict", "prediction_error", "propose")
                       \/ Store(w, "predict", "prediction_error", "respond")

Propose(w) == Store(w, "propose", "proposal", "respond")

\* A slip: the result of the experience is written after the state.
AddEvidenceOnly(w) == Store(w, "respond", "evidence", "read")

StoreResponse(w) == Store(w, "respond", "response", "evidence")

AddEvidence(w) == Store(w, "evidence", "evidence", "read")

-----------------------------------------------------------------------------
(***************************************************************************)
(* add_belief(): one query finds the SUPPORTED beliefs that contradict the *)
(* new one.  If there are any, they are marked, the contradiction goes     *)
(* into the state, and last the new belief is inserted, CONFLICTED too.    *)
(***************************************************************************)
Contradict(b, c) == /\ ClaimOf[b].about = ClaimOf[c].about
                    /\ ClaimOf[b].object # ClaimOf[c].object

AddBelief(w, b) ==
    LET found == {c \in Beliefs : belief[c] = "SUPPORTED" /\ Contradict(b, c)}
    IN  /\ conflicts' = [conflicts EXCEPT ![b] = found]
        /\ \/ found = {} /\ Begin(w, b, "insert", FirstState)
           \/ found # {} /\ Begin(w, b, "dispute", FirstState)

Dispute(w) ==
    /\ At(w, "dispute")
    /\ belief' = [b \in Beliefs |-> IF b \in conflicts[On(w)] THEN "CONFLICTED"
                                    ELSE belief[b]]
    /\ Goto(w, "read")
    /\ UNCHANGED <<state, snapshot, stored, answered, failures, begun,
                   conflicts, saved, lost>>

\* A slip: the belief is marked as the dispute is.
InsertDisputed(w) ==
    /\ At(w, "insert")
    /\ belief' = [belief EXCEPT ![On(w)] =
                    IF conflicts[On(w)] = {} THEN "SUPPORTED" ELSE "DISPUTED"]
    /\ Finish(w)
    /\ UNCHANGED <<state, snapshot, stored, answered, failures, begun,
                   conflicts, saved, lost>>

\* A slip: the beliefs are searched again, and no SUPPORTED one is found.
InsertRechecked(w) ==
    /\ At(w, "insert")
    /\ belief' = [belief EXCEPT ![On(w)] =
                    IF \E c \in conflicts[On(w)] : belief[c] = "SUPPORTED"
                    THEN "CONFLICTED" ELSE "SUPPORTED"]
    /\ Finish(w)
    /\ UNCHANGED <<state, snapshot, stored, answered, failures, begun,
                   conflicts, saved, lost>>

InsertBelief(w) ==
    /\ At(w, "insert")
    /\ belief' = [belief EXCEPT ![On(w)] =
                    IF conflicts[On(w)] = {} THEN "SUPPORTED" ELSE "CONFLICTED"]
    /\ Finish(w)
    /\ UNCHANGED <<state, snapshot, stored, answered, failures, begun,
                   conflicts, saved, lost>>

\* activate_learning and rollback_learning come to their last statements.
Change(w, r) == Begin(w, r, "read", FirstState) /\ UNCHANGED conflicts

-----------------------------------------------------------------------------
\* checkpoint() begins with the state, and inserts what it has read.
Checkpoint(w, k) == Begin(w, k, "read", FirstState) /\ UNCHANGED conflicts

KeepSnapshot(w) ==
    /\ At(w, "keep")
    /\ snapshot' = [snapshot EXCEPT ![On(w)] = task[w].seen]
    /\ Finish(w)
    /\ UNCHANGED <<state, records, begun, conflicts, saved, lost>>

\* rollback(): the copy to write back is the one of a checkpoint.
Restore(w, r) ==
    /\ \E k \in Checkpoints : /\ snapshot[k] # NotTaken
                              /\ Begin(w, r, "save", snapshot[k])
    /\ UNCHANGED conflicts

\* inspect_state()
ReadState(w) ==
    /\ At(w, "read")
    /\ task' = [task EXCEPT ![w] =
                  [pc |-> IF On(w) \in Checkpoints THEN "keep" ELSE "save",
                   on |-> @.on, seen |-> state]]
    /\ UNCHANGED <<state, snapshot, records, begun, conflicts, saved, lost>>

\* A slip: the old content gets the number after that of the present state.
SaveRenumbered(w) ==
    /\ At(w, "save")
    /\ state' = [revision  |-> state.revision + 1,
                 remembers |-> task[w].seen.remembers \cup ({On(w)} \cap Parts)]
    /\ saved' = [saved EXCEPT ![On(w)] = state'.revision]
    /\ Goto(w, "revised")
    /\ UNCHANGED <<snapshot, records, begun, conflicts, lost>>

(***************************************************************************)
(* The UPDATE of _save_state(): the copy, with the next revision number    *)
(* after it, and with the experience of a chat or the contradiction of a   *)
(* belief.                                                                 *)
(***************************************************************************)
Save(w) ==
    /\ At(w, "save")
    /\ state' = [revision  |-> task[w].seen.revision + 1,
                 remembers |-> task[w].seen.remembers \cup ({On(w)} \cap Parts)]
    /\ saved' = [saved EXCEPT ![On(w)] = state'.revision]
    /\ Goto(w, "revised")
    /\ UNCHANGED <<snapshot, records, begun, conflicts, lost>>

\* The event of _save_state(), a transaction of its own.
Revised(w) ==
    /\ At(w, "revised")
    /\ \/ On(w) \in Cycles  /\ Goto(w, "assistant")
       \/ On(w) \in Beliefs /\ Goto(w, "insert")
       \/ On(w) \notin Parts /\ Finish(w)
    /\ UNCHANGED <<state, snapshot, records, begun, conflicts, saved, lost>>

-----------------------------------------------------------------------------
Answer(w) ==
    /\ At(w, "assistant")
    /\ answered' = answered \cup {On(w)}
    /\ Finish(w)
    /\ UNCHANGED <<state, snapshot, stored, belief, failures, begun, conflicts,
                   saved, lost>>

\* A slip: the request ends where the instrument failed.
ReportNothing(w) ==
    /\ At(w, "report")
    /\ Finish(w)
    /\ UNCHANGED <<state, snapshot, records, begun, conflicts, saved, lost>>

\* chat() catches what cognitive_cycle raises, logs model.failed, raises.
ReportFailure(w) ==
    /\ At(w, "report")
    /\ failures' = failures \cup {On(w)}
    /\ Finish(w)
    /\ UNCHANGED <<state, snapshot, stored, belief, answered, begun, conflicts,
                   saved, lost>>

\* In the try of chat(): also the statements on the state, and the event after.
Caught(w) == task[w].pc \in Tried \/ (On(w) \in Cycles /\
                task[w].pc \in {"read", "save", "revised"})

(***************************************************************************)
(* A statement raises and stores nothing: the database is locked, the      *)
(* benchmark seal refuses the write, the instrument is unknown.  What the  *)
(* cycle raises is caught; whatever act() raises is taken for a failure of *)
(* the instrument first.                                                   *)
(***************************************************************************)
RaiseInCycle(w) ==
    /\ MayRaise
    /\ Caught(w)
    /\ Goto(w, "report") \/ (At(w, "act") /\ Goto(w, "mark"))
    /\ UNCHANGED <<state, snapshot, records, begun, conflicts, saved, lost>>

\* Nothing is done about an exception elsewhere, nor about a process that stops.
Stop(w) ==
    /\ ~At(w, "idle")
    /\ MayCrash \/ (MayRaise /\ ~Caught(w))
    /\ lost' = lost \cup {On(w)}
    /\ Finish(w)
    /\ UNCHANGED <<state, snapshot, records, begun, conflicts, saved>>

Request(w) == \/ \E c \in Cycles : Chat(w, c)
              \/ \E b \in Beliefs : AddBelief(w, b)
              \/ \E r \in Changes : Change(w, r)
              \/ \E k \in Checkpoints : Checkpoint(w, k)
              \/ \E r \in Restorations : Restore(w, r)

CycleStep(w) == \/ Perceive(w) \/ Simulate(w) \/ Act(w) \/ MarkFailed(w)
                \/ Reflect(w) \/ UpdatePrediction(w) \/ Propose(w)
                \/ StoreResponse(w) \/ AddEvidence(w)

Step(w) == \/ EnterTry(w)  \/ RouteFails(w)   \/ CycleStep(w) \/ Dispute(w)
           \/ ReadState(w) \/ KeepSnapshot(w) \/ Save(w)      \/ Revised(w)
           \/ Answer(w)    \/ ReportFailure(w) \/ InsertBelief(w)

Next == \E w \in Workers : Request(w) \/ Step(w) \/ RaiseInCycle(w) \/ Stop(w)

Spec == Init /\ [][Next]_vars

\* An adapter answers or times out, so a handler goes on; nobody has to ask.
FairSpec == Spec /\ \A w \in Workers : WF_vars(Step(w))

-----------------------------------------------------------------------------
\* The type of each variable.
TypeOK ==
    /\ state \in State
    /\ snapshot \in [Checkpoints -> State]
    /\ stored \in [Cycles -> SUBSET Records]
    /\ belief \in [Beliefs -> {"none", "SUPPORTED", "CONFLICTED"}]
    /\ answered \in SUBSET Cycles
    /\ failures \in SUBSET Cycles
    /\ begun \in SUBSET Requests
    /\ conflicts \in [Beliefs -> SUBSET Beliefs]
    /\ saved \in [Requests -> Nat]
    /\ lost \in SUBSET Requests
    /\ task \in [Workers -> Tasks]

(***************************************************************************)
(* What the cognitive state remembers as an experience has an answer, an   *)
(* evaluation, verified telemetry, a prediction error and evidence in the  *)
(* store, whatever crashes, refusals, restorations and other requests came *)
(* between.                                                                *)
(***************************************************************************)
Complete == {"telemetry", "evaluation", "prediction_error", "response",
             "evidence"}
StateRestsOnEvidence ==
    \A c \in state.remembers \cap Cycles : Complete \subseteq stored[c]

(***************************************************************************)
(* What two beliefs contradict each other in stays visible: as long as the *)
(* state names the contradiction of a belief, all the beliefs found to     *)
(* contradict it are CONFLICTED, and so is it, if it has been inserted     *)
(* ("neither silently overwrites the other",                               *)
(* docs/BRAINSTEM_DCML_ARCHITECTURE.md).                                   *)
(***************************************************************************)
ContradictionsMarked ==
    \A b \in state.remembers \cap Beliefs :
       /\ conflicts[b] # {}
       /\ \A c \in conflicts[b] : belief[c] = "CONFLICTED"
       /\ belief[b] # "SUPPORTED"

(***************************************************************************)
(* "An instrument failure records telemetry and an experience outcome but  *)
(* does not commit a new cognitive-state revision"                         *)
(* (docs/BRAINSTEM_DCML_ARCHITECTURE.md): nothing is evaluated, evidenced  *)
(* or saved, even when another request commits at the same time; and no    *)
(* chat whose failure is logged has an answer.                             *)
(***************************************************************************)
FailureNotCommitted ==
    /\ \A c \in Cycles : stored[c] \cap {"degraded", "failure"} # {} =>
          /\ saved[c] = 0
          /\ c \notin state.remembers \cup answered
          /\ stored[c] \cap {"evaluation", "response", "evidence"} = {}
    /\ failures \cap answered = {}

(***************************************************************************)
(* The revision numbers tell a lost part of the state: what was saved and  *)
(* is no longer remembered, because another request or a restoration wrote *)
(* back an older copy, either has a number above that of the state, or a   *)
(* number that another request has given too.                              *)
(***************************************************************************)
LossShows ==
    \A r \in Parts : saved[r] # 0 /\ r \notin state.remembers =>
       \/ state.revision < saved[r]
       \/ \E q \in Requests \ {r} : saved[q] = saved[r]

(***************************************************************************)
(* A question is answered, or its failure is in the log, unless its        *)
(* handler stopped or raised where nobody catches it.                      *)
(***************************************************************************)
EveryChatEnds == \A c \in Cycles :
    c \in begun ~> c \in answered \cup failures \cup lost

-----------------------------------------------------------------------------
(***************************************************************************)
(* Why the safety properties hold.  A request is run by one handler, the   *)
(* place of which tells what has been stored, marked and saved for it.     *)
(***************************************************************************)
Busy(w) == ~At(w, "idle")

OneHandler ==
    /\ \A w \in Workers : Busy(w) => On(w) \in begun
    /\ \A v, w \in Workers : Busy(v) /\ Busy(w) /\ On(v) = On(w) => v = w

NothingBefore ==
    /\ \A r \in Requests \ begun : saved[r] = 0
    /\ \A c \in Cycles \ begun : stored[c] = {} /\ c \notin answered \cup failures
    /\ \A b \in Beliefs \ begun : conflicts[b] = {} /\ belief[b] = "none"
    /\ \A b \in Beliefs : \A c \in conflicts[b] : belief[c] # "none"
    /\ \A r \in Requests : saved[r] # 1

Failed == {"degraded", "failure"}
Later == {"evaluation", "response", "evidence"}
BeforeAct == {"start", "perceive", "simulate", "act"}
AfterEvidence == {"read", "save", "revised", "assistant"}
AfterRespond == AfterEvidence \cup {"evidence"}
AfterPredict == AfterRespond \cup {"propose", "respond"}
AfterReflect == AfterPredict \cup {"predict"}
AfterAct == AfterReflect \cup {"reflect"}
Unsaved == Tried \cup {"start", "dispute", "read", "save"}

CycleProgress(w) ==
    /\ On(w) \notin answered \cup failures
    /\ task[w].pc \in BeforeAct \cup {"mark"} => stored[On(w)] \cap Later = {}
    /\ task[w].pc \in BeforeAct \cup AfterAct => stored[On(w)] \cap Failed = {}
    /\ task[w].pc \in AfterAct => "telemetry" \in stored[On(w)]
    /\ task[w].pc \in AfterReflect => "evaluation" \in stored[On(w)]
    /\ task[w].pc \in AfterPredict => "prediction_error" \in stored[On(w)]
    /\ task[w].pc \in AfterRespond => "response" \in stored[On(w)]
    /\ task[w].pc \in AfterEvidence => "evidence" \in stored[On(w)]

BeliefProgress(w) ==
    /\ belief[On(w)] = "none"
    /\ ~At(w, "insert") => conflicts[On(w)] # {}
    /\ task[w].pc \in {"read", "save", "revised"} =>
          \A c \in conflicts[On(w)] : belief[c] = "CONFLICTED"

Progress ==
    \A w \in Workers :
       /\ task[w].pc \in ChatPlaces => On(w) \in Cycles
       /\ task[w].pc \in {"dispute", "insert"} => On(w) \in Beliefs
       /\ At(w, "keep") => On(w) \in Checkpoints
       /\ task[w].pc \in Unsaved => saved[On(w)] = 0
       /\ Busy(w) /\ On(w) \in Cycles => CycleProgress(w)
       /\ Busy(w) /\ On(w) \in Beliefs => BeliefProgress(w)

FailuresApart ==
    /\ \A c \in Cycles : stored[c] \cap Failed # {} =>
          saved[c] = 0 /\ c \notin answered /\ stored[c] \cap Later = {}
    /\ failures \cap answered = {}

(***************************************************************************)
(* Each state that is held anywhere, in the row, in a checkpoint or in the *)
(* hands of a handler, remembers only what is complete; all its numbers    *)
(* have been given; and what it should remember by its number, but does    *)
(* not, shares its own number with another.                                *)
(***************************************************************************)
Remembers(S) ==
    /\ \A c \in S.remembers \cap Cycles : Complete \subseteq stored[c]
    /\ \A b \in S.remembers \cap Beliefs :
          /\ conflicts[b] # {} /\ belief[b] # "SUPPORTED"
          /\ \A c \in conflicts[b] : belief[c] = "CONFLICTED"
    /\ \A r \in S.remembers : saved[r] # 0

Numbered(S) ==
    /\ S.revision >= 1
    /\ \A n \in 2 .. S.revision : \E q \in Requests : saved[q] = n
    /\ \A r \in Parts :
          saved[r] # 0 /\ saved[r] <= S.revision /\ r \notin S.remembers =>
             \E q \in Requests \ {r} : saved[q] = saved[r]

Sound(S) == Remembers(S) /\ Numbered(S)
Held == {state} \cup {task[w].seen : w \in Workers}
                \cup ({snapshot[k] : k \in Checkpoints} \ {NotTaken})
Copies == \A S \in Held : Sound(S)

CycleInv == OneHandler /\ NothingBefore /\ Progress /\ FailuresApart /\ Copies
=============================================================================
