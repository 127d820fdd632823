------------------------- MODULE LearningGovernance -------------------------
(***************************************************************************)
(* The founder-governed learning lifecycle of BrainstemModel: proposals,   *)
(* their approvals, the behavioural records that promotion materialises    *)
(* and the cognitive state's list of learned strategies, as they are       *)
(* changed by request handlers that run on the threads of the runtime.     *)
(*                                                                         *)
(* Every StateStore.query, execute and event is a database transaction of  *)
(* its own, so each is an action of its own: a handler holds what it read  *)
(* in task[w] while the other handlers move.  A handler that raises ends   *)
(* where it stands (nothing is undone).                                    *)
(***************************************************************************)
EXTENDS Naturals, Sequences, FiniteSets

CONSTANTS
    Workers,      \* threads that run handlers
    Proposals,    \* ids of learning_proposals
    StrategyIds,  \* ids of strategies rows
    KindOf,       \* what the payload of each proposal materialises
    StrategyOf,   \* the strategy id in the payload of a "strategy" proposal
    Checkpoints,  \* ids of model_checkpoints (its size bounds checkpoint())
    Callers,      \* names a caller may give as its founder argument
    FOUNDER,      \* the one that is accepted
    MayCrash,     \* may a handler stop between two statements?
    MaySeal       \* may the benchmark seal appear while handlers run?

Kinds == {"strategy", "memory", "skill", "none"}

ASSUME GovernanceAssumption ==
    /\ KindOf \in [Proposals -> Kinds]
    /\ StrategyOf \in [Proposals -> StrategyIds]
    /\ FOUNDER \in Callers
    /\ MayCrash \in BOOLEAN
    /\ MaySeal \in BOOLEAN

VARIABLES
    proposals,    \* learning_proposals: status, evaluation and approval_id
    approvals,    \* approvals rows promote_learning:<id>, with their founder
    strategies,   \* strategies rows, by primary key
    records,      \* statuses of the memory and skills rows of each proposal
    learned,      \* learned_strategies of the cognitive state
    checkpoints,  \* model_checkpoints
    events,       \* dcml.learning_transition: the statuses that the events
                  \* of each proposal say it was moved to
    unlogged,     \* the proposals with a status whose handler stopped short
                  \* of the event
    task          \* what each worker is doing, with what it has read so far

tables == <<proposals, approvals, strategies, records>>
log == <<events, unlogged>>
vars == <<proposals, approvals, strategies, records, learned, checkpoints,
          log, task>>

Statuses == {"NONE", "OBSERVED", "PROPOSED", "EVALUATED", "APPROVED",
             "PROMOTED", "ACTIVE", "REJECTED", "CONFLICTED", "ROLLED_BACK",
             "SUPERSEDED"}
RecordStatuses == {"PROMOTED", "ACTIVE", "ROLLED_BACK"}

\* _ALLOWED_TRANSITIONS
AllowedTransitions ==
    {<<"OBSERVED", "PROPOSED">>, <<"OBSERVED", "REJECTED">>,
     <<"PROPOSED", "EVALUATED">>, <<"PROPOSED", "REJECTED">>,
     <<"PROPOSED", "CONFLICTED">>,
     <<"EVALUATED", "APPROVED">>, <<"EVALUATED", "REJECTED">>,
     <<"EVALUATED", "CONFLICTED">>,
     <<"APPROVED", "PROMOTED">>, <<"APPROVED", "REJECTED">>,
     <<"PROMOTED", "ACTIVE">>, <<"PROMOTED", "ROLLED_BACK">>,
     <<"ACTIVE", "ROLLED_BACK">>, <<"ACTIVE", "SUPERSEDED">>}
MayMove(from, to) == <<from, to>> \in AllowedTransitions

\* The handlers that move a proposal, each named for the status it asks for.
Targets == {"PROPOSED", "EVALUATED", "APPROVED", "REJECTED", "PROMOTED",
            "ACTIVE", "ROLLED_BACK"}

NoRow == [status |-> "absent"]
Row == [learning : Proposals, status : RecordStatuses]
Proposal == [status : Statuses, evaluated : BOOLEAN, approved : BOOLEAN]
Snapshot == [learned : SUBSET StrategyIds,
             statuses : [StrategyIds -> RecordStatuses \cup {"absent"}]]
NoSnapshot == [learned |-> {}]

Idle == [pc |-> "idle"]
MoveTask == [pc : {"recheck", "write", "emit"}, target : Targets,
             l : Proposals, seen : Statuses]
EffectTask == [pc : {"materialise", "retag_strategies", "retag_records",
                     "read_state", "read_ids", "save"},
               target : RecordStatuses, l : Proposals,
               learned : SUBSET StrategyIds, ids : SUBSET StrategyIds]
SnapTask == [pc : {"snap_rows"}, c : Checkpoints,
             learned : SUBSET StrategyIds]
StoreTask == [pc : {"snap_store"}, c : Checkpoints, snapshot : Snapshot]
RestoreTask == [pc : {"demote", "restore"}, c : Checkpoints,
                todo : SUBSET StrategyIds]
Tasks == {Idle} \cup MoveTask \cup EffectTask
                \cup SnapTask \cup StoreTask \cup RestoreTask

Init == /\ proposals = [l \in Proposals |->
              [status |-> "NONE", evaluated |-> FALSE, approved |-> FALSE]]
        /\ approvals = {}
        /\ strategies = [s \in StrategyIds |-> NoRow]
        /\ records = [l \in Proposals |-> <<>>]
        /\ learned = {}
        /\ checkpoints = [c \in Checkpoints |-> NoSnapshot]
        /\ events = [l \in Proposals |-> {}]
        /\ unlogged = {}
        /\ task = [w \in Workers |-> Idle]

IsIdle(w) == task[w].pc = "idle"
At(w, pc) == task[w].pc = pc
Goto(w, pc) == task' = [task EXCEPT ![w].pc = pc]
Finish(w) == task' = [task EXCEPT ![w] = Idle]

\* The first task record of a handler that asks to move l to target.
Move(target, l, pc) ==
    [pc |-> pc, target |-> target, l |-> l, seen |-> proposals[l].status]

(***************************************************************************)
(* learn() inserts the proposal as OBSERVED and then asks to move it to    *)
(* PROPOSED; _advanced_proposal inserts a diagnosis, which materialises    *)
(* nothing, as PROPOSED at once.  Ids are fresh.                           *)
(***************************************************************************)
Learn(w, l) ==
    /\ IsIdle(w)
    /\ proposals[l].status = "NONE"
    /\ proposals' = [proposals EXCEPT ![l].status = "OBSERVED"]
    /\ task' = [task EXCEPT ![w] = Move("PROPOSED", l, "recheck")]
    /\ UNCHANGED <<approvals, strategies, records, learned, checkpoints, log>>

AdvancedProposal(w, l) ==
    /\ IsIdle(w)
    /\ proposals[l].status = "NONE"
    /\ KindOf[l] = "none"
    /\ proposals' = [proposals EXCEPT ![l].status = "PROPOSED"]
    /\ UNCHANGED <<approvals, strategies, records, learned, checkpoints,
                   log, task>>

\* Slips: any caller counts as the founder; an approval skips the look at the
\* proposal.
AnyoneIsFounder(by) == by \in Callers

BlindApprove(w, l, by) ==
    /\ IsIdle(w)
    /\ by = FOUNDER
    /\ proposals[l].status # "NONE"
    /\ approvals' = approvals \cup {<<l, by>>}
    /\ task' = [task EXCEPT ![w] = Move("APPROVED", l, "write")]
    /\ UNCHANGED <<proposals, strategies, records, learned, checkpoints, log>>

(***************************************************************************)
(* A request is admitted by what its handler reads first.  One that is     *)
(* refused there (unknown id, invalid transition, not the founder) changes *)
(* nothing and is no step.                                                 *)
(***************************************************************************)
IsFounder(by) == by = FOUNDER

Start(w, target, l) ==
    /\ IsIdle(w)
    /\ target \in {"EVALUATED", "PROMOTED", "ACTIVE", "ROLLED_BACK"}
    /\ MayMove(proposals[l].status, target)
    /\ task' = [task EXCEPT ![w] = Move(target, l, "write")]
    /\ UNCHANGED <<tables, learned, checkpoints, log>>

\* approve_learning records the approval before it looks at the proposal (for
\* an id that no proposal has, it then raises: that row stays by itself).
StartApprove(w, l, by) ==
    /\ IsIdle(w)
    /\ IsFounder(by)
    /\ proposals[l].status # "NONE"
    /\ approvals' = approvals \cup {<<l, by>>}
    /\ task' = [task EXCEPT ![w] = Move("APPROVED", l, "recheck")]
    /\ UNCHANGED <<proposals, strategies, records, learned, checkpoints, log>>

\* reject_learning reads the proposal twice: here, and in its transition.
StartReject(w, l, by) ==
    /\ IsIdle(w)
    /\ IsFounder(by)
    /\ MayMove(proposals[l].status, "REJECTED")
    /\ task' = [task EXCEPT ![w] = Move("REJECTED", l, "recheck")]
    /\ UNCHANGED <<tables, learned, checkpoints, log>>

\* A slip: what the handler saw first is taken for granted.
TrustFirstLook(w) ==
    /\ At(w, "recheck")
    /\ Goto(w, "write")
    /\ UNCHANGED <<tables, learned, checkpoints, log>>

(***************************************************************************)
(* The statements of _transition_learning, in order: read and validate     *)
(* (for the handlers above that did something before it), UPDATE whatever  *)
(* the status is by now, log the event with the status that was read.      *)
(***************************************************************************)
Recheck(w) ==
    /\ At(w, "recheck")
    /\ LET now == proposals[task[w].l].status IN
       task' = [task EXCEPT ![w] =
                  IF MayMove(now, task[w].target)
                  THEN [task[w] EXCEPT !.pc = "write", !.seen = now]
                  ELSE Idle]
    /\ UNCHANGED <<tables, learned, checkpoints, log>>

\* A slip: rejection also goes on to set the status of rows.
EagerEffect(target, l) ==
    IF target \in {"ACTIVE", "ROLLED_BACK", "REJECTED"}
    THEN [pc |-> "retag_strategies", target |-> target, l |-> l,
          learned |-> {}, ids |-> {}]
    ELSE IF target = "PROMOTED"
         THEN [pc |-> "materialise", target |-> target, l |-> l,
               learned |-> {}, ids |-> {}]
         ELSE Idle

\* What the handler of each target does once its transition is logged.
Effect(target, l) ==
    CASE target = "PROMOTED" ->
            [pc |-> "materialise", target |-> target, l |-> l,
             learned |-> {}, ids |-> {}]
      [] target \in {"ACTIVE", "ROLLED_BACK"} ->
            [pc |-> "retag_strategies", target |-> target, l |-> l,
             learned |-> {}, ids |-> {}]
      [] OTHER -> Idle

WriteStatus(w) ==
    /\ At(w, "write")
    /\ LET t == task[w] IN
       proposals' = [proposals EXCEPT ![t.l] =
                       [status    |-> t.target,
                        evaluated |-> @.evaluated \/ t.target = "EVALUATED",
                        approved  |-> @.approved \/ t.target = "APPROVED"]]
    /\ Goto(w, "emit")
    /\ unlogged' = unlogged \ {task[w].l}
    /\ UNCHANGED <<approvals, strategies, records, learned, checkpoints,
                   events>>

\* A slip: the transition to EVALUATED leaves no event.
QuietLog(w) ==
    /\ At(w, "emit")
    /\ LET t == task[w] IN
       /\ events' = IF t.target = "EVALUATED" THEN events
                    ELSE [events EXCEPT ![t.l] = @ \cup {t.target}]
       /\ task' = [task EXCEPT ![w] = Effect(t.target, t.l)]
    /\ UNCHANGED <<tables, learned, checkpoints, unlogged>>

LogTransition(w) ==
    /\ At(w, "emit")
    /\ LET t == task[w] IN
       /\ events' = [events EXCEPT ![t.l] = @ \cup {t.target}]
       /\ task' = [task EXCEPT ![w] = Effect(t.target, t.l)]
    /\ UNCHANGED <<tables, learned, checkpoints, unlogged>>

\* A slip: a memory or a skill is active as soon as it is promoted.
MaterialiseActive(w) ==
    /\ At(w, "materialise")
    /\ LET l == task[w].l IN
       /\ strategies' =
            IF KindOf[l] = "strategy"
            THEN [strategies EXCEPT ![StrategyOf[l]] =
                    [learning |-> l, status |-> "PROMOTED"]]
            ELSE strategies
       /\ records' = IF KindOf[l] \in {"memory", "skill"}
                     THEN [records EXCEPT ![l] = Append(@, "ACTIVE")]
                     ELSE records
    /\ Finish(w)
    /\ UNCHANGED <<proposals, approvals, learned, checkpoints, log>>

(***************************************************************************)
(* promote_learning: a strategy row is replaced by its payload's id, a     *)
(* memory or skills row gets a fresh id, other kinds leave no record.      *)
(***************************************************************************)
Materialise(w) ==
    /\ At(w, "materialise")
    /\ LET l == task[w].l IN
       /\ strategies' =
            IF KindOf[l] = "strategy"
            THEN [strategies EXCEPT ![StrategyOf[l]] =
                    [learning |-> l, status |-> "PROMOTED"]]
            ELSE strategies
       /\ records' = IF KindOf[l] \in {"memory", "skill"}
                     THEN [records EXCEPT ![l] = Append(@, "PROMOTED")]
                     ELSE records
    /\ Finish(w)
    /\ UNCHANGED <<proposals, approvals, learned, checkpoints, log>>

(***************************************************************************)
(* activate_learning and rollback_learning, after their transition: set    *)
(* the status of the rows that came from the proposal (strategies, then    *)
(* memory and skills), then read, change and save the cognitive state.     *)
(***************************************************************************)
RowsOf(l) == {s \in StrategyIds :
                strategies[s] # NoRow /\ strategies[s].learning = l}

RetagStrategies(w) ==
    /\ At(w, "retag_strategies")
    /\ strategies' = [s \in StrategyIds |->
                        IF s \in RowsOf(task[w].l)
                        THEN [strategies[s] EXCEPT !.status = task[w].target]
                        ELSE strategies[s]]
    /\ Goto(w, "retag_records")
    /\ UNCHANGED <<proposals, approvals, records, learned, checkpoints, log>>

RetagRecords(w) ==
    /\ At(w, "retag_records")
    /\ records' = [records EXCEPT ![task[w].l] =
                     [i \in DOMAIN @ |-> task[w].target]]
    /\ Goto(w, "read_state")
    /\ UNCHANGED <<proposals, approvals, strategies, learned, checkpoints, log>>

ReadState(w) ==
    /\ At(w, "read_state")
    /\ task' = [task EXCEPT ![w].learned = learned, ![w].pc = "read_ids"]
    /\ UNCHANGED <<tables, learned, checkpoints, log>>

ReadIds(w) ==
    /\ At(w, "read_ids")
    /\ task' = [task EXCEPT ![w].ids = RowsOf(task[w].l), ![w].pc = "save"]
    /\ UNCHANGED <<tables, learned, checkpoints, log>>

Revised(t) == IF t.target = "ACTIVE" THEN t.learned \cup t.ids
                                     ELSE t.learned \ t.ids

SaveState(w) ==
    /\ At(w, "save")
    /\ learned' = Revised(task[w])
    /\ Finish(w)
    /\ UNCHANGED <<tables, checkpoints, log>>

(***************************************************************************)
(* checkpoint() reads the cognitive state, then the strategies, and stores *)
(* both under a fresh id.                                                  *)
(***************************************************************************)
BeginCheckpoint(w, c) ==
    /\ IsIdle(w)
    /\ checkpoints[c] = NoSnapshot
    /\ \A v \in Workers : task[v].pc \in {"snap_rows", "snap_store"}
                           => task[v].c # c
    /\ task' = [task EXCEPT ![w] =
                  [pc |-> "snap_rows", c |-> c, learned |-> learned]]
    /\ UNCHANGED <<tables, learned, checkpoints, log>>

SnapshotRows(w) ==
    /\ At(w, "snap_rows")
    /\ task' = [task EXCEPT ![w] =
         [pc |-> "snap_store", c |-> @.c,
          snapshot |-> [learned  |-> @.learned,
                        statuses |-> [s \in StrategyIds |->
                                        strategies[s].status]]]]
    /\ UNCHANGED <<tables, learned, checkpoints, log>>

StoreCheckpoint(w) ==
    /\ At(w, "snap_store")
    /\ checkpoints' = [checkpoints EXCEPT ![task[w].c] = task[w].snapshot]
    /\ Finish(w)
    /\ UNCHANGED <<tables, learned, log>>

\* A slip: the strategies activated since the checkpoint are left in place.
KeepActive(w) ==
    /\ At(w, "demote")
    /\ IF task[w].todo = {} THEN Finish(w) ELSE Goto(w, "restore")
    /\ UNCHANGED <<tables, learned, checkpoints, log>>

(***************************************************************************)
(* rollback(checkpoint): the state of the snapshot is saved, every ACTIVE  *)
(* strategy is rolled back, then each strategy of the snapshot gets the    *)
(* status it had there, one UPDATE per id.  Proposals, memory and skills   *)
(* are left alone.                                                         *)
(***************************************************************************)
BeginRestore(w, c) ==
    /\ IsIdle(w)
    /\ checkpoints[c] # NoSnapshot
    /\ learned' = checkpoints[c].learned
    /\ task' = [task EXCEPT ![w] =
         [pc |-> "demote", c |-> c,
          todo |-> {s \in StrategyIds :
                      checkpoints[c].statuses[s] # "absent"}]]
    /\ UNCHANGED <<tables, checkpoints, log>>

DemoteActive(w) ==
    /\ At(w, "demote")
    /\ strategies' = [s \in StrategyIds |->
                        IF strategies[s].status = "ACTIVE"
                        THEN [strategies[s] EXCEPT !.status = "ROLLED_BACK"]
                        ELSE strategies[s]]
    /\ IF task[w].todo = {} THEN Finish(w) ELSE Goto(w, "restore")
    /\ UNCHANGED <<proposals, approvals, records, learned, checkpoints, log>>

RestoreRow(w, s) ==
    /\ At(w, "restore")
    /\ s \in task[w].todo
    /\ strategies' = [strategies EXCEPT ![s].status =
                        checkpoints[task[w].c].statuses[s]]
    /\ IF task[w].todo = {s}
       THEN Finish(w)
       ELSE task' = [task EXCEPT ![w].todo = @ \ {s}]
    /\ UNCHANGED <<proposals, approvals, records, learned, checkpoints, log>>

(***************************************************************************)
(* While the seal file of a benchmark exists, StateStore.execute raises at *)
(* a write to learning_proposals, memory or skills (the first UPDATE of    *)
(* memory comes after the one of strategies); the handler ends there.  The *)
(* file belongs to another process, so it may be seen at any such write.   *)
(***************************************************************************)
SealRefuses(w) ==
    /\ MaySeal
    /\ \/ task[w].pc \in {"write", "retag_records"}
       \/ At(w, "materialise") /\ KindOf[task[w].l] \in {"memory", "skill"}
    /\ Finish(w)
    /\ UNCHANGED <<tables, learned, checkpoints, log>>

\* The status is set, and by this handler or one like it.
LeavesUntold(w) ==
    At(w, "emit") /\ task[w].target = proposals[task[w].l].status

\* A handler stops short: its process ends, or a statement raises because
\* the database stays locked.  The tables are left as they are.
Crash ==
    /\ MayCrash
    /\ \E w \in Workers :
          /\ ~IsIdle(w)
          /\ unlogged' = IF LeavesUntold(w) THEN unlogged \cup {task[w].l}
                                           ELSE unlogged
          /\ Finish(w)
    /\ UNCHANGED <<tables, learned, checkpoints, events>>

Step(w) ==
    \/ Recheck(w) \/ WriteStatus(w) \/ LogTransition(w) \/ Materialise(w)
    \/ RetagStrategies(w) \/ RetagRecords(w)
    \/ ReadState(w) \/ ReadIds(w) \/ SaveState(w)
    \/ SnapshotRows(w) \/ StoreCheckpoint(w) \/ DemoteActive(w)
    \/ \E s \in StrategyIds : RestoreRow(w, s)

Request(w) ==
    \/ \E l \in Proposals :
          \/ Learn(w, l)
          \/ AdvancedProposal(w, l)
          \/ \E target \in Targets : Start(w, target, l)
          \/ \E by \in Callers : StartApprove(w, l, by) \/ StartReject(w, l, by)
    \/ \E c \in Checkpoints : BeginCheckpoint(w, c) \/ BeginRestore(w, c)

Next == \/ \E w \in Workers : Step(w) \/ Request(w) \/ SealRefuses(w)
        \/ Crash

Spec == Init /\ [][Next]_vars

-----------------------------------------------------------------------------
TypeOK ==
    /\ proposals \in [Proposals -> Proposal]
    /\ approvals \in SUBSET (Proposals \X Callers)
    /\ strategies \in [StrategyIds -> Row \cup {NoRow}]
    /\ records \in [Proposals -> Seq(RecordStatuses)]
    /\ learned \in SUBSET StrategyIds
    /\ checkpoints \in [Checkpoints -> Snapshot \cup {NoSnapshot}]
    /\ events \in [Proposals -> SUBSET Statuses]
    /\ unlogged \in SUBSET Proposals
    /\ task \in [Workers -> Tasks]

(***************************************************************************)
(* rollback(checkpoint) only updates rows that are there: a strategies row *)
(* is replaced but never deleted, so every id of a snapshot, stored or     *)
(* about to be, still has a row, and a restoration works off a snapshot    *)
(* that has every id it has left to do.  No two checkpoints share an id.   *)
(***************************************************************************)
Present(snapshot) ==
    \A s \in StrategyIds :
        snapshot.statuses[s] # "absent" => strategies[s] # NoRow
Snapping(w) == task[w].pc \in {"snap_rows", "snap_store"}
RowsKept ==
    /\ \A c \in Checkpoints : checkpoints[c] \in Snapshot
                                 => Present(checkpoints[c])
    /\ \A w \in Workers :
          /\ At(w, "snap_store") => Present(task[w].snapshot)
          /\ task[w].pc \in {"demote", "restore"} =>
                /\ checkpoints[task[w].c] \in Snapshot
                /\ \A s \in task[w].todo :
                      checkpoints[task[w].c].statuses[s] # "absent"
          /\ Snapping(w) =>
                /\ checkpoints[task[w].c] = NoSnapshot
                /\ \A v \in Workers :
                      Snapping(v) /\ task[v].c = task[w].c => v = w

(***************************************************************************)
(* Founder gate.  Whatever the handlers read before others wrote, wherever *)
(* one of them stops: a proposal that left a strategy, a memory or a skill *)
(* has an evaluation and an approval_id, and approvals holds the founder's *)
(* row for it (approve_learning, promote_learning).                        *)
(***************************************************************************)
HasRecord(l) == RowsOf(l) # {} \/ records[l] # <<>>
Governed(l) == /\ proposals[l].evaluated
               /\ proposals[l].approved
               /\ <<l, FOUNDER>> \in approvals
FounderGate == \A l \in Proposals : HasRecord(l) => Governed(l)

(***************************************************************************)
(* "Every transition is validated and emitted to the audit log"            *)
(* (docs/DCML_LEARNING_LIFECYCLE.md).  Whatever overlaps, the log of a     *)
(* proposal has the status it is in, unless a handler is about to log it   *)
(* or stopped short of doing so (_transition_learning).                    *)
(***************************************************************************)
AboutToLog(w, l) == /\ At(w, "emit") /\ task[w].l = l
                    /\ task[w].target = proposals[l].status
\* The statuses that learn and _advanced_proposal insert.
Inserted(l) == {"NONE", "OBSERVED"} \cup
                  (IF KindOf[l] = "none" THEN {"PROPOSED"} ELSE {})
StatusIsLogged ==
    \A l \in Proposals : \/ proposals[l].status \in Inserted(l) \cup events[l]
                         \/ l \in unlogged
                         \/ \E w \in Workers : AboutToLog(w, l)

(***************************************************************************)
(* The audit log is ahead of what it tells of: wherever handlers stop or   *)
(* overtake each other, no proposal has a behavioural record before its    *)
(* promotion is logged, and no memory or skill has a status, ACTIVE above  *)
(* all, that is not (promote_learning, activate_learning,                  *)
(* rollback_learning).                                                     *)
(***************************************************************************)
AuditFirst ==
    \A l \in Proposals :
       /\ HasRecord(l) => "PROMOTED" \in events[l]
       /\ \A i \in DOMAIN records[l] : records[l][i] \in events[l]

(***************************************************************************)
(* A rejection and a rollback are final.  Once no handler that had passed  *)
(* its check before them is left to write or to promote, such a proposal   *)
(* keeps its status for good, nobody passes the check again, and no        *)
(* behavioural record is added to it (reject_learning, rollback_learning). *)
(***************************************************************************)
Late(w, l) == task[w].pc \in {"write", "emit", "materialise"} /\ task[w].l = l
Settled(l) == /\ proposals[l].status \in {"REJECTED", "ROLLED_BACK"}
              /\ \A w \in Workers : ~Late(w, l)
DecisionsStand ==
    [][\A l \in Proposals : Settled(l) =>
          /\ Settled(l)' /\ UNCHANGED proposals[l].status
          /\ RowsOf(l)' \subseteq RowsOf(l)
          /\ DOMAIN records'[l] = DOMAIN records[l]]_vars

AllIdle == \A w \in Workers : IsIdle(w)

(***************************************************************************)
(* Between requests every strategy that reason() may select is listed in   *)
(* the learned_strategies of the cognitive state: activation, its undoing  *)
(* and the restoration of a checkpoint keep the two together.              *)
(***************************************************************************)
ActiveIsLearned ==
    AllIdle => \A s \in StrategyIds :
                  strategies[s].status = "ACTIVE" => s \in learned

\* A record that takes part in selection.
ActiveRecord(l) == \/ \E s \in RowsOf(l) : strategies[s].status = "ACTIVE"
                   \/ \E i \in DOMAIN records[l] : records[l][i] = "ACTIVE"

\* A rolled-back proposal is out of active selection between requests.
RolledBackIsInactive ==
    AllIdle => \A l \in Proposals :
                  proposals[l].status = "ROLLED_BACK" => ~ActiveRecord(l)

(***************************************************************************)
(* The handlers implement the promise of GovernedLearning.                 *)
(***************************************************************************)
Promise == INSTANCE GovernedLearning WITH
              evaluated   <- {l \in Proposals : proposals[l].evaluated},
              approved    <- {l \in Proposals : proposals[l].approved},
              behavioural <- {l \in Proposals : HasRecord(l)}
KeepsPromise == Promise!GSpec

(***************************************************************************)
(* Why the founder gate holds: the inductive strengthening of FounderGate. *)
(* A status beyond EVALUATED (APPROVED) is only reached by a handler that  *)
(* has read a status which already required the evaluation (the approval), *)
(* and neither of the two is ever taken back, so what the handler read may *)
(* be stale without harm.                                                  *)
(***************************************************************************)
StatusesGoverned ==
    \A l \in Proposals :
        /\ proposals[l].status \in {"EVALUATED", "APPROVED"} \cup RecordStatuses
              => proposals[l].evaluated
        /\ proposals[l].status \in {"APPROVED"} \cup RecordStatuses
              => proposals[l].approved
        /\ proposals[l].approved => Governed(l)

Pending(w, pcs, targets) ==
    task[w].pc \in pcs /\ task[w].target \in targets

HandlersGoverned ==
    \A w \in Workers :
        /\ Pending(w, {"recheck", "write"}, {"APPROVED"})
              => <<task[w].l, FOUNDER>> \in approvals
        /\ Pending(w, {"write"}, {"APPROVED"})
              => proposals[task[w].l].evaluated
        /\ Pending(w, {"write", "emit"}, RecordStatuses)
              => proposals[task[w].l].approved
        /\ task[w].pc = "materialise" => proposals[task[w].l].approved

RecordsGoverned ==
    /\ \A s \in StrategyIds :
          strategies[s] # NoRow => proposals[strategies[s].learning].approved
    /\ \A l \in Proposals : records[l] # <<>> => proposals[l].approved

GateInv == StatusesGoverned /\ HandlersGoverned /\ RecordsGoverned
=============================================================================
