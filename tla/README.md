# BRAINSTEM in TLA+

BRAINSTEM is a local runtime around a cognitive model (DCML).  A FastAPI
service answers chats, keeps what it has learned in one SQLite file, lets the
founder approve what it may learn and which policy it uses, and hands requests
for the outside world to a gateway called Port Zero.  This directory holds
TLA+ models of its parts, the TLC configurations that check them on small
instances, and TLAPS proofs of the properties that matter most.

## The system and its parts

All request handlers in `brainstem/runtime/app.py` are plain `def` functions,
so the server runs them on the threads of a pool.  They share one
`StateStore`, and every `StateStore.query`, `execute` and `event` opens a
connection and is a transaction of its own: a handler is a sequence of
transactions, between which other handlers run and after which it may stop.
Of the experience loop, calibration and consolidation are endpoints too
(`app.py:91-97`), and a chat routes its model through the advanced records; the
other operations of the experience loop and the advanced records, the policies
and the gateway are called by programs that open the same SQLite file, each a
process of its own, so they interleave in the same way.  That is what all
models here have in common: **one action per transaction**, with what a handler
has read so far kept in `task[w]`.

| part | source | state | operations | what is hard |
|---|---|---|---|---|
| Learning governance | `model/core.py` 402-460, 612-829 | learning_proposals, approvals, strategies, memory, skills, model_checkpoints, learned_strategies, events | learn, evaluate, approve, reject, promote, activate, rollback, checkpoint, restore | check-then-write in two transactions; the event is a third one; restoration by id |
| Cognitive cycle and chat | `model/core.py` 60-568, 739-829, `runtime/service.py` 107-135 | cognitive_states, experiences, predictions, results, telemetry, evidence, messages, model_checkpoints | chat, the steps of cognitive_cycle; restore | the state is read, changed and written back whole; failure half-way, also between the UPDATE of the state and its event; the seal |
| Beliefs | `model/core.py` 138-186 | beliefs, unresolved_contradictions | add_belief | contradictions are looked for among SUPPORTED rows, marked, entered in the state and followed by the insert, one after the other |
| Policy checkpoints | `model/dcml.py` 429-615 | policy_parameters, training_runs, canary_results | train, canary, promote, rollback_policy | two UPDATEs exchange the policy |
| Founder approvals | `model/authority.py` | signed_approvals | sign, verify, revoke | expiry and revocation between the check and the use |
| Port Zero gateway | `strata/gateway.py`, `strata/contracts.py` | strata_boundary_requests, _outbox, _events | submit | rivals for an id or a key; lost replies; exceptions nobody catches; stops between rows |
| Experience loop | `model/dcml.py` 126-428, 459-521, 617-782, `model/advanced.py` 82-136 | experiences_v2, verifications, outcome_evaluations, credit_assignments, datasets, calibrations, replays, curricula, concepts | record, verify, observe, evaluate, assign_credit, approve, build_dataset, train, calibrate, replay, form_curriculum, consolidate, form_concept | whole payloads are written back without a condition; a verified outcome is immutable, checked before the write |
| Advanced records | `model/advanced.py` 172-455, 504-594, `model/core.py` 279-305, 402-428, 570-604 | missions_v2, mission_stages, temporal_credit, causal_hypotheses, interventions, counterfactual decisions and observations, predictions, reviews, profiles, routes | one handler each | repeated completion, a reward paid row by row, copies that overwrite each other |
| State store | `runtime/store.py` | the SQLite file, the JSONL export | query, execute, event, backup, restore | event and mutation are two transactions |
| Benchmark seal | `benchmarks/seal.py`, `benchmarks/runner.py` | benchmark-seal.json | seal, unseal, reject_canonical_write | read before the write, by other processes |
| JSONL ledgers, approval plane | `utils/jsonl.py`, `ledgers/`, `engines/founder_approval_plane/` | *.jsonl files | append, request, set_status, blocks | read the last hash, then append |
| Runtime process | `cli/cognitive.py` | pid file, shell session | start, stop, status | stale pid files |
| Model adapters, engines, registries, CLI reports | `adapters/`, `engines/`, `cli/app.py`, `benchmarks/registry.py` | none of their own | wire formats, fixed reports | nothing a model checker reaches |

A chat calls the cognitive model, which may propose learning; regret, errors
and reviews of the advanced records propose learning too.  Proposals go through
learning governance, whose activations write the same cognitive state as the
chats and the beliefs.  Datasets of approved experiences train policies; the
approvals of experiences, policies and boundary requests are signed by the
founder.  The seal may refuse any write to a table whose name matches its list,
whoever makes it.

## Modules

| module | what it is |
|---|---|
| `LearningGovernance` | the handlers of the learning lifecycle, statement by statement |
| `GovernedLearning` | what they promise: a proposal is evaluated, then approved, then becomes behavioural, and nothing is taken back |
| `LearningGovernanceProofs`, `FounderGateProofs`, `SerialLifecycleProofs` | type correctness; the founder gate, the refinement, the audit log and final decisions; the learned list |
| `PolicyCheckpoints`, `PolicyCheckpointsProofs` | training, canaries, promotion and rollback with the approvals they verify |
| `PortZeroGateway` | `PortZeroGateway.submit` and the transitions it logs |
| `BoundaryPromise` | what it promises: of rival messages at most one crosses, once, signed, and only what crossed is reported |
| `PortZeroProofs` | type correctness, at-most-once crossing and the refinement; the chain of events and the evidence of a crossing |
| `CognitiveCycle`, `CognitiveCycleProofs` | chat and cognitive_cycle, with add_belief, activations, checkpoints and restorations, which rewrite the same cognitive state |
| `ExperienceLoop`, `ExperienceLoopProofs` | experiences_v2 from observation to training, and everything that is derived from it on the way |
| `AdvancedRecords`, `AdvancedRecordsProofs` | missions and delayed credit, causal hypotheses, what was expected and what came of it, model profiles and routing |
| `MC...` | instances for TLC: sets of model values and symmetry |

How the state corresponds to the code: each table (or the columns the
properties need) is a function from its ids; `task[w]` is the program counter
and the local variables of the handler on thread `w`; a row that is absent is a
value of its own.  Inserted rows get fresh ids, as the code's uuids are.
A request that is refused before it writes anything changes nothing and is no
step.  A handler that raises goes back to idle and nothing is undone.
`Crash` lets one handler stop between two statements, and no start-up code
repairs tables: its process ends, or, as no handler but `chat` catches it, a
statement raises because the database stays locked.  It moves a single
handler, so a process that ends is that step for each of its threads.
`SealRefuses` is the exception of `reject_canonical_write`; the seal file
belongs to another process, so it may be seen at any write to one of the tables
it names.

`chat` does catch exceptions, and `CognitiveCycle` therefore tells the two
apart.  `RaiseInCycle` is a statement that raises inside the `try`, whatever
the reason (a lock, the seal, an unknown instrument): the handler goes on to
log `model.failed`, also when the statement is the event after the UPDATE of
the state, and inside `act` by way of the mark for a failed instrument.  `Stop`
is the end of a process at any place, or an exception where nobody catches it:
before the `try`, in the message of the answer, in `model.failed` itself, and
in every other request.

Definitions introduced by "A slip:" are not part of any specification.  Each
is a plausible mistake in the definition next to it, kept to show that the
properties can tell it apart: put in the place of that definition, it makes
TLC refute the property it is listed with in `PROJECT.json`.

Abstractions: texts, scores and payloads are left out but for what decides a
path (the kind of a proposal, its strategy id, the hash of a checkpoint,
whether a canary passed).  Signatures are taken to be unforgeable.

* `LearningGovernance`: the events of a proposal are summed up by where the
  last one ends and whether they are chained, so that the state space stays
  small.
* `CognitiveCycle`: a belief is its claim, that is what it is about and the
  object, and its status.  Of the state it has the revision, the experiences in
  `episodic_memory` and the contradictions, each named by the belief that
  raised it; of the learned strategies only that their changes rewrite the
  state.  The strategies rows, what promotion replaces in them and the learned
  list are in `LearningGovernance`, as are the strategies that a restoration
  sets after the state.
* `PortZeroGateway`: the expiry that `submit` looks at on entry is up to the
  caller, who may submit or not.
* `ExperienceLoop`: an outcome stands for the outcome, reward and cost that
  `observe` records together; the content hash stands for the payload that it
  hashes; scores and the events of `_put` are left out; row ids are random, so
  `build_dataset` may come upon rows in any order; what is derived (a
  calibration, replay, curriculum, concept or credit) is the set of
  experiences it names; and a write that the seal refuses is a case of
  `Crash`, as every handler there ends with its write.
* `AdvancedRecords`: a request has a number, which is the id of what it
  inserts and stands for the evidence it brings.  Confidence is counted in
  units of 1/40, exact for at most one uncontrolled confounder; where floating
  point may put 0.2 on either side of the threshold, both verdicts are
  possible.  Scores of routes are left out: any permitted model may be chosen,
  together with the profile it rests on.  A review finds nothing, something
  that it only notes (missing evidence, overconfidence, goal drift), or
  something for which it requires the human.  A prediction is observed only
  after its cycle has ended, for its id is not told before.

## What each run checks

| run | instance | result |
|---|---|---|
| `lg_serial` | 1 thread, 3 proposals (skill, strategy, diagnosis), 2 strategy ids, 1 checkpoint | ACTIVE strategies are in the learned list, over activations, rollbacks and restorations |
| `lg_race` | 2 threads, 1 proposal, crash, seal, a caller who is not the founder | the founder gate, the audit log ahead of the records, every status logged but where a handler stopped, rejection and rollback final; `GovernedLearning` is implemented |
| `lg_restore_rolled_back` | 1 thread, twin strategies, 1 checkpoint | **violated**: a restoration re-activates what was rolled back |
| `pc_race` | 2 threads that may stop, 1 candidate, 2 approvals | activation is authorised, at most as many policies are ACTIVE as there are threads, there is always one as long as no handler stopped, and what overlaps no other change takes effect |
| `pc_candidate` | 1 thread | **violated**: a rollback selects a candidate that was never promoted |
| `pz_rivals` | 2 threads, crash, 3 messages: 2 share a key, 2 an id; fairness | at most one rival crosses, once, after its evidence; events are a chain; `BoundaryPromise` is implemented; an admitted request settles unless its handler stopped or raised |
| `cc_race` | 2 threads, 2 chats, 2 beliefs that contradict, 1 checkpoint, 1 restoration, exceptions, stops | what the state remembers is complete, contradictions it names are marked, a failed instrument commits nothing, revision numbers tell what was lost |
| `cc_live` | 2 threads, 2 chats, 1 activation, exceptions, stops; fairness | every chat is answered or logged as failed, but where nobody catches |
| `ex_race` | 2 threads that may stop, 1 experience, 2 verifications, 2 approvals | whatever stale payload is written back, an approval stays with the outcome it was signed for, a verified row has its proof, and so has everything derived from it; outcomes and references on which all copies agree stay |
| `ex_serial` | 1 thread, 3 experiences of one kind, one of them private; the founder signs and withdraws in between | datasets hold signed and distinct members, training and consolidation learn only outcomes that were signed |
| `ad_race` | 2 workers that may stop, 2 models, 4 requests of any kind | credit is split once and paid in full for stages of a completed mission, rejection takes two failures, what was observed as worse is proposed, what was reported is lost only to a request that overlapped it |
| `ad_findings` | 1 worker | **violated**: a review with findings that do not require the human proposes nothing |

Bounds.  Two threads are enough for every hazard listed, for each is a read of
one handler that is overtaken by a write of another.  One proposal, checkpoint
or strategy suffices where the property speaks of one; where ids are shared
(twin strategies, rival messages, beliefs about one thing) there are two to
four that share them.  Four requests let a mission with two stages be completed
and a hypothesis be tried three times.  `MaxCheckpoint`, `MaxEvaluations`,
`MaxRecords`, `MaxRequests`, `Cycles`, `Beliefs`, `Changes`, `Checkpoints`,
`Restorations`, `Approvals`, `Verifications`, `Outcomes` and the sets of ids
bound what may be created.  The proofs do without these bounds.

Where overlapping handlers break what one would like to have, the properties
say what remains under every overlap: `LossShows` and `LostOnlyToRivals` say
what may be lost and to whom, `OutcomesSettle`, `EvidenceSettles` and
`DecisionsStand` from when on something is final.  The pairs in `met` (in
`ad_race`) are requests that both read a row before either wrote it back; the
sets `lost`, `abandoned`, `unlogged` and `stopped` name the requests whose
handlers stopped short, and nothing else is exempted with them.

Four properties speak of handlers that do not overlap.  `ActiveIsLearned`,
`LearnedIsSigned` and `DatasetsDistinct` are about long sequences of requests
(activation, checkpoint, rollback, restoration; approval, selection, training)
and are checked with one thread; in `pc_race` the flag `overlapped` limits
`TakesEffect` to changes that overlapped no other, after any number that
stopped.  The proofs state it as `[]OneAtATime`: of any number of threads, one
at most runs a handler at a time.

`CHECK_DEADLOCK FALSE` is set in every configuration: with every id in use the
system has nothing left to do.

Fairness.  Only `cc_live` and `pz_rivals` use it: weak fairness of `Step(w)`,
the next statement of a handler that runs.  Statements on SQLite return or
raise; the calls that wait for somebody else have timeouts (20 s in the
gateway, 1800 s and 120 s in the adapters).  No request is ever forced to come,
and no handler is forced to stop or to raise; after it has, nothing is owed for
its request.  `EveryChatEnds` exempts no exception that `chat` catches.

## What is proved

Each theorem is about every number of threads, ids, messages and requests.  All
but four are about the specification with its crashes, its refusals and every
overlap of handlers.

* `TypeCorrect`, `PolicyTypeCorrect`, `GatewayTypeCorrect`, `CycleTypeCorrect`,
  `ExperienceTypeCorrect`, `RecordsTypeCorrect`: `TypeOK` is an invariant of
  each module.
* `FounderGateHolds`: `[]FounderGate`.  The gate is not inductive: a handler
  acts on a status it read some time ago.  `GateInv` adds that a status from
  EVALUATED (APPROVED) on is backed by the evaluation (the approval and the
  founder's row), and that a handler on its way to such a status has read one
  that was.  As neither is ever taken back, staleness does no harm.  The
  restorations need `RowsKept`, a lemma: an id in a snapshot keeps its row.
* `PromiseKept`: with `GateInv`, every step of `LearningGovernance` is a step
  of `GovernedLearning` or a stutter.
* `StatusesAreLogged`, `AuditComesFirst`: the event follows the UPDATE in the
  same handler, so a status that is not in the log has a handler that is about
  to log it or has stopped; and what promotes or retags records has logged its
  status first, which no other handler takes out again.
* `DecisionsAreFinal`: no transition leads out of REJECTED or ROLLED_BACK, so
  nobody passes the check any more, and whoever had passed it is gone by
  assumption.
* `ActivationIsAuthorized`: approvals may be revoked or expire but are never
  changed otherwise, and hashes and canaries stay, so what a handler verified
  remains true of the row it activates.
* `ActiveIsBounded`: ACTIVE rows and handlers between their two UPDATEs are
  together no more than the threads, by a count over each action
  (`FiniteSetTheorems`).
* `PolicyAlwaysThere`: without a stop there is an ACTIVE row or a handler about
  to make one.
* `PromotionTakesEffect`: without overlap no row is ACTIVE when a handler
  activates its target, so that target is the one selected, whatever handlers
  stopped before.
* `CrossesAtMostOnce`, `BoundaryKept`: `PromiseInv` says that past its INSERT
  one handler owns the row of its message, rows are never rivals, and only an
  owner who has not sent can get to send.
* `EventsAreChained`, `EvidenceComesFirst`: `TrailInv` adds which events an
  owner has written by the time it is at each place.  The events of a request
  go one way, from CREATED over verification and route to the submission, so
  the number of events tells the state; and an owner gets to the boundary with
  three of them only.  A handler that stops leaves its request where it was,
  and since nobody else owns it, it stays there.
* `CycleInvHolds`, `MemoryRestsOnEvidence`, `ContradictionsStayMarked`,
  `FailuresStayOut`, `LossesShow`: `CycleInv` says that each request has one
  handler at most, whose place tells what has been stored, marked and saved for
  it.  The state is held in many places: the row, the snapshots of checkpoints,
  the hands of handlers.  `Copies` says of every one of them that it remembers
  only what is complete and marked, so it does not matter which is written
  back; and that what it misses among the numbers up to its own was saved under
  a number given twice.
* `ApprovalCoversOutcome`, `VerificationExists`, `DatasetsAreSigned`,
  `DerivedFromProven`: one invariant, `ExperienceInv`.  No UPDATE of the loop
  has a condition, so what must be shown is that every copy of a payload on its
  way back is sound.  Only an APPROVED_FOR_LEARNING row carries an approval,
  and a copy carries it together with the status and the outcome that were
  approved; the copies of `observe` write no status but were read from rows
  without an approval, so they may wipe one out and never keep one with another
  outcome.  A verification is never taken back, so what was derived from a
  verified row stays proven even if a stale copy undoes the row's status.
  `TypeOK` needs the invariant too: a dataset names an approval of each member
  only because the members carry one.
* `OutcomesAreFinal`, `EvidenceIsFinal`: who takes a copy takes it from the
  row, and who writes the row writes a copy; once all of them agree on a
  verified outcome (on a reference), a new copy agrees too, for `observe` turns
  away from a verified row and `verify_experience` only adds.
* `CreditIsPaidOnce`: `CreditInv` adds that numbers which have not been given
  name nothing, that no two handlers have one number, and that whoever pays has
  paid exactly the stages it has behind it.
* `RejectionTakesTwo`: `RejectionInv` bounds how far confidence can have fallen
  by the failures among the observations, for rows and for copies alike: a
  stale copy forgets a failure together with the confidence that it took.
* `WorseIsProposed`: `ProposalInv`: a handler whose observation is worse still
  owes the proposal until it has made it or stopped, and whoever is to propose
  has its ground stored.
* `OnlyRivalsLose`: `AccountInv`: two copies of one row belong to rivals; every
  row and every copy accounts for what has been saved, by itself or by a rival;
  and a model has one profile, which tells all that has been returned, as long
  as no two updates of it were rivals.

Three theorems are about behaviours in which handlers do not overlap,
`Spec /\ []OneAtATime => ...`, on any number of threads, and one about changes
of the policy that overlap no other (`PromotionTakesEffect`).

* `SelectedIsLearned` (`ActiveIsLearned`), in which moreover each handler runs
  to its end.  It is about sequences of requests.  An ACTIVE strategy is in the
  learned list or the handler that made it so is on its way to write that list;
  the restorations need that each checkpoint was taken in such a state itself.
* `TaughtIsSigned` (`LearnedIsSigned`) and `DatasetsStayDistinct`
  (`DatasetsDistinct`), wherever handlers stop.  `LoopTold`: the copy of a
  payload that is about to be written has the status and the outcome of its
  row, rows that count as approved carry their approval, and what a training
  run or a consolidation has gathered so far was signed.  The founder signs and
  withdraws at any time, in the middle of a handler too, and so are experiences
  recorded; the invariant bears it, for an approval is never taken away, only
  revoked, and a new row meets no copy.

Assumptions: those of the constants (`GovernanceAssumption`,
`PolicyAssumption`, `GatewayAssumption`, `CycleAssumption`,
`ExperienceAssumption`, `RecordsAssumption`), which TLC evaluates in the runs.

Only model-checked: the liveness properties `EveryChatEnds` and
`EveryRequestDecided`, for the prover knows nothing of fairness.  Every
invariant, action property and refinement of the passing runs is a theorem.
The three refuted properties are shown by TLC's counterexamples.

## What the code does not keep

Three disagreements with the documentation are runs of their own (above, and
`findings` in `PROJECT.json`).  The models have the following behaviours too,
most of them from a check and a write that are two transactions:

* The UPDATE of `_transition_learning` does not repeat the condition it was
  checked for, so two overlapping handlers may take a proposal along a
  transition that is not in the table; and a rejection that overtakes a
  promotion, which has read APPROVED, leaves a record of a rejected proposal
  (`docs/DCML_LEARNING_LIFECYCLE.md:11`: "Rejection creates no behavioral
  record").  `DecisionsStand` begins where such handlers are through.
* A stop between that UPDATE and its event leaves a transition which the audit
  log never shows (`StatusIsLogged` names it); a stop or a refusal by the seal
  between the retags leaves records with an older status than their proposal.
* The cognitive state is written back whole.  Overlapping chats, beliefs and
  activations lose each other's part of it
  (`docs/BRAINSTEM_DCML_ARCHITECTURE.md:21` has the cycle "persist the verified
  state revision"), and on a single thread a restoration forgets every cycle
  and every contradiction since its checkpoint, while experiences, CONFLICTED
  beliefs and evidence stay in their tables.  An activation that overlaps drops
  out of the learned list, and so does one whose handler stops.  All that
  remains is that revision numbers give a loss away (`LossShows`).
* On one thread too, `promote_learning` replaces a strategies row of the same
  id (INSERT OR REPLACE): an ACTIVE strategy becomes PROMOTED, and the learned
  list still names it.  `ActiveIsLearned` therefore asks for one direction only.
* If the event after the UPDATE of the state raises, `chat` logs `model.failed`
  for a cycle that has been committed.  `FailureNotCommitted` is therefore about
  the failure of the instrument, of which the documentation speaks, and about
  answers.  If the message of the answer raises, neither an answer nor a failure
  is recorded.
* A third value of a claim becomes SUPPORTED beside two CONFLICTED ones, on one
  thread, for only SUPPORTED rows are looked at, and so do two contradicting
  beliefs whose `add_belief` overlap, where
  `docs/BRAINSTEM_DCML_ARCHITECTURE.md:27` has "Contradictory values are both
  retained as `CONFLICTED`; neither silently overwrites the other".
  `ContradictionsMarked` speaks of the contradictions that are found and are
  still in the state.
* "Verified experience outcomes are immutable"
  (`brainstem/model/dcml.py:234`): an observation that has read an unverified
  row is written after the row was verified or approved, and changes its
  outcome; training may then learn an outcome nobody signed for.  Of two
  overlapping verifications one may lose its reference.  `OutcomesSettle` and
  `EvidenceSettles` say when that is over.
* `pc_race` refutes `TakesEffect` without its condition: of two overlapping
  promotions the later row wins, not the later request.  `NeverWithoutPolicy`
  fails without its condition on stops: the policy is exchanged by two UPDATEs.
  A stop between lines 507 and 508 of `model/dcml.py` leaves a candidate
  without its training run, and nothing looks for one.
* Overlapping interventions, completions or profile updates write back copies
  that do not know of each other; two first updates of a profile leave two
  rows, of which updates use the first and routes the last.
  `LostOnlyToRivals` says that nothing else is lost.
* A prediction error from `reflect` is proposed from 0.25 on, one from
  `observe_outcome` from anything above 0; `ErrorsAreProposed` takes "worse"
  for observations only.
* A mission may be completed again, and pays again for each completion.  The
  tests have delayed rewards that sum to what one completion reports, which is
  what `CreditIsDue` asks of each.
* `assign_credit` takes an experience and an evaluation without comparing
  them, so `DerivedIsProven` is about the experience of the evaluation.
* The gateway inserts a request and its outbox row in two transactions, so a
  stop in between leaves a request without one; and it looks at the expiry only
  once, on entry, so a request may cross after it has expired.  Exceptions that
  it does not catch leave a row CREATED (`authority.verify`: openssl is missing,
  an `expires_at` has no time zone) or SUBMITTED_TO_PORT_ZERO (`urlopen` before
  it sends, on a port or a header it cannot use; a reply that is not HTTP or
  cannot be decoded) for good: `EveryRequestDecided` exempts them as
  `abandoned`, and nothing resumes them.
* `approve_learning` inserts its approvals row before it looks for the
  proposal, so an unknown id leaves a row behind; the model has the rows of
  known ids only.

## Not modelled

* JSONL ledgers and the founder approval plane: each append reads the last
  hash of the file and adds a line, in a process of its own, with no lock and
  no retry.  Two appends that overlap fork the chain; one at a time they extend
  it, and no reader in the runtime acts on it.  There is nothing between the
  two for a model to find.
* Runtime process: start and stop exchange a pid file through the operating
  system; what the pid in it then names is outside of this code.
* The harness around the seal (contamination, registries, reports): one
  process runs one benchmark after another and appends its results.  The seal
  itself is here, as a refusal at any write; that a write which has passed the
  check may land in the sealed interval is the code's design, see `hazards`.
* The world graph and goals, create_skill, calibrate_dimensions, transfer and
  benchmark records: a single INSERT of what was computed, which no other
  handler reads.  Switching the model of a session: the session row is
  overwritten, and a chat reads it once.
* Key generation and rotation (cryptography), model adapters (wire formats),
  engines, registries and the command line of products (fixed reports, static
  tables), rendering, migrations (idempotent DDL), the tabular trainer's
  arithmetic, the scores of evaluations and routes, backup and restore of the
  file, and the JSONL export of events, which nothing reads back.
