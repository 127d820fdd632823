-------------------------- MODULE PolicyCheckpoints --------------------------
(***************************************************************************)
(* The policy checkpoints of DCMLLearning: training makes candidates, a    *)
(* canary judges one, and a promotion or a rollback signed by the founder  *)
(* (FounderAuthority) makes one the policy that select_strategy() uses.    *)
(*                                                                         *)
(* promote() and rollback_policy() read and check, then change the table   *)
(* with two UPDATEs: the ACTIVE rows are rolled back, then the target is   *)
(* set ACTIVE.  Each UPDATE is a transaction of its own, so other handlers *)
(* may act, and the handler may stop, between the check and the first and  *)
(* between the two.  The checkpoint and canary rows that are read never    *)
(* change afterwards, so the reads are one step with the check of the      *)
(* approval, which may be revoked or expire at any time.                   *)
(***************************************************************************)
EXTENDS Naturals, FiniteSets

CONSTANTS
    Workers,        \* threads that run handlers
    MaxCheckpoint,  \* checkpoints that training may add (a bound)
    Hashes,         \* content hashes of checkpoints
    BaseHash,       \* the one of KPOLICY-BASELINE
    Approvals,      \* ids of signed_approvals (a bound)
    MayCrash        \* may a handler stop between two statements?

ASSUME PolicyAssumption ==
    /\ IsFiniteSet(Workers) /\ Workers # {}
    /\ MaxCheckpoint \in Nat
    /\ BaseHash \in Hashes
    /\ MayCrash \in BOOLEAN

VARIABLES
    status,     \* status of the policy_parameters rows, by order of creation
    hash,       \* and their content_hash
    recorded,   \* the checkpoints that a training_runs row names
    canaries,   \* canary_results: <<checkpoint_hash, passed>>
    approvals,  \* signed_approvals
    task,       \* what each worker is doing
    overlapped, \* have two handlers ever been under way at once?
    stopped     \* has a handler ever stopped half-way?

past == <<overlapped, stopped>>
vars == <<status, hash, recorded, canaries, approvals, task, past>>

Baseline == 0                     \* KPOLICY-BASELINE, the first row
Checkpoints == 0 .. MaxCheckpoint

PolicyStatuses == {"absent", "CANDIDATE", "ACTIVE", "ROLLED_BACK"}
Actions == {"promote", "rollback"}
Unsigned == [decision |-> "none"]
Approval == [action : Actions, checkpoint : Checkpoints, hash : Hashes,
             decision : {"APPROVED", "DENIED"},
             revoked : BOOLEAN, expired : BOOLEAN]
Idle == [pc |-> "idle"]
Tasks == {Idle} \cup [pc : {"record_run"}, c : Checkpoints]
               \cup [pc : {"demote", "activate"}, action : Actions,
                     c : Checkpoints]

\* DCMLLearning.__init__ makes the baseline, which no training run names.
Init == /\ status = [c \in Checkpoints |->
                       IF c = Baseline THEN "ACTIVE" ELSE "absent"]
        /\ hash = [c \in Checkpoints |-> BaseHash]
        /\ recorded = {}
        /\ canaries = {}
        /\ approvals = [a \in Approvals |-> Unsigned]
        /\ task = [w \in Workers |-> Idle]
        /\ overlapped = FALSE /\ stopped = FALSE

IsIdle(w) == task[w].pc = "idle"
AllIdle == \A w \in Workers : IsIdle(w)
Start(w, t) == /\ IsIdle(w)
               /\ task' = [task EXCEPT ![w] = t]
               /\ overlapped' = (overlapped \/ ~AllIdle)
               /\ UNCHANGED stopped
At(w, pc) == task[w].pc = pc
Exists(c) == status[c] # "absent"
Active == {c \in Checkpoints : status[c] = "ACTIVE"}

(***************************************************************************)
(* _parameters(): the ACTIVE row that was created last; with no such row,  *)
(* the zero parameters, which are those of the baseline.                   *)
(***************************************************************************)
Selected == IF Active = {} THEN Baseline
            ELSE CHOOSE c \in Active : \A d \in Active : d <= c

(***************************************************************************)
(* train(): a candidate, then the training run that names it.  The hash is *)
(* of the content: two runs over the same data may give the same one, but  *)
(* never that of the baseline, whose payload has other fields.             *)
(***************************************************************************)
Train(w, h) ==
    /\ h # BaseHash
    /\ \E c \in Checkpoints :
          /\ ~Exists(c)
          /\ \A d \in Checkpoints : d < c => Exists(d)
          /\ status' = [status EXCEPT ![c] = "CANDIDATE"]
          /\ hash' = [hash EXCEPT ![c] = h]
          /\ Start(w, [pc |-> "record_run", c |-> c])
    /\ UNCHANGED <<recorded, canaries, approvals>>

RecordRun(w) ==
    /\ At(w, "record_run")
    /\ recorded' = recorded \cup {task[w].c}
    /\ task' = [task EXCEPT ![w] = Idle]
    /\ UNCHANGED <<status, hash, canaries, approvals, past>>

\* canary(): passed or not is up to the cases and the baseline it is given.
Canary(w, c, passed) ==
    /\ IsIdle(w)
    /\ Exists(c)
    /\ canaries' = canaries \cup {<<hash[c], passed>>}
    /\ UNCHANGED <<status, hash, recorded, approvals, task, past>>

(***************************************************************************)
(* FounderAuthority.  sign() takes the action and the hash it is told; a   *)
(* founder signs the hash of some checkpoint that is there.                *)
(***************************************************************************)
Sign(a, action, c, d, decision) ==
    /\ approvals[a] = Unsigned
    /\ Exists(c) /\ Exists(d)
    /\ approvals' = [approvals EXCEPT ![a] =
          [action |-> action, checkpoint |-> c, hash |-> hash[d],
           decision |-> decision, revoked |-> FALSE, expired |-> FALSE]]
    /\ UNCHANGED <<status, hash, recorded, canaries, task, past>>

Revoke(a) ==
    /\ approvals[a] # Unsigned
    /\ approvals' = [approvals EXCEPT ![a].revoked = TRUE]
    /\ UNCHANGED <<status, hash, recorded, canaries, task, past>>

\* expires_at passes.
Expire(a) ==
    /\ approvals[a] # Unsigned
    /\ approvals' = [approvals EXCEPT ![a].expired = TRUE]
    /\ UNCHANGED <<status, hash, recorded, canaries, task, past>>

\* A slip: the signature is not bound to what it was given for.
VerifyAnyAction(a, action, c) ==
    /\ approvals[a] # Unsigned
    /\ approvals[a].decision = "APPROVED"
    /\ ~approvals[a].revoked /\ ~approvals[a].expired

\* verify() of the approval for "<action>:<c>" and the hash of c.
Verify(a, action, c) ==
    /\ approvals[a] # Unsigned
    /\ approvals[a].decision = "APPROVED"
    /\ approvals[a].action = action /\ approvals[a].checkpoint = c
    /\ approvals[a].hash = hash[c]
    /\ ~approvals[a].revoked /\ ~approvals[a].expired

(***************************************************************************)
(* promote() and rollback_policy(), up to the first UPDATE.  A refused     *)
(* request changes nothing and is no step.  A canary is matched by the     *)
(* hash of what it judged.                                                 *)
(***************************************************************************)
Promote(w, c, a) ==
    /\ Exists(c)
    /\ Verify(a, "promote", c)
    /\ <<hash[c], TRUE>> \in canaries
    /\ Start(w, [pc |-> "demote", action |-> "promote", c |-> c])
    /\ UNCHANGED <<status, hash, recorded, canaries, approvals>>

RollbackPolicy(w, c, a) ==
    /\ Exists(c)
    /\ Verify(a, "rollback", c)
    /\ Start(w, [pc |-> "demote", action |-> "rollback", c |-> c])
    /\ UNCHANGED <<status, hash, recorded, canaries, approvals>>

\* A slip: only the policy in use is rolled back, and only if it is older.
DemoteOlder(w) ==
    /\ At(w, "demote")
    /\ status' = [c \in Checkpoints |->
                    IF c \in Active /\ c <= task[w].c THEN "ROLLED_BACK"
                                                      ELSE status[c]]
    /\ task' = [task EXCEPT ![w].pc = "activate"]
    /\ UNCHANGED <<hash, recorded, canaries, approvals, past>>

\* A slip: a status that no reader knows.
DemoteRetired(w) ==
    /\ At(w, "demote")
    /\ status' = [c \in Checkpoints |->
                    IF c \in Active THEN "RETIRED" ELSE status[c]]
    /\ task' = [task EXCEPT ![w].pc = "activate"]
    /\ UNCHANGED <<hash, recorded, canaries, approvals, past>>

Demote(w) ==
    /\ At(w, "demote")
    /\ status' = [c \in Checkpoints |->
                    IF c \in Active THEN "ROLLED_BACK" ELSE status[c]]
    /\ task' = [task EXCEPT ![w].pc = "activate"]
    /\ UNCHANGED <<hash, recorded, canaries, approvals, past>>

\* A slip: only a candidate is activated.
ActivateCandidate(w) ==
    /\ At(w, "activate")
    /\ status' = IF status[task[w].c] = "CANDIDATE"
                 THEN [status EXCEPT ![task[w].c] = "ACTIVE"]
                 ELSE status
    /\ task' = [task EXCEPT ![w] = Idle]
    /\ UNCHANGED <<hash, recorded, canaries, approvals, past>>

Activate(w) ==
    /\ At(w, "activate")
    /\ status' = [status EXCEPT ![task[w].c] = "ACTIVE"]
    /\ task' = [task EXCEPT ![w] = Idle]
    /\ UNCHANGED <<hash, recorded, canaries, approvals, past>>

\* A handler stops short: its process ends, or a statement raises because
\* the database stays locked.  Nothing repairs the table afterwards.
Crash ==
    /\ MayCrash
    /\ \E w \in Workers : ~IsIdle(w) /\ task' = [task EXCEPT ![w] = Idle]
    /\ stopped' = TRUE
    /\ UNCHANGED <<status, hash, recorded, canaries, approvals, overlapped>>

Request(w) ==
    \/ \E h \in Hashes : Train(w, h)
    \/ \E c \in Checkpoints :
          \/ \E passed \in BOOLEAN : Canary(w, c, passed)
          \/ \E a \in Approvals : Promote(w, c, a) \/ RollbackPolicy(w, c, a)

Step(w) == RecordRun(w) \/ Demote(w) \/ Activate(w)

Founder(a) ==
    \/ \E action \in Actions, c, d \in Checkpoints,
          decision \in {"APPROVED", "DENIED"} : Sign(a, action, c, d, decision)
    \/ Revoke(a) \/ Expire(a)

Next == \/ \E w \in Workers : Request(w) \/ Step(w)
        \/ \E a \in Approvals : Founder(a)
        \/ Crash

Spec == Init /\ [][Next]_vars

-----------------------------------------------------------------------------
TypeOK ==
    /\ status \in [Checkpoints -> PolicyStatuses]
    /\ hash \in [Checkpoints -> Hashes]
    /\ recorded \in SUBSET Checkpoints
    /\ canaries \in SUBSET (Hashes \X BOOLEAN)
    /\ approvals \in [Approvals -> Approval \cup {Unsigned}]
    /\ task \in [Workers -> Tasks]
    /\ overlapped \in BOOLEAN /\ stopped \in BOOLEAN

(***************************************************************************)
(* Whatever overlaps, stops, is revoked or expires: an ACTIVE checkpoint   *)
(* other than the baseline was approved by the founder under its id and    *)
(* its hash, for a rollback, or for a promotion with a canary that passed  *)
(* for that hash (promote, rollback_policy).                               *)
(***************************************************************************)
Signed(action, c) ==
    \E a \in Approvals :
        /\ approvals[a] # Unsigned
        /\ approvals[a].decision = "APPROVED"
        /\ approvals[a].action = action
        /\ approvals[a].checkpoint = c
        /\ approvals[a].hash = hash[c]
Promotable(c) == Signed("promote", c) /\ <<hash[c], TRUE>> \in canaries
Authorized(c) == Promotable(c) \/ Signed("rollback", c)
ActivationAuthorized ==
    \A c \in Active : c # Baseline => Authorized(c)

(***************************************************************************)
(* Handlers that overlap may leave several ACTIVE rows, but at most one    *)
(* for each thread, however many requests come and wherever they stop; a   *)
(* single thread leaves at most one (promote, rollback_policy).            *)
(***************************************************************************)
Activating == {w \in Workers : At(w, "activate")}
ActiveBounded == Cardinality(Active) + Cardinality(Activating)
                    <= Cardinality(Workers)

(***************************************************************************)
(* Unless a handler has stopped half-way there is an ACTIVE policy, except *)
(* between the two UPDATEs of some handler (promote, rollback_policy).     *)
(***************************************************************************)
NeverWithoutPolicy == ~stopped => Active # {} \/ Activating # {}

(***************************************************************************)
(* While handlers run one at a time, whichever of them stopped before and  *)
(* whatever policy it left in use, when promote or rollback_policy ends    *)
(* its target is the policy in use.                                        *)
(***************************************************************************)
TakesEffect ==
    [][\A w \in Workers :
          ~overlapped /\ Activate(w) => Selected' = task[w].c]_vars

(***************************************************************************)
(* What the documentation says of the same code.  "Candidate parameters    *)
(* cannot affect selection until canary success and a signed promotion."   *)
(***************************************************************************)
SelectionWasPromoted == Selected # Baseline => Promotable(Selected)
=============================================================================
