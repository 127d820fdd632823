--------------------------- MODULE PortZeroGateway ---------------------------
(***************************************************************************)
(* PortZeroGateway.submit: the only way a request leaves BRAINSTEM.        *)
(*                                                                         *)
(* The handler looks for an earlier request with the same request id or    *)
(* idempotency key, inserts the request and its outbox row, checks source, *)
(* authorization and route, and posts.  Every statement is a transaction   *)
(* of its own; a state change is an INSERT of its event, then an UPDATE of *)
(* the row.  Handlers run on several threads, a handler may stop, and      *)
(* nothing resumes a request that was left behind.                         *)
(***************************************************************************)
EXTENDS Naturals, Sequences

CONSTANTS
    Workers,       \* threads that run handlers
    Messages,      \* requests a caller may submit, by their content
    Ids,           \* request ids
    IdOf,          \* the request id of each message
    KeyOf,         \* its idempotency key
    External,      \* messages whose source is not the protected client
    MayCrash       \* may a handler stop between two statements?

ASSUME GatewayAssumption ==
    /\ IdOf \in [Messages -> Ids]
    /\ DOMAIN KeyOf = Messages
    /\ External \subseteq Messages
    /\ MayCrash \in BOOLEAN

VARIABLES
    requests,    \* strata_boundary_requests, by request id
    outbox,      \* the ids that have a row in strata_boundary_outbox
    events,      \* strata_boundary_events of each id: prior and new state
    valid,       \* messages whose authorization verifies now
    everSigned,  \* those it ever verified for
    posted,      \* how often each message has reached Port Zero
    abandoned,   \* messages whose handler left a row behind without a verdict
    task         \* what each worker is doing

rows == <<requests, outbox, events>>
founder == <<valid, everSigned>>
vars == <<requests, outbox, events, valid, everSigned, posted, abandoned, task>>

\* BoundaryState, as far as submit uses it.
States == {"CREATED", "IDENTITY_VERIFIED", "ROUTE_AUTHORIZED",
           "SUBMITTED_TO_PORT_ZERO", "PORT_REPORTED", "FAILED", "BLOCKED"}
Settled == {"PORT_REPORTED", "FAILED", "BLOCKED"}

Absent == [state |-> "absent"]
Request == [message : Messages, state : States, response : BOOLEAN]
Transition == [prior : States, new : States]
Idle == [pc |-> "idle"]
Task == [pc : {"insert", "outbox", "check", "route", "send", "await",
               "respond"},
         m : Messages]
MoveTask == [pc : {"log", "update"}, m : Messages,
             prior : States, new : States]

Init == /\ requests = [i \in Ids |-> Absent]
        /\ outbox = {}
        /\ events = [i \in Ids |-> <<>>]
        /\ valid = {}
        /\ everSigned = {}
        /\ posted = [m \in Messages |-> 0]
        /\ abandoned = {}
        /\ task = [w \in Workers |-> Idle]

At(w, pc) == task[w].pc = pc
IsIdle(w) == At(w, "idle")
IdAt(w) == IdOf[task[w].m]
Goto(w, pc) == task' = [task EXCEPT ![w] = [pc |-> pc, m |-> @.m]]
Finish(w) == task' = [task EXCEPT ![w] = Idle]
\* An exception that submit neither catches nor raises itself, or the end of
\* the process.
Abandon(w) == Finish(w) /\ abandoned' = abandoned \cup {task[w].m}
\* _transition: log the event, then update the row.
Move(w, prior, new) ==
    task' = [task EXCEPT ![w] =
               [pc |-> "log", m |-> @.m, prior |-> prior, new |-> new]]

Exists(i) == requests[i] # Absent
SameKey(m, n) == KeyOf[m] = KeyOf[n]
Rivals(m, n) == IdOf[m] = IdOf[n] \/ SameKey(m, n)

\* A request with the same request id or idempotency key is there.
Taken(m) == \E i \in Ids : Exists(i) /\ Rivals(requests[i].message, m)

(***************************************************************************)
(* The founder signs the action strata:<request id>:<payload hash>; the    *)
(* signature may be revoked or expire.                                     *)
(***************************************************************************)
SignFor(m) ==
    /\ m \notin everSigned
    /\ valid' = valid \cup {m}
    /\ everSigned' = everSigned \cup {m}
    /\ UNCHANGED <<rows, posted, abandoned, task>>

Withdraw(m) ==
    /\ m \in valid
    /\ valid' = valid \ {m}
    /\ UNCHANGED <<rows, everSigned, posted, abandoned, task>>

(***************************************************************************)
(* submit.  A request that has expired or is a duplicate is refused at     *)
(* once and is no step; that its caller may or may not send it stands for  *)
(* the expiry.  One that loses the race for its id or key fails on the     *)
(* constraints of the table when it is inserted.                           *)
(***************************************************************************)
Submit(w, m) ==
    /\ IsIdle(w)
    /\ ~Taken(m)
    /\ task' = [task EXCEPT ![w] = [pc |-> "insert", m |-> m]]
    /\ UNCHANGED <<rows, founder, posted, abandoned>>

Insert(w) ==
    /\ At(w, "insert")
    /\ IF Taken(task[w].m)
       THEN Finish(w) /\ UNCHANGED requests
       ELSE /\ requests' = [requests EXCEPT ![IdAt(w)] =
                              [message |-> task[w].m, state |-> "CREATED",
                               response |-> FALSE]]
            /\ Goto(w, "outbox")
    /\ UNCHANGED <<outbox, events, founder, posted, abandoned>>

WriteOutbox(w) ==
    /\ At(w, "outbox")
    /\ outbox' = outbox \cup {IdAt(w)}
    /\ Goto(w, "check")
    /\ UNCHANGED <<requests, events, founder, posted, abandoned>>

\* A slip: an approval by policy is recorded as a state of its own.
PolicyCheck(w) ==
    /\ At(w, "check")
    /\ IF task[w].m \in valid \ External
       THEN Move(w, "CREATED", "POLICY_APPROVED")
       ELSE Move(w, "CREATED", "BLOCKED")
    /\ UNCHANGED <<rows, founder, posted, abandoned>>

\* The source first, then the authorization.  verify may raise: openssl is
\* missing, or the expires_at of the approval has no time zone.
Check(w) ==
    /\ At(w, "check")
    /\ \/ /\ IF task[w].m \in valid \ External
             THEN Move(w, "CREATED", "IDENTITY_VERIFIED")
             ELSE Move(w, "CREATED", "BLOCKED")
          /\ UNCHANGED abandoned
       \/ task[w].m \notin External /\ Abandon(w)
    /\ UNCHANGED <<rows, founder, posted>>

LogTransition(w) ==
    /\ At(w, "log")
    /\ events' = [events EXCEPT ![IdAt(w)] =
          Append(@, [prior |-> task[w].prior, new |-> task[w].new])]
    /\ task' = [task EXCEPT ![w].pc = "update"]
    /\ UNCHANGED <<requests, outbox, founder, posted, abandoned>>

(***************************************************************************)
(* The UPDATE, and what submit does next.                                  *)
(***************************************************************************)

\* A slip: the request is sent as soon as its route is authorised.
SendAtOnce(w) ==
    CASE task[w].new = "IDENTITY_VERIFIED" -> Goto(w, "route")
      [] task[w].new = "ROUTE_AUTHORIZED" -> Goto(w, "send")
      [] task[w].new = "PORT_REPORTED" -> Goto(w, "respond")
      [] OTHER -> Finish(w)

After(w) ==
    CASE task[w].new = "IDENTITY_VERIFIED" -> Goto(w, "route")
      [] task[w].new = "ROUTE_AUTHORIZED" ->
            Move(w, "ROUTE_AUTHORIZED", "SUBMITTED_TO_PORT_ZERO")
      [] task[w].new = "SUBMITTED_TO_PORT_ZERO" -> Goto(w, "send")
      [] task[w].new = "PORT_REPORTED" -> Goto(w, "respond")
      [] OTHER -> Finish(w)

UpdateState(w) ==
    /\ At(w, "update")
    /\ requests' = [requests EXCEPT ![IdAt(w)].state = task[w].new]
    /\ After(w)
    /\ UNCHANGED <<outbox, events, founder, posted, abandoned>>

\* The configuration may be missing or not HTTPS, or the certificates unusable.
Route(w) ==
    /\ At(w, "route")
    /\ \E new \in {"BLOCKED", "FAILED", "ROUTE_AUTHORIZED"} :
          Move(w, "IDENTITY_VERIFIED", new)
    /\ UNCHANGED <<rows, founder, posted, abandoned>>

(***************************************************************************)
(* The POST reaches Port Zero or is lost on the way; or urlopen raises     *)
(* before it sends anything, on an URL or a header it cannot use, and      *)
(* submit does not catch that.                                             *)
(***************************************************************************)
Send(w) ==
    /\ At(w, "send")
    /\ \/ /\ \/ posted' = [posted EXCEPT ![task[w].m] = @ + 1]
             \/ UNCHANGED posted
          /\ Goto(w, "await")
          /\ UNCHANGED abandoned
       \/ Abandon(w) /\ UNCHANGED posted
    /\ UNCHANGED <<rows, founder>>

\* A slip: a lost connection is tried again.
ResendOnFailure(w) ==
    /\ At(w, "await")
    /\ \/ posted[task[w].m] > 0
          /\ Move(w, "SUBMITTED_TO_PORT_ZERO", "PORT_REPORTED")
       \/ Move(w, "SUBMITTED_TO_PORT_ZERO", "FAILED")
       \/ Goto(w, "send")
    /\ UNCHANGED <<rows, founder, posted, abandoned>>

\* A slip: the failure is logged as one of the state before the submission.
FailFromRoute(w) ==
    /\ At(w, "await")
    /\ \/ posted[task[w].m] > 0
          /\ Move(w, "SUBMITTED_TO_PORT_ZERO", "PORT_REPORTED")
       \/ Move(w, "ROUTE_AUTHORIZED", "FAILED")
    /\ UNCHANGED <<rows, founder, posted, abandoned>>

\* A slip: urlopen without its timeout waits for ever for an answer to a
\* request that was lost.
WaitForAnswer(w) ==
    /\ At(w, "await")
    /\ posted[task[w].m] > 0
    /\ \E new \in {"PORT_REPORTED", "FAILED"} :
          Move(w, "SUBMITTED_TO_PORT_ZERO", new)
    /\ UNCHANGED <<rows, founder, posted, abandoned>>

(***************************************************************************)
(* A reply that fits the request; a time-out, a lost connection or a reply *)
(* that does not fit; or a reply that is not HTTP or cannot be decoded,    *)
(* whose exception submit does not catch.                                  *)
(***************************************************************************)
Receive(w) ==
    /\ At(w, "await")
    /\ \/ /\ \/ posted[task[w].m] > 0
                /\ Move(w, "SUBMITTED_TO_PORT_ZERO", "PORT_REPORTED")
             \/ Move(w, "SUBMITTED_TO_PORT_ZERO", "FAILED")
          /\ UNCHANGED abandoned
       \/ posted[task[w].m] > 0 /\ Abandon(w)
    /\ UNCHANGED <<rows, founder, posted>>

StoreResponse(w) ==
    /\ At(w, "respond")
    /\ requests' = [requests EXCEPT ![IdAt(w)].response = TRUE]
    /\ Finish(w)
    /\ UNCHANGED <<outbox, events, founder, posted, abandoned>>

\* A handler stops short: its process ends, or a statement raises because
\* the database stays locked.  The rows stay as they are.
Crash ==
    /\ MayCrash
    /\ \E w \in Workers :
          \/ At(w, "insert") /\ Finish(w) /\ UNCHANGED abandoned
          \/ task[w].pc \notin {"idle", "insert"} /\ Abandon(w)
    /\ UNCHANGED <<rows, founder, posted>>

Step(w) == \/ Insert(w) \/ WriteOutbox(w) \/ Check(w) \/ LogTransition(w)
           \/ UpdateState(w) \/ Route(w) \/ Send(w) \/ Receive(w)
           \/ StoreResponse(w)

Environment(m) == SignFor(m) \/ Withdraw(m)

Next == \/ \E w \in Workers : Step(w) \/ \E m \in Messages : Submit(w, m)
        \/ \E m \in Messages : Environment(m)
        \/ Crash

Spec == Init /\ [][Next]_vars

(***************************************************************************)
(* A handler that runs gets on: statements return, and urlopen has a       *)
(* timeout of 20 seconds.  Nothing forces a caller to submit.              *)
(***************************************************************************)
FairSpec == Spec /\ \A w \in Workers : WF_vars(Step(w))

-----------------------------------------------------------------------------
TypeOK ==
    /\ requests \in [Ids -> Request \cup {Absent}]
    /\ outbox \in SUBSET Ids
    /\ events \in [Ids -> Seq(Transition)]
    /\ valid \in SUBSET Messages
    /\ everSigned \in SUBSET Messages
    /\ posted \in [Messages -> Nat]
    /\ abandoned \in SUBSET Messages
    /\ task \in [Workers -> {Idle} \cup Task \cup MoveTask]

(***************************************************************************)
(* However often a request is submitted, concurrently or after a crash:    *)
(* of all messages that share a request id or an idempotency key at most   *)
(* one reaches Port Zero, and that one once (submit).                      *)
(***************************************************************************)
AtMostOnce ==
    \A m, n \in Messages :
        posted[m] > 0 /\ posted[n] > 0 /\ Rivals(m, n)
            => m = n /\ posted[m] = 1

(***************************************************************************)
(* What crossed left its evidence first: when a message has reached Port   *)
(* Zero its row holds this message, its outbox row is there, and its       *)
(* events tell of the verification, the route and the submission, in that  *)
(* order (submit, _transition).                                            *)
(***************************************************************************)
Approach == <<"IDENTITY_VERIFIED", "ROUTE_AUTHORIZED",
              "SUBMITTED_TO_PORT_ZERO">>
Reached(i) == [k \in DOMAIN events[i] |-> events[i][k].new]
EvidenceFirst ==
    \A m \in Messages :
        posted[m] > 0 =>
            LET i == IdOf[m] IN
            /\ Exists(i) /\ requests[i].message = m
            /\ i \in outbox
            /\ Len(events[i]) >= 3
            /\ SubSeq(Reached(i), 1, 3) = Approach
            /\ m \in everSigned \ External

(***************************************************************************)
(* The events of a request are one chain from CREATED, and the state of    *)
(* its row is where the chain ends, or one transition behind it, also      *)
(* after a crash between the two statements of _transition.                *)
(***************************************************************************)
Chained(i) ==
    \A k \in DOMAIN events[i] :
        events[i][k].prior = IF k = 1 THEN "CREATED" ELSE events[i][k - 1].new
StateFollows(i) ==
    LET n == Len(events[i]) IN
    IF n = 0 THEN requests[i].state = "CREATED"
    ELSE requests[i].state \in {events[i][n].prior, events[i][n].new}
AuditChain == \A i \in Ids : Exists(i) => Chained(i) /\ StateFollows(i)

(***************************************************************************)
(* A request that was admitted is not left hanging: its row settles as     *)
(* BLOCKED, FAILED or PORT_REPORTED unless its handler stopped or ended in *)
(* an exception of its own, which the caller sees; nothing waits for ever  *)
(* for a verification, a route or an answer (submit).                      *)
(***************************************************************************)
Decided(i) ==
    Exists(i) /\ (\/ requests[i].state \in Settled
                  \/ requests[i].message \in abandoned)
EveryRequestDecided == \A i \in Ids : Exists(i) ~> Decided(i)

(***************************************************************************)
(* The gateway implements the promise of BoundaryPromise.                  *)
(***************************************************************************)
Promise == INSTANCE BoundaryPromise WITH
              signed    <- everSigned,
              crossings <- posted,
              reported  <- {m \in Messages :
                              /\ Exists(IdOf[m])
                              /\ requests[IdOf[m]].message = m
                              /\ requests[IdOf[m]].state = "PORT_REPORTED"}
KeepsPromise == Promise!BSpec

(***************************************************************************)
(* Why the promise is kept: the inductive invariant.  Past its INSERT a    *)
(* handler owns the row of its message alone, rows are never rivals of one *)
(* another, and of the handlers only an owner that has not sent yet can    *)
(* get to send, with a message whose authorization it has verified.        *)
(***************************************************************************)
Onward == {"IDENTITY_VERIFIED", "ROUTE_AUTHORIZED", "SUBMITTED_TO_PORT_ZERO"}
Moving(w, news) == task[w].pc \in {"log", "update"} /\ task[w].new \in news
Owns(w) == task[w].pc \notin {"idle", "insert"}
Cleared(w) == task[w].pc \in {"route", "send"} \/ Moving(w, Onward)
MaySend(w) == task[w].pc \in {"outbox", "check"} \/ Cleared(w)
Reporting(w) == Moving(w, {"PORT_REPORTED"})
Holds(m) == Exists(IdOf[m]) /\ requests[IdOf[m]].message = m

Owned == /\ \A w \in Workers : Owns(w) => Holds(task[w].m)
         /\ \A v, w \in Workers :
               Owns(v) /\ Owns(w) /\ task[v].m = task[w].m => v = w
RowsApart ==
    \A i, j \in Ids :
        Exists(i) /\ Exists(j) =>
            /\ IdOf[requests[i].message] = i
            /\ Rivals(requests[i].message, requests[j].message) => i = j
SentOnce == \A m \in Messages :
               posted[m] # 0 => posted[m] = 1 /\ Holds(m)
Duties == \A w \in Workers :
             /\ MaySend(w) => posted[task[w].m] = 0
             /\ Cleared(w) => task[w].m \in everSigned
             /\ Reporting(w) => posted[task[w].m] # 0
Reports == \A i \in Ids :
              Exists(i) /\ requests[i].state = "PORT_REPORTED"
                 => posted[requests[i].message] # 0
GatewayInv == /\ Owned /\ RowsApart /\ SentOnce /\ Duties /\ Reports
              /\ valid \subseteq everSigned

\* Only a handler that has its answer still to store owns a reported row.
Unreported ==
    \A w \in Workers :
        Owns(w) /\ ~At(w, "respond")
            => requests[IdAt(w)].state # "PORT_REPORTED"
PromiseInv == GatewayInv /\ Unreported

(***************************************************************************)
(* Why the events are a chain that tells what crossed: they go along the   *)
(* way that every request goes, and only the last one may leave it; where  *)
(* a handler is tells how far the events and the row of its message are.   *)
(***************************************************************************)
Way(n) == CASE n = 0 -> "CREATED"
            [] n = 1 -> "IDENTITY_VERIFIED"
            [] n = 2 -> "ROUTE_AUTHORIZED"
            [] n = 3 -> "SUBMITTED_TO_PORT_ZERO"
            [] OTHER -> "settled"
OnWay(i) ==
    \A k \in 1 .. Len(events[i]) :
       /\ k <= 4
       /\ events[i][k].prior = Way(k - 1)
       /\ k < Len(events[i]) => events[i][k].new = Way(k)
Behind(i) == requests[i].state = Way(Len(events[i]))
Crossed(i) == Len(events[i]) >= 3 /\ events[i][3].new = Way(3)
Leads(w) ==
    LET i == IdAt(w)
        n == Len(events[i])
        t == task[w]
    IN  /\ t.pc \in {"outbox", "check"} => n = 0 /\ Behind(i)
        /\ t.pc = "route" => n = 1 /\ events[i][1].new = Way(1) /\ Behind(i)
        /\ t.pc \in {"send", "await"} => n = 3 /\ Crossed(i) /\ Behind(i)
        /\ t.pc = "log" =>
              /\ n < 4 /\ (n > 0 => events[i][n].new = Way(n)) /\ Behind(i)
              /\ t.prior = Way(n)
              /\ t.new \in Onward => t.new = Way(n + 1)
        /\ t.pc = "update" =>
              /\ n > 0 /\ events[i][n].new = t.new
              /\ t.new \in Onward => t.new = Way(n)
        /\ Owns(w) /\ t.pc # "outbox" => i \in outbox
        /\ Cleared(w) => t.m \notin External
Trail == /\ \A i \in Ids : ~Exists(i) => events[i] = <<>>
         /\ \A i \in Ids : Exists(i) => OnWay(i) /\ StateFollows(i)
         /\ \A w \in Workers : Leads(w)
         /\ \A m \in Messages : posted[m] # 0 =>
               /\ Crossed(IdOf[m]) /\ IdOf[m] \in outbox /\ m \notin External
               /\ m \in everSigned
TrailInv == GatewayInv /\ Trail
=============================================================================
