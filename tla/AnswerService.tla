---------------------------- MODULE AnswerService ----------------------------
(***************************************************************************)
(* The answer path of the gateway (observatory/assistant.py) over the      *)
(* durable ledger: authentication in the thread pool, admission on the     *)
(* event loop, the guarded response stream with its upstream stream to the *)
(* model, the deadline, disconnects, a finish that fails, and a crash of   *)
(* the gateway.  One gateway process runs; the operator's command line and *)
(* the threads that serve rotate-key and revoke-key share its database.    *)
(*                                                                         *)
(* prepare calls the store without an await, so the clock it reads and the *)
(* transaction are one step here; AssistantStore separates them.           *)
(***************************************************************************)
EXTENDS Ledger

CONSTANTS
    Requests,      \* HTTP requests
    UserQuota,     \* quota of every member
    Estimate,      \* tokens every admission reserves
    Totals,        \* totals the model may report
    StartDelay,    \* bound: from admission to the call of the model
    LastArrival,   \* bound: the last instant at which a request is admitted
    MaxCrashes,    \* bound: crashes of the gateway
    MaxFaults      \* bound: store.finish calls that raise

ASSUME ServiceAssumption ==
    /\ IsFiniteSet(Requests)
    /\ UserQuota \in Quotas /\ Estimate \in Nat /\ Totals \subseteq Nat
    /\ {StartDelay, LastArrival, MaxCrashes, MaxFaults} \subseteq Nat
    /\ StartDelay <= Deadline
    /\ LastArrival + StartDelay + Deadline < Horizon

VARIABLES
    clock,     \* time.time()
    ledger,    \* ledger table, durable
    issued,    \* request identifiers drawn so far are 1 .. issued
    live,      \* members with a key that is not revoked, durable
    banned,    \* history: members whose keys have been revoked
    reqs,      \* what each request is doing
    gauge,     \* ACTIVE, in the memory of the process
    crashes,   \* crashes so far
    faults     \* store.finish calls that raised so far

vars == <<clock, ledger, issued, live, banned, reqs, gauge, crashes, faults>>

\* created: the response object exists; sources: suspended at the first yield;
\* model: the upstream stream is open; failed: suspended at the yield of the error
\* event; result: suspended at the yield of the result event.
InFlight == {"created", "sources", "model", "failed"}
Phases == {"answer", "rotate", "result", "closed", "lost"} \cup InFlight

\* What a request is doing; one that is not there is Idle.
Request == [phase   : Phases,
            user    : Users,
            idem    : Idems,
            late    : BOOLEAN,              \* arrived after a revocation
            rid     : Nat,                  \* 0 before admission
            since   : Instant,              \* start of its lease, then of its upstream call
            heard   : SUBSET {"text", "finish"},
            total   : Totals \cup {Unknown},
            asked   : BOOLEAN,              \* the model was called
            status  : Outcomes]             \* record["status"]

Idle == [phase |-> "idle"]

TypeOK ==
    /\ clock \in Instant
    /\ issued \in Nat
    /\ ledger \in [DOMAIN ledger -> Row] /\ DOMAIN ledger \subseteq 1 .. issued
    /\ live \subseteq Users /\ banned \subseteq Users
    /\ reqs \in [Requests -> Request \cup {Idle}]
    /\ gauge \in 0 .. Cardinality(Requests)
    /\ crashes \in 0 .. MaxCrashes /\ faults \in 0 .. MaxFaults

Init ==
    /\ clock = 0
    /\ ledger = [r \in {} |-> r]
    /\ issued = 0
    /\ live = Users
    /\ banned = {}
    /\ reqs = [q \in Requests |-> Idle]
    /\ gauge = 0
    /\ crashes = 0
    /\ faults = 0

In(q, phases) == reqs[q].phase \in phases

\* The request after its response: the process keeps nothing of it.  What remains is
\* what the properties ask for.
Over(q, phase) == [reqs[q] EXCEPT !.phase = phase, !.since = IF reqs[q].asked THEN @ ELSE 0,
                                  !.heard = {}, !.total = Unknown, !.status = "cancelled"]

\* The event loop is not late: a response starts within StartDelay of its admission,
\* a deadline fires at its instant and an error event is written in an instant.
Tick ==
    /\ clock < Horizon
    /\ \A q \in Requests :
          /\ In(q, {"created", "sources"}) => clock < reqs[q].since + StartDelay
          /\ In(q, {"model"}) => clock < reqs[q].since + Deadline
          /\ ~In(q, {"failed"})
    /\ clock' = clock + 1
    /\ UNCHANGED <<ledger, issued, live, banned, reqs, gauge, crashes, faults>>

-----------------------------------------------------------------------------
(***************************************************************************)
(* Identity.  A request is authenticated in one transaction and handled in *)
(* another; a revocation or a rotation may come between.                   *)
(***************************************************************************)
Authenticate(q, handler, u, i) ==
    /\ In(q, {"idle"})
    /\ u \in live
    /\ reqs' = [reqs EXCEPT ![q] =
          [phase |-> handler, user |-> u, idem |-> i, late |-> u \in banned,
           rid |-> 0, since |-> 0, heard |-> {}, total |-> Unknown, asked |-> FALSE,
           status |-> "cancelled"]]
    /\ UNCHANGED <<clock, ledger, issued, live, banned, gauge, crashes, faults>>

\* The route revoke-key or the operator's command line.
Revoke(u) ==
    /\ u \in live
    /\ live' = live \ {u}
    /\ banned' = banned \cup {u}
    /\ UNCHANGED <<clock, ledger, issued, reqs, gauge, crashes, faults>>

\* rotate-key mints a key for the member its request was authenticated as.
Rotate(q) ==
    /\ In(q, {"rotate"})
    /\ live' = live \cup {reqs[q].user}
    /\ reqs' = [reqs EXCEPT ![q] = Idle]
    /\ UNCHANGED <<clock, ledger, issued, banned, gauge, crashes, faults>>

-----------------------------------------------------------------------------
(***************************************************************************)
(* prepare.                                                                *)
(***************************************************************************)
Call(q) == [user |-> reqs[q].user, quota |-> UserQuota, idem |-> reqs[q].idem,
            tokens |-> Estimate, now |-> clock]

Admit(q) ==
    LET swept == Swept(ledger, clock)
    IN  /\ In(q, {"answer"})
        /\ clock <= LastArrival
        /\ Verdict(swept, Call(q)) = "admitted"
        /\ ledger' = Insert(swept, issued + 1, NewRow(Call(q)))
        /\ issued' = issued + 1
        /\ reqs' = [reqs EXCEPT ![q].phase = "created", ![q].rid = issued + 1,
                                ![q].since = clock]
        /\ gauge' = gauge + 1
        /\ UNCHANGED <<clock, live, banned, crashes, faults>>

\* Answers disabled, a question without sources or too large, or a denial; the client
\* may try again.
Refuse(q) ==
    /\ In(q, {"answer"})
    /\ reqs' = [reqs EXCEPT ![q] = Idle]
    /\ UNCHANGED <<clock, ledger, issued, live, banned, gauge, crashes, faults>>

-----------------------------------------------------------------------------
(***************************************************************************)
(* finish: at most one call per request does anything.  When store.finish  *)
(* raises, the gauge keeps counting the request, its row stays as it is    *)
(* and the response ends; finalized is set before, so nobody tries again.  *)
(***************************************************************************)
\* Seeded fault: the row is not settled when the client has gone.
SettledUnlessGone(q, status) ==
    IF reqs[q].rid \in Running(ledger) /\ status # "cancelled"
    THEN Settle(ledger, reqs[q].rid, status, reqs[q].total) ELSE ledger

Settled(q, status) ==
    IF reqs[q].rid \in Running(ledger)
    THEN Settle(ledger, reqs[q].rid, status, reqs[q].total) ELSE ledger

Finish(q, status, phase) ==
    /\ \/ /\ ledger' = Settled(q, status)
          /\ gauge' = gauge - 1
          /\ reqs' = [reqs EXCEPT ![q] =
                IF phase = "closed" THEN Over(q, phase)
                ELSE [@ EXCEPT !.phase = phase, !.status = status]]
          /\ UNCHANGED faults
       \/ /\ faults < MaxFaults
          /\ faults' = faults + 1
          /\ reqs' = [reqs EXCEPT ![q] = Over(q, "closed")]
          /\ UNCHANGED <<ledger, gauge>>
    /\ UNCHANGED <<clock, issued, live, banned, crashes>>

-----------------------------------------------------------------------------
(***************************************************************************)
(* The response stream.                                                    *)
(***************************************************************************)
\* The body is iterated and the sources event is yielded.
Start(q) ==
    /\ In(q, {"created"})
    /\ reqs' = [reqs EXCEPT ![q].phase = "sources"]
    /\ UNCHANGED <<clock, ledger, issued, live, banned, gauge, crashes, faults>>

\* The sources event was sent; the deadline is set and the model is called.
CallModel(q) ==
    /\ In(q, {"sources"})
    /\ reqs' = [reqs EXCEPT ![q].phase = "model", ![q].asked = TRUE, ![q].since = clock]
    /\ UNCHANGED <<clock, ledger, issued, live, banned, gauge, crashes, faults>>

\* An event of the upstream stream carries content, a finish reason or the usage.
Hear(q, news, n) ==
    /\ In(q, {"model"})
    /\ reqs' = [reqs EXCEPT ![q].heard = @ \cup news, ![q].total = n]
    /\ UNCHANGED <<clock, ledger, issued, live, banned, gauge, crashes, faults>>

Failed(q, status) ==
    /\ reqs' = [reqs EXCEPT ![q].phase = "failed", ![q].status = status]
    /\ UNCHANGED <<clock, ledger, issued, live, banned, gauge, crashes, faults>>

\* The stream ends: the answer is ok when it has content and a finish reason.
EndOfStream(q) ==
    /\ In(q, {"model"})
    /\ IF reqs[q].heard = {"text", "finish"}
       THEN Finish(q, "ok", "result") ELSE Failed(q, "error")

\* A connection error, a bad status, an error event, a framing or size limit.
ModelFails(q) == In(q, {"model"}) /\ Failed(q, "error")

Timeout(q) ==
    /\ In(q, {"model"})
    /\ clock >= reqs[q].since + Deadline
    /\ Failed(q, "timeout")

\* The error event was sent.
ErrorSent(q) == In(q, {"failed"}) /\ Finish(q, reqs[q].status, "result")

ResultSent(q) ==
    /\ In(q, {"result"})
    /\ reqs' = [reqs EXCEPT ![q] = Over(q, "closed")]
    /\ UNCHANGED <<clock, ledger, issued, live, banned, gauge, crashes, faults>>

\* Seeded fault: without finalized, the generator and the cleanup both finish.
DisconnectTwice(q) ==
    /\ In(q, {"sources", "model"})
    /\ ledger' = Settled(q, "cancelled")
    /\ gauge' = gauge - 2
    /\ reqs' = [reqs EXCEPT ![q] = Over(q, "closed")]
    /\ UNCHANGED <<clock, issued, live, banned, crashes, faults>>

\* The client disconnects: before the body is iterated the cleanup of the response
\* finishes the request, afterwards the generator does; a failure keeps its status.
Disconnect(q) ==
    \/ In(q, {"created", "sources", "model"}) /\ Finish(q, "cancelled", "closed")
    \/ In(q, {"failed"}) /\ Finish(q, reqs[q].status, "closed")
    \/ ResultSent(q)

\* Seeded fault: the restart gives up the rows that still run.
CrashFreeing ==
    /\ crashes < MaxCrashes
    /\ crashes' = crashes + 1
    /\ ledger' = [r \in DOMAIN ledger |->
          [ledger[r] EXCEPT !.status = IF @ = "running" THEN "abandoned" ELSE @]]
    /\ reqs' = [q \in Requests |->
          IF In(q, {"answer", "rotate"}) THEN Idle
          ELSE IF In(q, {"result"} \cup InFlight) THEN Over(q, "lost")
          ELSE reqs[q]]
    /\ gauge' = 0
    /\ UNCHANGED <<clock, issued, live, banned, faults>>

\* The gateway dies with all it has in memory and is started again.
Crash ==
    /\ crashes < MaxCrashes
    /\ crashes' = crashes + 1
    /\ reqs' = [q \in Requests |->
          IF In(q, {"answer", "rotate"}) THEN Idle
          ELSE IF In(q, {"result"} \cup InFlight) THEN Over(q, "lost")
          ELSE reqs[q]]
    /\ gauge' = 0
    /\ UNCHANGED <<clock, ledger, issued, live, banned, faults>>

-----------------------------------------------------------------------------
Identity ==
    \/ \E q \in Requests, h \in {"answer", "rotate"}, u \in Users, i \in Idems :
          Authenticate(q, h, u, i)
    \/ \E u \in Users : Revoke(u)
    \/ \E q \in Requests : Rotate(q)

Model(q) ==
    \/ \E news \in SUBSET {"text", "finish"} : Hear(q, news, reqs[q].total)
    \/ \E n \in Totals \cup {Unknown} : Hear(q, {}, n)
    \/ EndOfStream(q)
    \/ ModelFails(q)

\* What the event loop does for a request once it is admitted.
Progress(q) ==
    \/ Start(q) \/ CallModel(q) \/ Timeout(q) \/ ErrorSent(q) \/ ResultSent(q)

Next ==
    \/ Tick
    \/ Identity
    \/ \E q \in Requests : Admit(q) \/ Refuse(q) \/ Model(q) \/ Progress(q) \/ Disconnect(q)
    \/ Crash

Spec == Init /\ [][Next]_vars

\* The same with no rotation and no revocation, for the liveness property.
AnswerNext ==
    \/ Tick
    \/ \E q \in Requests, u \in Users, i \in Idems : Authenticate(q, "answer", u, i)
    \/ \E q \in Requests : Admit(q) \/ Refuse(q) \/ Model(q) \/ Progress(q) \/ Disconnect(q)
    \/ Crash

AnswerSpec == Init /\ [][AnswerNext]_vars

\* The event loop serves every response, and time passes; the model may stay silent.
FairSpec == AnswerSpec /\ WF_vars(Tick) /\ \A q \in Requests : WF_vars(Progress(q))

-----------------------------------------------------------------------------
(***************************************************************************)
(* What the service promises.                                              *)
(***************************************************************************)
\* The model serves one answer at a time, also after a crash, when the row of the lost
\* request has the slot until its lease is over: no lease ends while its request is
\* alive, as long as the model is called within StartDelay of the admission.
OneUpstream == \A p, q \in Requests : In(p, {"model"}) /\ In(q, {"model"}) => p = q

\* The row that has the slot, and the instant its lease counts from.
Holder == IF Running(ledger) = {} THEN Unknown ELSE CHOOSE r \in Running(ledger) : TRUE
Since  == IF Running(ledger) = {} THEN 0 ELSE ledger[Holder].created

Lease == INSTANCE AdmissionLease
            WITH holder <- Holder, since <- Since, granted <- issued,
                 Term <- 2 * Deadline, MaxAge <- 0, None <- Unknown

\* The service implements the lease: one request has the slot, and another takes it over
\* only when it was given up or twice the deadline is past.
HoldsLease == Lease!LeaseSpec

\* A row stops running early only because its own request is done with it: a crash, a
\* finish that raises, a revocation and the requests of others leave it until its lease is
\* over, when the next admission abandons it.
SlotKept ==
    [][\A r \in Running(ledger) \ Running(ledger') :
          \/ \E q \in Requests : reqs[q].phase \in InFlight /\ reqs[q].rid = r
                                /\ reqs'[q].phase \in {"result", "closed"} /\ faults' = faults
          \/ ledger[r].created + 2 * Deadline < clock /\ issued' = issued + 1]_vars

\* A retried request with the same key does not make the model work twice, whatever
\* became of the first: answered, cancelled, failed, or lost with the gateway.  Only
\* when the ledger's retention is over between the two may it.
InferenceOnce ==
    \A p, q \in Requests \ {r \in Requests : In(r, {"idle"})} :
        /\ p # q /\ reqs[p].asked /\ reqs[q].asked
        /\ reqs[p].user = reqs[q].user /\ reqs[p].idem = reqs[q].idem
        /\ reqs[p].since <= reqs[q].since
        => reqs[p].since + LedgerKeep < reqs[q].since + StartDelay

\* A client that is about to read a result has a ledger row with the outcome it
\* reads, charged the total the model reported, if it is ok and reported one, unless
\* it is so slow that the row is too old to be kept; the ledger and every request keep
\* their types on the way.
ResultMatchesLedger ==
    /\ TypeOK
    /\ \A q \in Requests :
          In(q, {"result"}) /\ clock + StartDelay <= reqs[q].since + LedgerKeep =>
             LET row == ledger[reqs[q].rid]
             IN  /\ reqs[q].rid \in DOMAIN ledger
                 /\ row.status = reqs[q].status
                 /\ row.charged = IF row.status = "ok" /\ reqs[q].total # Unknown
                                  THEN reqs[q].total ELSE Estimate

\* The gauge counts the requests in flight and, for the life of the process, those
\* whose finish raised.
GaugeCounts ==
    LET flying == {q \in Requests : In(q, InFlight)}
    IN  Cardinality(flying) <= gauge /\ gauge <= Cardinality(flying) + faults

\* Every admitted request leaves the slot: its row stops running unless the gateway
\* crashed or a finish raised, silent model and vanished client included.
SlotReleased ==
    \A q \in Requests : In(q, InFlight) ~>
        \/ In(q, {"lost"})
        \/ faults > 0
        \/ In(q, {"result", "closed"}) /\ reqs[q].rid \notin Running(ledger)

\* A request that arrives after its member's keys were revoked is not admitted.
RevocationBlocks ==
    \A q \in Requests : ~In(q, {"idle"}) /\ reqs[q].late => reqs[q].rid = 0
=============================================================================
