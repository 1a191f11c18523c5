--------------------------- MODULE AssistantStore ---------------------------
(***************************************************************************)
(* The single-node admission store of the assistant                        *)
(* (observatory/assistant_store.py): invitations, users, keys, operator    *)
(* grants, the ledger and the event log in one SQLite database.  Every     *)
(* method runs in one BEGIN IMMEDIATE transaction, so it is one action;    *)
(* reserve reads the clock before it has the write lock, so it is two.     *)
(* Callers are the threads and the connections that share the database.    *)
(***************************************************************************)
EXTENDS Ledger, EventLog

CONSTANTS
    Codes,           \* invitation codes that may be minted
    Keys,            \* personal keys that may be minted
    Callers,         \* threads and connections that may call reserve
    Founders,        \* members and keys of the database when the run begins
    NoUser,          \* no user
    InviteQuotas,    \* quotas an operator may invite with
    DenialCodes,     \* codes the answer handler records for a refused request
    InviteLives,     \* lifetimes of an invitation
    InviteKeep,      \* 1 day in the code: how long an expired invitation is kept
    Estimates,       \* tokens a call may ask to reserve
    Totals,          \* totals the upstream may report
    Endings,         \* outcomes a request may be finished with
    LockWait         \* bound: how long a reserve call waits for the write lock

\* invite refuses a quota without a request or without a token.
Granted == [requests : Nat \ {0}, tokens : Nat \ {0}]

ASSUME StoreAssumption ==
    /\ IsFiniteSet(Founders)
    /\ Founders \subseteq [user : Users, key : Keys, quota : Granted]
    /\ \A f, g \in Founders : f.user = g.user \/ f.key = g.key => f = g
    /\ NoUser \notin Users
    /\ InviteQuotas \subseteq Granted
    /\ DenialCodes \subseteq Denials \cup {"validation", "disabled"}
    /\ InviteLives \subseteq Nat \ {0} /\ InviteKeep \in Nat
    /\ Estimates \subseteq Nat /\ Totals \subseteq Nat /\ Endings \subseteq Outcomes
    /\ LockWait \in Nat

VARIABLES
    clock,       \* time.time()
    invites,     \* invites table: code -> state, expiry, quota
    quota,       \* users table: user -> quota, or no quota before redemption
    keys,        \* keys table: key -> owner and revoked
    grants,      \* operator_grants table
    ledger,      \* ledger table
    issued,      \* request identifiers drawn so far are 1 .. issued
    log,         \* service_events table
    calls,       \* reserve calls that have read the clock and not yet begun
    admissions   \* history: every admission, also of rows since deleted

vars == <<clock, invites, quota, keys, grants, ledger, issued, log, calls, admissions>>

NoQuota == [requests |-> 0, tokens |-> 0]
NoCall  == [user |-> NoUser]

\* A pruned invitation has no row; the state remembers that its code is not minted again.
InviteStates == {"unminted", "open", "redeemed", "pruned"}
Invites == [state : InviteStates, expires : Nat, quota : InviteQuotas \cup {NoQuota}]
KeyRows == [owner : Users \cup {NoUser}, revoked : BOOLEAN]

Events == [created : Instant,
           kind    : RequestKinds \cup {"service_started", "operator_granted",
                                        "operator_revoked"},
           user    : Users \cup {NoUser},
           rid     : Nat,
           code    : Endings \cup DenialCodes \cup {"none"}]

TablesTypeOK ==
    /\ clock \in Instant
    /\ invites \in [Codes -> Invites]
    /\ quota \in [Users -> Quotas]
    /\ keys \in [Keys -> KeyRows]
    /\ grants \subseteq Users
    /\ issued \in Nat
    /\ DOMAIN ledger \subseteq 1 .. issued
    /\ ledger \in [DOMAIN ledger -> Row]
    /\ calls \in [Callers -> ReserveCalls \cup {NoCall}]
    /\ admissions \subseteq [rid : Nat, user : Users, idem : Idems, created : Instant]

TypeOK == TablesTypeOK /\ log \in Seq(Events)

-----------------------------------------------------------------------------
Joined(u) == quota[u] # NoQuota

\* authenticate accepts the key, as its owner.
Live(k) == keys[k].owner # NoUser /\ ~keys[k].revoked

Init ==
    /\ clock = 0
    /\ invites = [c \in Codes |-> [state |-> "unminted", expires |-> 0, quota |-> NoQuota]]
    /\ quota = [u \in Users |->
          IF \E f \in Founders : f.user = u
          THEN (CHOOSE f \in Founders : f.user = u).quota ELSE NoQuota]
    /\ keys = [k \in Keys |->
          [owner   |-> IF \E f \in Founders : f.key = k
                       THEN (CHOOSE f \in Founders : f.key = k).user ELSE NoUser,
           revoked |-> FALSE]]
    /\ grants = {}
    /\ ledger = [r \in {} |-> r]
    /\ issued = 0
    /\ log = <<>>
    /\ calls = [c \in Callers |-> NoCall]
    /\ admissions = {}

\* Time passes, but no call waits for the write lock longer than LockWait.
Tick ==
    /\ clock < Horizon
    /\ \A c \in Callers : calls[c] # NoCall => clock < calls[c].now + LockWait
    /\ clock' = clock + 1
    /\ UNCHANGED <<invites, quota, keys, grants, ledger, issued, log, calls, admissions>>

-----------------------------------------------------------------------------
(***************************************************************************)
(* Invitations, keys and operator grants.                                  *)
(***************************************************************************)
Invite(code, q, life) ==
    /\ invites[code].state = "unminted"
    /\ invites' = [invites EXCEPT ![code] =
          [state |-> "open", expires |-> clock + life, quota |-> q]]
    /\ UNCHANGED <<clock, quota, keys, grants, ledger, issued, log, calls, admissions>>

RevokedKeys(u) ==
    [k \in Keys |-> [keys[k] EXCEPT !.revoked = @ \/ keys[k].owner = u]]

Minted(u) == [owner |-> u, revoked |-> FALSE]

\* uid and key are fresh random values.
Redeem(code, u, k) ==
    /\ invites[code].state = "open"
    /\ invites[code].expires > clock
    /\ ~Joined(u) /\ keys[k].owner = NoUser
    /\ invites' = [invites EXCEPT ![code].state = "redeemed"]
    /\ quota' = [quota EXCEPT ![u] = invites[code].quota]
    /\ keys' = [keys EXCEPT ![k] = Minted(u)]
    /\ UNCHANGED <<clock, grants, ledger, issued, log, calls, admissions>>

Revoke(u) ==
    /\ keys' = RevokedKeys(u)
    /\ UNCHANGED <<clock, invites, quota, grants, ledger, issued, log, calls, admissions>>

\* Seeded fault: the earlier keys keep working.
RotateAdding(u, k) ==
    /\ Joined(u) /\ keys[k].owner = NoUser
    /\ keys' = [keys EXCEPT ![k] = Minted(u)]
    /\ UNCHANGED <<clock, invites, quota, grants, ledger, issued, log, calls, admissions>>

Rotate(u, k) ==
    /\ Joined(u) /\ keys[k].owner = NoUser
    /\ keys' = [RevokedKeys(u) EXCEPT ![k] = Minted(u)]
    /\ UNCHANGED <<clock, invites, quota, grants, ledger, issued, log, calls, admissions>>

SetOperator(u, enabled) ==
    /\ Joined(u)
    /\ grants' = IF enabled THEN grants \cup {u} ELSE grants \ {u}
    /\ log' = Logged(log, Event(clock,
                 IF enabled THEN "operator_granted" ELSE "operator_revoked", u, 0, "none"))
    /\ UNCHANGED <<clock, invites, quota, keys, ledger, issued, calls, admissions>>

-----------------------------------------------------------------------------
(***************************************************************************)
(* reserve: the clock is read, then the transaction runs.  A denial rolls  *)
(* the whole transaction back, the cleanup included.                       *)
(***************************************************************************)
CallReserve(c, u, i, n) ==
    /\ calls[c] = NoCall
    /\ Joined(u)
    /\ calls' = [calls EXCEPT ![c] =
          [user |-> u, quota |-> quota[u], idem |-> i, tokens |-> n, now |-> clock]]
    /\ UNCHANGED <<clock, invites, quota, keys, grants, ledger, issued, log, admissions>>

PruneInvites(now) ==
    [x \in Codes |-> [invites[x] EXCEPT
        !.state = IF @ # "unminted" /\ invites[x].expires + InviteKeep < now
                  THEN "pruned" ELSE @]]

Admit(c) ==
    LET call  == calls[c]
        swept == Swept(ledger, call.now)
        rid   == issued + 1
    IN  /\ call # NoCall
        /\ Verdict(swept, call) = "admitted"
        /\ ledger' = Insert(swept, rid, NewRow(call))
        /\ issued' = rid
        /\ invites' = PruneInvites(call.now)
        /\ log' = Logged(log, Event(clock, "request_admitted", call.user, rid, "none"))
        /\ calls' = [calls EXCEPT ![c] = NoCall]
        /\ admissions' = admissions \cup
              {[rid |-> rid, user |-> call.user, idem |-> call.idem, created |-> call.now]}
        /\ UNCHANGED <<clock, quota, keys, grants>>

Deny(c) ==
    /\ calls[c] # NoCall
    /\ Verdict(Swept(ledger, calls[c].now), calls[c]) \in Denials
    /\ calls' = [calls EXCEPT ![c] = NoCall]
    /\ UNCHANGED <<clock, invites, quota, keys, grants, ledger, issued, log, admissions>>

\* Seeded fault: the UPDATE does not ask for status='running'.
FinishAnyway(rid, status, total) ==
    /\ rid \in DOMAIN ledger
    /\ ledger' = Settle(ledger, rid, status, total)
    /\ log' = Logged(log, Event(clock, "request_finished", ledger[rid].user, rid, status))
    /\ UNCHANGED <<clock, invites, quota, keys, grants, issued, calls, admissions>>

Finish(rid, status, total) ==
    /\ rid \in Running(ledger)
    /\ ledger' = Settle(ledger, rid, status, total)
    /\ log' = Logged(log, Event(clock, "request_finished", ledger[rid].user, rid, status))
    /\ UNCHANGED <<clock, invites, quota, keys, grants, issued, calls, admissions>>

-----------------------------------------------------------------------------
(***************************************************************************)
(* The event log on its own, and the deletion of a member's history.       *)
(***************************************************************************)
RecordDenial(u, code) ==
    /\ Joined(u)
    /\ log' = Logged(log, Event(clock, "request_rejected", u, 0, code))
    /\ UNCHANGED <<clock, invites, quota, keys, grants, ledger, issued, calls, admissions>>

RecordStart ==
    /\ log' = Logged(log, Event(clock, "service_started", NoUser, 0, "none"))
    /\ UNCHANGED <<clock, invites, quota, keys, grants, ledger, issued, calls, admissions>>

DeleteHistory(u) ==
    /\ Joined(u)
    /\ ledger' = ClearMeta(ledger, u)
    /\ log' = Purged(log, u)
    /\ UNCHANGED <<clock, invites, quota, keys, grants, issued, calls, admissions>>

-----------------------------------------------------------------------------
Access ==
    \/ \E code \in Codes, q \in InviteQuotas, life \in InviteLives : Invite(code, q, life)
    \/ \E code \in Codes, u \in Users, k \in Keys : Redeem(code, u, k)
    \/ \E u \in Users : Revoke(u)
    \/ \E u \in Users, k \in Keys : Rotate(u, k)
    \/ \E u \in Users, b \in BOOLEAN : SetOperator(u, b)

Admission ==
    \/ \E c \in Callers, u \in Users, i \in Idems, n \in Estimates : CallReserve(c, u, i, n)
    \/ \E c \in Callers : Admit(c) \/ Deny(c)
    \/ \E r \in DOMAIN ledger, s \in Endings, n \in Totals \cup {Unknown} : Finish(r, s, n)

Audit ==
    \/ \E u \in Users, code \in DenialCodes : RecordDenial(u, code)
    \/ RecordStart
    \/ \E u \in Users : DeleteHistory(u)

Next == Tick \/ Access \/ Admission \/ Audit

Spec == Init /\ [][Next]_vars

\* The same database with only its admission path exercised, for the larger runs.
AdmissionSpec == Init /\ [][Tick \/ Admission]_vars

-----------------------------------------------------------------------------
(***************************************************************************)
(* What the store promises.                                                *)
(***************************************************************************)
\* At most one answer is admitted at a time, whatever the order in which calls
\* that read the clock at different instants get the write lock.
OneRunning == SingleSlot(ledger)

\* A member never has two rows with one idempotency key, so the UNIQUE(user_id,
\* idem) of the table never fails an INSERT that passed the checks.
UniqueIdem == UniqueKeys(ledger)

\* admit and finish: in every order of their commits the tables keep their types, one
\* request runs, and no INSERT meets a key that is taken.
AdmissionSound == TypeOK /\ OneRunning /\ UniqueIdem

\* The request that holds the single slot, and the instant its lease counts from.
Holder == IF Running(ledger) = {} THEN Unknown ELSE CHOOSE r \in Running(ledger) : TRUE
Since  == IF Running(ledger) = {} THEN 0 ELSE ledger[Holder].created

Lease == INSTANCE AdmissionLease
            WITH holder <- Holder, since <- Since, granted <- issued,
                 Term <- 2 * Deadline, MaxAge <- LockWait, None <- Unknown

\* The store implements the lease: a slot is taken over only from a request older
\* than twice the deadline, and given up only by the request that holds it.
ImplementsLease == Lease!LeaseSpec

\* A member has no more rows dated on one UTC day than the daily quota, also when
\* a call dated before midnight commits after one dated behind it.
DailyRequestsKept ==
    \A u \in Users, d \in Instant : Cardinality(RowsOfDay(ledger, u, d)) <= quota[u].requests

\* A day's tokens exceed a member's quota by one answer's excess at most.
DailyTokensKept ==
    \A u \in Users, d \in Instant :
        WithinBudget(ledger, RowsOfDay(ledger, u, d), quota[u].tokens)

\* A calendar month's tokens exceed the service budget by one answer's excess at most.
MonthlyTokensKept ==
    \A m \in Instant : WithinBudget(ledger, RowsOfMonth(ledger, m), MonthlyTokens)

\* No interval of RateWindow holds more than RateLimit admissions of one member,
\* wherever it starts.
RateKept ==
    \A u \in Users, t \in Instant : Cardinality(RowsOfWindow(ledger, u, t)) <= RateLimit

\* reserve: every limit at once, for any order in which the calls commit.
LimitsKept == DailyRequestsKept /\ DailyTokensKept /\ MonthlyTokensKept /\ RateKept

\* An idempotency key admits a second request only when the first is older than
\* the ledger's retention, less the time a call may wait for the write lock.
IdempotencyWindow ==
    \A a, b \in admissions :
        a.user = b.user /\ a.idem = b.idem /\ a.rid < b.rid
            => a.created + LedgerKeep < b.created + LockWait

\* A request leaves "running" once, and its charge moves only in the step that
\* makes it "ok": nothing is refunded and a late finish revives nothing.
SettledOnce ==
    [][\A r \in DOMAIN ledger \cap DOMAIN ledger' :
         /\ ledger'[r].status # ledger[r].status => ledger[r].status = "running"
         /\ ledger'[r].charged # ledger[r].charged
               => ledger[r].status = "running" /\ ledger'[r].status = "ok"]_vars

\* Deleted or pruned metadata of a settled request never comes back.
HistoryStaysDeleted ==
    [][\A r \in DOMAIN ledger \cap DOMAIN ledger' :
         ledger[r].status # "running" /\ ledger'[r].meta => ledger[r].meta]_vars

\* A member never has two working keys, so a rotation disables the earlier ones.
OneLiveKey ==
    \A j, k \in Keys : Live(j) /\ Live(k) /\ keys[j].owner = keys[k].owner => j = k

\* A revoked key stays revoked and a key never changes hands.
RevocationFinal ==
    [][\A k \in Keys : keys[k].owner # NoUser =>
         /\ keys'[k].owner = keys[k].owner
         /\ keys[k].revoked => keys'[k].revoked]_vars

\* delete_history, prune and revoke: what was withdrawn stays withdrawn, a late finish and
\* a rotation in flight included.
WithdrawnForGood == HistoryStaysDeleted /\ RevocationFinal

\* There are never more new members than invitations no longer open, so one
\* invitation admits one person even if its row is pruned and tried again.
OneMemberPerInvite ==
    Cardinality({u \in Users : Joined(u)}) <=
        Cardinality(Founders)
        + Cardinality({c \in Codes : invites[c].state \in {"redeemed", "pruned"}})

\* redeem, rotate and revoke: one working key per member, one member per invitation.
MembershipSound == OneLiveKey /\ OneMemberPerInvite

\* Two recorded denials of a member with one code are CoalesceWindow apart.
DenialsSpaced ==
    \A i, j \in DOMAIN log :
        i < j /\ log[i].kind = "request_rejected" /\ Same(log[i], log[j])
            => log[i].created + CoalesceWindow <= log[j].created

\* The log tells of a request at most its admission and then one end, in this
\* order, whatever was abandoned, finished late, trimmed or deleted between.
OneEndPerRequest ==
    \A i, j \in DOMAIN log :
        i < j /\ log[i].rid = log[j].rid /\ log[i].rid # 0
            => log[i].kind = "request_admitted" /\ log[j].kind = "request_finished"

\* _event: what the log says holds however it is coalesced and trimmed.
LogSound == DenialsSpaced /\ OneEndPerRequest
=============================================================================
