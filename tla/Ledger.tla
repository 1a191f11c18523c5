------------------------------- MODULE Ledger -------------------------------
(***************************************************************************)
(* The ledger table of the assistant and the statements that               *)
(* AssistantStore.reserve and AssistantStore.finish run on it              *)
(* (observatory/assistant_store.py).  A ledger is a function from the      *)
(* request identifiers it has a row for to their rows.  The operators are  *)
(* pure; AssistantStore and AnswerService apply them to their state.       *)
(***************************************************************************)
EXTENDS Naturals, FiniteSets

CONSTANTS
    Users,           \* user identifiers
    Idems,           \* Idempotency-Key values
    Unknown,         \* a usage total the upstream did not report
    Horizon,         \* bound: the last instant of the clock
    DayStart(_),     \* the UTC midnight before an instant
    MonthStart(_),   \* the start of its UTC calendar month
    RateWindow,      \* 60 seconds in the code
    RateLimit,       \* 6 admissions in the code
    Deadline,        \* settings.deadline
    MetaKeep,        \* 7 days in the code
    LedgerKeep,      \* 90 days in the code
    MonthlyTokens    \* settings.monthly_tokens

Instant == 0 .. Horizon

ASSUME LedgerAssumption ==
    /\ Horizon \in Nat
    /\ {RateWindow, RateLimit, Deadline, MetaKeep, LedgerKeep, MonthlyTokens}
          \subseteq Nat
    /\ RateLimit > 0
    /\ 2 * Deadline <= LedgerKeep
    /\ Unknown \notin Nat

ASSUME CalendarAssumption ==
    \A t \in Instant :
        /\ DayStart(t) \in Nat /\ DayStart(t) <= t
        /\ MonthStart(t) \in Nat /\ MonthStart(t) <= t

Outcomes == {"ok", "error", "timeout", "cancelled"}
Statuses == Outcomes \cup {"running", "abandoned"}
Quotas   == [requests : Nat, tokens : Nat]

Row == [user    : Users,
        idem    : Idems,
        created : Instant,
        status  : Statuses,
        charged : Nat,
        meta    : BOOLEAN]      \* metadata IS NOT NULL

\* The arguments of one reserve call; now is read before the transaction begins.
ReserveCalls == [user   : Users,
                 quota  : Quotas,
                 idem   : Idems,
                 tokens : Nat,
                 now    : Instant]

-----------------------------------------------------------------------------
(***************************************************************************)
(* Sets of rows and the tokens they hold.  A row charged n holds the n     *)
(* tokens <<r, 1>> .. <<r, n>>, so SUM(charged) is a cardinality.          *)
(***************************************************************************)
Running(L) == {r \in DOMAIN L : L[r].status = "running"}

RowsFrom(L, u, t) == {r \in DOMAIN L : L[r].user = u /\ L[r].created >= t}

AllFrom(L, t) == {r \in DOMAIN L : L[r].created >= t}

TokenSet(L, S) == UNION {{r} \X (1 .. L[r].charged) : r \in S}

Charged(L, S) == Cardinality(TokenSet(L, S))

-----------------------------------------------------------------------------
(***************************************************************************)
(* The cleanup at the head of the transaction: reservations older than     *)
(* twice the deadline are abandoned, old metadata is cleared, old rows go. *)
(***************************************************************************)
\* Seeded fault: the lease ends with the deadline instead of twice the deadline.
LapsedEarly(row, now) == row.status = "running" /\ row.created + Deadline < now

Lapsed(row, now) == row.status = "running" /\ row.created + 2 * Deadline < now

\* Seeded fault: rows are deleted when their metadata is cleared.
KeptBriefly(L, now) == {r \in DOMAIN L : L[r].created + MetaKeep >= now}

Kept(L, now) == {r \in DOMAIN L : L[r].created + LedgerKeep >= now}

Swept(L, now) ==
    [r \in Kept(L, now) |->
        [L[r] EXCEPT !.status = IF Lapsed(L[r], now) THEN "abandoned" ELSE @,
                     !.meta   = @ /\ L[r].created + MetaKeep >= now]]

-----------------------------------------------------------------------------
(***************************************************************************)
(* The checks of reserve, in the order of the code, on a swept ledger.     *)
(***************************************************************************)
\* Seeded fault: only a request that still runs is a duplicate.
DuplicateRunning(L, c) ==
    \E r \in Running(L) : L[r].user = c.user /\ L[r].idem = c.idem

Duplicate(L, c) == \E r \in DOMAIN L : L[r].user = c.user /\ L[r].idem = c.idem

OverDailyRequests(L, c) ==
    Cardinality(RowsFrom(L, c.user, DayStart(c.now))) >= c.quota.requests

OverDailyTokens(L, c) ==
    Charged(L, RowsFrom(L, c.user, DayStart(c.now))) + c.tokens > c.quota.tokens

\* Seeded fault: the service budget is counted per member.
OverMonthlyTokensOwn(L, c) ==
    Charged(L, RowsFrom(L, c.user, MonthStart(c.now))) + c.tokens > MonthlyTokens

OverMonthlyTokens(L, c) ==
    Charged(L, AllFrom(L, MonthStart(c.now))) + c.tokens > MonthlyTokens

Recent(L, c) == {r \in DOMAIN L : L[r].user = c.user /\ L[r].created + RateWindow > c.now}

OverRate(L, c) == Cardinality(Recent(L, c)) >= RateLimit

\* Seeded fault: a second running row is let in.
BusyBeyondOne(L) == Cardinality(Running(L)) > 1

Busy(L) == Running(L) # {}

Verdict(L, c) ==
    IF Duplicate(L, c) THEN "duplicate_request"
    ELSE IF OverDailyRequests(L, c) THEN "daily_requests"
    ELSE IF OverDailyTokens(L, c) THEN "daily_tokens"
    ELSE IF OverMonthlyTokens(L, c) THEN "monthly_tokens"
    ELSE IF OverRate(L, c) THEN "rate_limit"
    ELSE IF Busy(L) THEN "capacity"
    ELSE "admitted"

Denials == {"duplicate_request", "daily_requests", "daily_tokens",
            "monthly_tokens", "rate_limit", "capacity"}

-----------------------------------------------------------------------------
(***************************************************************************)
(* The two writes: the row a successful reserve inserts, and the UPDATE of *)
(* finish, which touches a running row only and charges the reported total *)
(* only when the answer is ok and the total is known.                      *)
(***************************************************************************)
NewRow(c) == [user |-> c.user, idem |-> c.idem, created |-> c.now,
              status |-> "running", charged |-> c.tokens, meta |-> FALSE]

Insert(L, rid, row) == [r \in DOMAIN L \cup {rid} |-> IF r = rid THEN row ELSE L[r]]

Settle(L, rid, status, total) ==
    [L EXCEPT ![rid].status  = status,
              ![rid].meta    = TRUE,
              ![rid].charged = IF status = "ok" /\ total # Unknown THEN total ELSE @]

ClearMeta(L, u) ==
    [r \in DOMAIN L |-> [L[r] EXCEPT !.meta = @ /\ L[r].user # u]]

-----------------------------------------------------------------------------
(***************************************************************************)
(* The limits a ledger keeps.                                              *)
(***************************************************************************)
RowsOfDay(L, u, d) == {r \in DOMAIN L : L[r].user = u /\ DayStart(L[r].created) = d}

RowsOfMonth(L, m) == {r \in DOMAIN L : MonthStart(L[r].created) = m}

\* The rows of u that an interval of RateWindow ending at t holds.
RowsOfWindow(L, u, t) ==
    {r \in DOMAIN L : L[r].user = u /\ L[r].created <= t /\ t < L[r].created + RateWindow}

SingleSlot(L) == \A r, s \in Running(L) : r = s

UniqueKeys(L) ==
    \A r, s \in DOMAIN L : L[r].user = L[s].user /\ L[r].idem = L[s].idem => r = s

\* The rows S keep to a budget of n tokens: exactly while one of them runs, and up
\* to what a single answer used beyond its reservation afterwards.
WithinBudget(L, S, n) ==
    \/ Charged(L, S) <= n
    \/ /\ S \cap Running(L) = {}
       /\ \E r \in S : L[r].status = "ok" /\ Charged(L, S \ {r}) <= n
=============================================================================
