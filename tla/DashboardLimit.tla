--------------------------- MODULE DashboardLimit ---------------------------
(***************************************************************************)
(* The request limit of the dashboard (observability.py, DashboardLimit):  *)
(* one window per member that starts with a request, a count in it, and a  *)
(* table of members that forgets the one seen longest ago.                 *)
(***************************************************************************)
EXTENDS Recency

CONSTANTS
    Members,   \* members of the assistant
    Window,    \* 60 seconds
    Limit,     \* 60 requests in a window
    Table,     \* 512 members in the table
    LastMoment,\* bound of the clock
    LastStay   \* bound of the stays of a member in the table

ASSUME LimitAssumption ==
    {Window, Limit, Table, LastMoment, LastStay} \subseteq Nat \ {0}

VARIABLES
    monotonic, \* time.monotonic()
    users,     \* the order of DashboardLimit.users, least recently seen first
    windows,   \* its windows: start and count
    stay,      \* how often the table forgot the member
    admits     \* the requests admitted, of the last window: when, and in which stay

limitVars == <<monotonic, users, windows, stay, admits>>

Admission == [at : Nat, stay : Nat]

LimitInit ==
    /\ monotonic = 0
    /\ users = <<>>
    /\ windows = [u \in Members |-> [start |-> 0, count |-> 0]]
    /\ stay = [u \in Members |-> 0]
    /\ admits = [u \in Members |-> <<>>]

\* The window a request of u falls in.
Known(u) == Contains(users, u)

\* Seeded fault: a window lasts until a pause of its length.
CurrentSince(u) ==
    IF Known(u) /\ (admits[u] = <<>> \/ monotonic < Last(admits[u]).at + Window) THEN windows[u]
    ELSE [start |-> monotonic, count |-> 0]

Current(u) ==
    IF Known(u) /\ monotonic < windows[u].start + Window THEN windows[u]
    ELSE [start |-> monotonic, count |-> 0]

Full(u) == Current(u).count >= Limit

\* The order after the oldest member went, if there was one too many.
Kept(order) == IF Len(order) > Table THEN Tail(order) ELSE order

\* The times of some admissions.
Moments(some) == [i \in 1 .. Len(some) |-> some[i].at]

\* The position of the first admission of u that is not older than a window.
FirstRecent(u) == FirstSince(Moments(admits[u]), monotonic, Window)

\* The admissions of u in the last window, whatever the table knows of them.
Recent(u) == SubSeq(admits[u], FirstRecent(u), Len(admits[u]))

\* admit: the request of u is counted and u becomes the member seen last; the member seen
\* longest ago is forgotten with its count when there is no room.
Admit(u) ==
    LET order == Kept(MovedToEnd(users, u))
    IN  /\ ~Full(u)
        /\ users' = order
        /\ windows' = [v \in Members |->
              IF v = u THEN [Current(u) EXCEPT !.count = @ + 1] ELSE windows[v]]
        /\ stay' = [v \in Members |->
              IF Known(v) /\ ~Contains(order, v) THEN stay[v] + 1 ELSE stay[v]]
        /\ \A v \in Members : stay'[v] <= LastStay
        /\ admits' = [v \in Members |->
              IF v = u THEN Append(Recent(u), [at |-> monotonic, stay |-> stay[u]])
              ELSE admits[v]]
        /\ UNCHANGED monotonic

\* 429: nothing is stored.
Refuse(u) == Full(u) /\ UNCHANGED limitVars

LimitTick ==
    /\ monotonic < LastMoment
    /\ monotonic' = monotonic + 1
    /\ UNCHANGED <<users, windows, stay, admits>>

LimitNext == LimitTick \/ \E u \in Members : Admit(u) \/ Refuse(u)

LimitSpec == LimitInit /\ [][LimitNext]_limitVars

-----------------------------------------------------------------------------
InWindow(u) == Len(Recent(u))

Latest(u) == Last(admits[u])

\* How often the table forgot u between the first and the last of these admissions.
Forgettings(some) == Last(some).stay - Head(some).stay

\* However the windows fall, no period of the length of a window has more than twice the
\* limit less one, as the first request of the earlier window is out of it; but each time
\* that the table forgets the member in it lets through as many as the limit once more.
\* docs/observability-dashboard.md:90 promises less, "60 API requests/minute/user".
BurstBounded ==
    \A u \in Members :
        Recent(u) # <<>> => InWindow(u) <= 2 * Limit - 1 + Limit * Forgettings(Recent(u))

\* A refused member did make as many requests as the limit within the last window, so
\* the advice to retry in a minute holds.
RefusedWhenBusy == \A u \in Members : Full(u) => InWindow(u) >= Limit

\* A member that the table forgot was seen no later than each of those it is full of.
ForgottenLast ==
    \A u \in Members :
        ~Known(u) /\ admits[u] # <<>> =>
            /\ Len(users) = Table
            /\ \A i \in 1 .. Table : Latest(u).at <= Latest(users[i]).at

\* admit: a member gets through at most twice the limit and the limit again for each time
\* the table forgot it, it is forgotten only when the table is full of members seen since,
\* and it is refused only at the limit.
LimitFair == BurstBounded /\ RefusedWhenBusy /\ ForgottenLast
=============================================================================
