--------------------------- MODULE TelemetryReader ---------------------------
(***************************************************************************)
(* The dashboard's reader of Prometheus (observability.py,                 *)
(* PrometheusReader): one lock, one query at a time, a bounded cache of    *)
(* answers that keeps old data through failures and says how old it is.    *)
(*                                                                         *)
(* Data are represented by the instant at which they were asked for, which *)
(* is the oldest they can be; the size of the payloads is left open.       *)
(***************************************************************************)
EXTENDS Recency, Selection, Functions

CONSTANTS
    Viewers,      \* requests of the dashboard
    Keys,         \* keys of the cache
    Wants,        \* the keys that one request reads, in order
    Catalog,      \* the key without which a chart is not read
    None,
    Entries,      \* 24 entries
    Refresh,      \* 30 seconds between two attempts
    Usable,       \* 120 seconds that data are shown
    QueryLimit,   \* 5 seconds for a query
    Horizon       \* bound of the clock

ASSUME ReaderAssumption ==
    /\ {Entries, Refresh, Usable, QueryLimit, Horizon} \subseteq Nat \ {0}
    /\ Wants \subseteq Seq(Keys) \ {<<>>}
    /\ Catalog \in Keys
    /\ None \notin Keys \cup Nat

VARIABLES
    now,       \* time.time()
    order,     \* the keys of the cache, least recently refreshed first
    entry,     \* its entries
    line,      \* holder of the lock and those that wait for it, in order
    views,     \* what each request is doing
    answer,    \* the answer that the last step gave, if it gave one
    ended      \* when the last attempt that is recorded for an entry ended

readerVars == <<now, order, entry, line, views, answer, ended>>

Times == 0 .. Horizon

\* An entry has data exactly when it has the time they were fetched.
Entry == {e \in [data      : Times \cup {None},
                 fetched   : Times \cup {None},
                 failed    : BOOLEAN,
                 attempted : Times] : e.data = None <=> e.fetched = None}

ASSUME EntryAssumption == None \notin Entry

View == [wants : Seq(Keys),
         phase : {"idle", "waiting", "asking"},
         asked : Times]

Answer == [state : {"ready", "stale", "unavailable"}, data : Times \cup {None}]

Idle == [wants |-> <<>>, phase |-> "idle", asked |-> 0]

ReaderInit ==
    /\ now = 0
    /\ order = <<>>
    /\ entry = [k \in Keys |-> None]
    /\ line = <<>>
    /\ views = [v \in Viewers |-> Idle]
    /\ answer = None
    /\ ended = [k \in Keys |-> None]

Wanted(v) == Head(views[v].wants)

-----------------------------------------------------------------------------
Age(e) == now - e.fetched

\* The answer an entry gives.
Shown(e) ==
    IF e.fetched # None /\ Age(e) <= Usable
    THEN [state |-> IF e.failed THEN "stale" ELSE "ready", data |-> e.data]
    ELSE [state |-> "unavailable", data |-> None]

\* Seeded fault: after a failure the next reader asks again at once.
FreshUnlessFailed(k) ==
    entry[k] # None /\ ~entry[k].failed /\ now - entry[k].attempted < Refresh

Fresh(k) == entry[k] # None /\ now - entry[k].attempted < Refresh

\* Seeded fault: a failure leaves the entry as it was, but for the time of the attempt.
AfterUnmarked(e, data) ==
    IF data # None THEN [data |-> data, fetched |-> now, failed |-> FALSE, attempted |-> now]
    ELSE IF e # None THEN [e EXCEPT !.attempted = now]
    ELSE [data |-> None, fetched |-> None, failed |-> TRUE, attempted |-> now]

\* The entry after an attempt that read `data`, or failed.
After(e, data) ==
    IF data # None THEN [data |-> data, fetched |-> now, failed |-> FALSE, attempted |-> now]
    ELSE IF e # None THEN [e EXCEPT !.failed = TRUE, !.attempted = now]
    ELSE [data |-> None, fetched |-> None, failed |-> TRUE, attempted |-> now]

\* The keys that stay: the `room` newest ones, whose payloads fit.
Held(keys, room) == Newest(keys, room)

\* Seeded fault: the reader that has its answer keeps the lock.
NextInLineStuck(v, more) == line

\* The line after v left the lock; it joins again when it reads more.
NextInLine(v, more) == IF more = <<>> THEN Tail(line) ELSE Append(Tail(line), v)

\* v has the answer of the entry e and reads on, or ends: a chart ends at the catalogue
\* if there is none or the metric is not listed in it.
Reply(v, e) ==
    \E listed \in BOOLEAN :
    LET shown == Shown(e)
        more  == IF Wanted(v) = Catalog /\ (shown.state = "unavailable" \/ ~listed) THEN <<>>
                 ELSE Tail(views[v].wants)
    IN  /\ answer' = shown
        /\ views' = [views EXCEPT ![v] =
              IF more = <<>> THEN Idle ELSE [Idle EXCEPT !.wants = more, !.phase = "waiting"]]
        /\ line' = NextInLine(v, more)

-----------------------------------------------------------------------------
Visit(v, wants) ==
    /\ views[v].phase = "idle"
    /\ views' = [views EXCEPT ![v] = [Idle EXCEPT !.wants = wants, !.phase = "waiting"]]
    /\ line' = Append(line, v)
    /\ answer' = None
    /\ UNCHANGED <<now, order, entry, ended>>

\* v has the lock: the cache answers, or Prometheus is asked.
Turn(v) ==
    /\ views[v].phase = "waiting" /\ Head(line) = v
    /\ IF Fresh(Wanted(v))
       THEN Reply(v, entry[Wanted(v)])
       ELSE /\ views' = [views EXCEPT ![v].phase = "asking", ![v].asked = now]
            /\ answer' = None
            /\ UNCHANGED line
    /\ UNCHANGED <<now, order, entry, ended>>

\* The query of v ended, with data or by an error.  The newest entry alone always fits.
Hear(v, data, room) ==
    LET k == Wanted(v)
        e == After(entry[k], data)
        Stored(of, new) == [q \in Keys |-> IF ~Contains(order', q) THEN None
                                           ELSE IF q = k THEN new ELSE of[q]]
    IN  /\ views[v].phase = "asking"
        /\ order' = Held(MovedToEnd(order, k), room)
        /\ entry' = Stored(entry, e)
        /\ ended' = Stored(ended, now)
        /\ Reply(v, e)
        /\ UNCHANGED now

\* The query of v ended with an error that cached does not expect, such as the overflow of
\* a number: no attempt is recorded, the lock is released and the request fails.
Break(v) ==
    /\ views[v].phase = "asking"
    /\ views' = [views EXCEPT ![v] = Idle]
    /\ line' = Tail(line)
    /\ answer' = None
    /\ UNCHANGED <<now, order, entry, ended>>

\* A query is over when its time limit is.
ReaderTick ==
    /\ now < Horizon
    /\ \A v \in Viewers : views[v].phase = "asking" => now < views[v].asked + QueryLimit
    /\ now' = now + 1
    /\ answer' = None
    /\ UNCHANGED <<order, entry, line, views, ended>>

Progress(v) ==
    \/ Turn(v)
    \/ Break(v)
    \/ \E data \in {views[v].asked, None}, room \in 1 .. Entries :
          Hear(v, data, room)

ReaderNext ==
    \/ ReaderTick
    \/ \E v \in Viewers : (\E w \in Wants : Visit(v, w)) \/ Progress(v)

-----------------------------------------------------------------------------
\* Every variable keeps its type: an entry has data exactly when it has their time, and
\* the cache has the entries of its order, each once and no more than it may.
TypeOK ==
    /\ now \in Times
    /\ order \in Seq(Keys) /\ IsInjective(order) /\ Len(order) <= Entries
    /\ Range(order) = {k \in Keys : entry[k] # None}
    /\ line \in Seq(Viewers)
    /\ entry \in [Keys -> Entry \cup {None}]
    /\ views \in [Viewers -> View \cup {Idle}]
    /\ answer \in Answer \cup {None}
    /\ ended \in [Keys -> Times \cup {None}]

Shows(states) == answer # None /\ answer.state \in states

\* cached: what is shown, stale or not, is no older than the limit and the query that
\* read it, through any number of failed refreshes.
DataRecent == Shows({"ready", "stale"}) => now <= answer.data + Usable + QueryLimit

\* cached: what is shown as ready was read by the last attempt, and that was not long ago.
ReadyIsCurrent == Shows({"ready"}) => now < answer.data + Refresh + QueryLimit

\* cached: what a viewer sees is as recent as it is said to be, from a cache that keeps to
\* its bound and to its order.
ShownInTime == TypeOK /\ DataRecent /\ ReadyIsCurrent

\* cached: however many readers wait for a key, Prometheus is not asked for it again before the
\* refresh is due, also after the failures that are recorded, for as long as the cache has the
\* key: what leaves it, and an attempt that raises, leave no time to wait from.
QueriesSpaced ==
    [][\A v \in Viewers :
          views'[v].phase = "asking" /\ views[v].phase = "waiting" /\ ended[Wanted(v)] # None
              => now >= ended[Wanted(v)] + Refresh]_readerVars

\* Every dashboard request that waits for the reader's lock is answered, whatever the
\* queries before it do.
EveryReaderAnswered == \A v \in Viewers : views[v].phase = "waiting" ~> views[v].phase = "idle"
=============================================================================
