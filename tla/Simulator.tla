------------------------------ MODULE Simulator ------------------------------
(***************************************************************************)
(* The simulated serving of requests (observatory/simulation.py), in the   *)
(* gateway or in the prefill and decode workers (observatory/workers.py    *)
(* and Service.remote_sim).  A pool has one slot, an asyncio.Semaphore(1), *)
(* and a prefix cache that its holder reads before it computes and writes  *)
(* after.  A combined request keeps one slot; a disaggregated one holds a  *)
(* prefill slot, transfers, then holds a decode slot.  It may be cancelled *)
(* at each await: while it waits, between the grant of a slot and its      *)
(* resumption, while it holds one.                                         *)
(***************************************************************************)
EXTENDS Recency, FiniteSets, Functions

CONSTANTS
    Requests,    \* requests
    PrefixKeys,    \* keys of the prefix cache
    Size,        \* bytes of each prefix
    NoPrefix,    \* a request that does not use the cache
    Capacity,    \* SIM_CACHE_BYTES
    Remote       \* PREFILL_URL and DECODE_URL are set

ASSUME SimulatorAssumption ==
    /\ Size \in [PrefixKeys -> Nat \ {0}]
    /\ NoPrefix \notin PrefixKeys
    /\ Capacity \in Nat
    /\ Remote \in BOOLEAN

Pools == {"combined", "prefill", "decode"}
Cached == {"combined", "prefill"}      \* the pools with a prefix cache
Modes == {"combined", "disaggregated"}

VARIABLES
    free,      \* free[p]: the semaphore of p has the value 1
    queue,     \* futures of the waiters of p that are not done, oldest first
    reqs,      \* what each request is doing
    waiting,   \* WAITING gauge of each pool
    running,   \* RUNNING gauge of each pool
    entries,   \* PrefixCache.entries of each pool, least recently used first
    bytes      \* PrefixCache.bytes of each pool

vars == <<free, queue, reqs, waiting, running, entries, bytes>>

\* granted: the future is set and the task has not resumed; leaving: cancelled while
\* queued; returning: cancelled while granted; orphan: the client has gone and the
\* generator, suspended at a yield, waits to be closed.
Waits  == {"queued", "granted", "leaving", "returning"}
Serves == {"prefill", "decode", "orphan"}
Holds  == {"granted", "returning"} \cup Serves
Phases == {"idle", "transfer", "over"} \cup Waits \cup Serves

Request == [phase : Phases,
            mode  : Modes,
            key   : PrefixKeys \cup {NoPrefix},
            pool  : Pools,        \* the pool it waits for or holds, or had last
            hit   : BOOLEAN,      \* lookup returned the prefix
            gone  : BOOLEAN]      \* the gateway no longer reads the prefill answer

Init ==
    /\ free = [p \in Pools |-> TRUE]
    /\ queue = [p \in Pools |-> <<>>]
    /\ reqs = [q \in Requests |->
          [phase |-> "idle", mode |-> "combined", key |-> NoPrefix, pool |-> "combined",
           hit |-> FALSE, gone |-> FALSE]]
    /\ waiting = [p \in Pools |-> 0]
    /\ running = [p \in Pools |-> 0]
    /\ entries = [p \in Cached |-> <<>>]
    /\ bytes = [p \in Cached |-> 0]

In(q, phases) == reqs[q].phase \in phases

\* The request after its coroutine: only the pool it had last is kept.
Over(q) == [reqs[q] EXCEPT !.phase = "over", !.key = NoPrefix, !.hit = FALSE,
                           !.gone = FALSE]

\* The request after its prefill.
Prefilled(q, phase) == [reqs[q] EXCEPT !.phase = phase, !.key = NoPrefix, !.hit = FALSE]

-----------------------------------------------------------------------------
(***************************************************************************)
(* The prefix cache.                                                       *)
(***************************************************************************)
\* The bytes of some prefixes, each byte with its prefix.
Contents(prefixes) == UNION {{k} \X (1 .. Size[k]) : k \in prefixes}

\* How many they are.
Weight(keys) == Cardinality(Contents(Range(keys)))

\* How many of the oldest entries go until k fits.
Evictions(keys, held, k) ==
    Min({n \in 0 .. Len(keys) : held + Size[k] <= Capacity + Weight(SubSeq(keys, 1, n))})

\* The entries and bytes after k was entered.
Entered(keys, held, k) ==
    LET n == Evictions(keys, held, k)
    IN  <<Append(SubSeq(keys, n + 1, Len(keys)), k),
          held + Size[k] - Weight(SubSeq(keys, 1, n))>>

\* Seeded fault: a prefix that is there already is entered again.
InsertedAgain(keys, held, k) ==
    IF k = NoPrefix \/ Size[k] > Capacity THEN <<keys, held>> ELSE Entered(keys, held, k)

\* insert
Inserted(keys, held, k) ==
    IF k = NoPrefix \/ Size[k] > Capacity THEN <<keys, held>>
    ELSE IF Contains(keys, k) THEN <<MovedToEnd(keys, k), held>>
    ELSE Entered(keys, held, k)

-----------------------------------------------------------------------------
(***************************************************************************)
(* The slot of a pool.  The semaphore hands a slot that is given back to   *)
(* the oldest waiter; the task of the waiter resumes later.                *)
(***************************************************************************)
\* r has the slot of its pool: a prefill looks the prefix up and computes.
Serving(r) ==
    IF r.pool = "decode" THEN [r EXCEPT !.phase = "decode"]
    ELSE [r EXCEPT !.phase = "prefill",
                   !.hit = r.key # NoPrefix /\ Contains(entries[r.pool], r.key)]

LookedUp(r) ==
    IF r.pool \in Cached /\ Serving(r).hit
    THEN [entries EXCEPT ![r.pool] = MovedToEnd(@, r.key)]
    ELSE entries

Locked(p) == ~free[p]

\* slot: q, which becomes r, acquires the slot of its pool or waits for it.
Acquire(q, r) ==
    IF Locked(r.pool)
    THEN /\ queue' = [queue EXCEPT ![r.pool] = Append(@, q)]
         /\ waiting' = [waiting EXCEPT ![r.pool] = @ + 1]
         /\ reqs' = [reqs EXCEPT ![q] = [r EXCEPT !.phase = "queued"]]
         /\ UNCHANGED <<free, running, entries>>
    ELSE /\ free' = [free EXCEPT ![r.pool] = FALSE]
         /\ running' = [running EXCEPT ![r.pool] = @ + 1]
         /\ reqs' = [reqs EXCEPT ![q] = Serving(r)]
         /\ entries' = LookedUp(r)
         /\ UNCHANGED <<queue, waiting>>

\* Seeded fault: a slot that is given back wakes nobody.
GiveBackUnheard(p, q, r) ==
    /\ free' = [free EXCEPT ![p] = TRUE]
    /\ reqs' = [reqs EXCEPT ![q] = r]
    /\ UNCHANGED queue

\* q, which becomes r, gives the slot of p back.
GiveBack(p, q, r) ==
    IF queue[p] = <<>>
    THEN /\ free' = [free EXCEPT ![p] = TRUE]
         /\ reqs' = [reqs EXCEPT ![q] = r]
         /\ UNCHANGED queue
    ELSE /\ queue' = [queue EXCEPT ![p] = Tail(@)]
         /\ reqs' = [reqs EXCEPT ![q] = r, ![Head(queue[p])].phase = "granted"]
         /\ UNCHANGED free

\* The end of the block that holds the slot.
Release(q, r) ==
    /\ GiveBack(reqs[q].pool, q, r)
    /\ running' = [running EXCEPT ![reqs[q].pool] = @ - 1]

\* The task of a waiter resumes with the slot.
Resume(q) ==
    /\ In(q, {"granted"})
    /\ waiting' = [waiting EXCEPT ![reqs[q].pool] = @ - 1]
    /\ running' = [running EXCEPT ![reqs[q].pool] = @ + 1]
    /\ reqs' = [reqs EXCEPT ![q] = Serving(reqs[q])]
    /\ entries' = LookedUp(reqs[q])
    /\ UNCHANGED <<free, queue, bytes>>

\* Seeded fault: the WAITING gauge goes down on both ways out of the queue.
UnwindTwice(q) ==
    /\ In(q, {"leaving"})
    /\ reqs' = [reqs EXCEPT ![q] = Over(q)]
    /\ waiting' = [waiting EXCEPT ![reqs[q].pool] = @ - 2]
    /\ UNCHANGED <<free, queue, running, entries, bytes>>

\* The task of a cancelled waiter resumes; acquire gives a granted slot back.
Unwind(q) ==
    /\ \/ /\ In(q, {"leaving"})
          /\ reqs' = [reqs EXCEPT ![q] = Over(q)]
          /\ UNCHANGED <<free, queue>>
       \/ In(q, {"returning"}) /\ GiveBack(reqs[q].pool, q, Over(q))
    /\ waiting' = [waiting EXCEPT ![reqs[q].pool] = @ - 1]
    /\ UNCHANGED <<running, entries, bytes>>

-----------------------------------------------------------------------------
(***************************************************************************)
(* The life of a request.                                                  *)
(***************************************************************************)
Arrive(q, mode, key) ==
    /\ In(q, {"idle"})
    /\ Acquire(q, [phase |-> "idle", mode |-> mode, key |-> key,
                   pool |-> IF mode = "combined" THEN "combined" ELSE "prefill",
                   hit |-> FALSE, gone |-> FALSE])
    /\ UNCHANGED bytes

\* The prefix is cached; a combined request decodes in the same slot, another one
\* leaves it and transfers, if there is still a gateway that asked.
PrefillDone(q) ==
    LET p     == reqs[q].pool
        cache == Inserted(entries[p], bytes[p], reqs[q].key)
    IN  /\ In(q, {"prefill"})
        /\ entries' = [entries EXCEPT ![p] = cache[1]]
        /\ bytes' = [bytes EXCEPT ![p] = cache[2]]
        /\ IF reqs[q].mode = "combined"
           THEN /\ reqs' = [reqs EXCEPT ![q] = Prefilled(q, "decode")]
                /\ UNCHANGED <<free, queue, running>>
           ELSE Release(q, IF reqs[q].gone THEN Over(q)
                           ELSE Prefilled(q, "transfer"))
        /\ UNCHANGED waiting

\* The transfer arrives, or fails when the request asked for that fault.
TransferDone(q) ==
    /\ In(q, {"transfer"})
    /\ \/ Acquire(q, [reqs[q] EXCEPT !.pool = "decode"])
       \/ /\ reqs' = [reqs EXCEPT ![q] = Over(q)]
          /\ UNCHANGED <<free, queue, waiting, running, entries>>
    /\ UNCHANGED bytes

DecodeDone(q) ==
    /\ In(q, {"decode"})
    /\ Release(q, Over(q))
    /\ UNCHANGED <<waiting, entries, bytes>>

\* The future of q leaves the queue.
Dropped(q) ==
    \E i \in DOMAIN queue[reqs[q].pool] :
        /\ queue[reqs[q].pool][i] = q
        /\ queue' = [queue EXCEPT ![reqs[q].pool] = RemoveAt(@, i)]

\* Seeded fault: whoever leaves the queue is taken to hold the slot.
CancelReturning(q) ==
    /\ In(q, {"queued", "granted"})
    /\ Dropped(q) \/ (In(q, {"granted"}) /\ UNCHANGED queue)
    /\ reqs' = [reqs EXCEPT ![q].phase = "returning"]
    /\ UNCHANGED <<free, waiting, running, entries, bytes>>

\* A client that disconnects or a limit of 60 seconds cancels the task.
Cancel(q) ==
    \/ /\ In(q, {"queued"})
       /\ Dropped(q)
       /\ reqs' = [reqs EXCEPT ![q].phase = "leaving"]
       /\ UNCHANGED <<free, waiting, running, entries, bytes>>
    \/ /\ In(q, {"granted"})
       /\ reqs' = [reqs EXCEPT ![q].phase = "returning"]
       /\ UNCHANGED <<free, queue, waiting, running, entries, bytes>>
    \/ /\ In(q, {"prefill", "decode", "orphan"})
       /\ Release(q, Over(q))
       /\ UNCHANGED <<waiting, entries, bytes>>
    \/ /\ In(q, {"transfer"})
       /\ reqs' = [reqs EXCEPT ![q] = Over(q)]
       /\ UNCHANGED <<free, queue, waiting, running, entries, bytes>>

\* The client goes while the generator is suspended at the yield of a word.
Orphan(q) ==
    /\ In(q, {"decode"})
    /\ reqs' = [reqs EXCEPT ![q].phase = "orphan"]
    /\ UNCHANGED <<free, queue, waiting, running, entries, bytes>>

\* The gateway gives up; the handler of /prefill in the worker goes on.
Abandon(q) ==
    /\ Remote /\ reqs[q].pool = "prefill" /\ ~reqs[q].gone
    /\ In(q, {"queued", "granted", "prefill"})
    /\ reqs' = [reqs EXCEPT ![q].gone = TRUE]
    /\ UNCHANGED <<free, queue, waiting, running, entries, bytes>>

-----------------------------------------------------------------------------
\* What the event loop does; the end of an orphan is the closing of its generator.
Progress(q) ==
    \/ Resume(q) \/ Unwind(q) \/ PrefillDone(q) \/ TransferDone(q) \/ DecodeDone(q)
    \/ In(q, {"orphan"}) /\ Cancel(q)

Next ==
    \E q \in Requests :
        \/ \E m \in Modes, k \in PrefixKeys \cup {NoPrefix} : Arrive(q, m, k)
        \/ Progress(q) \/ Cancel(q) \/ Orphan(q) \/ Abandon(q)

Spec == Init /\ [][Next]_vars

\* Sleeps end, tasks that can resume do, and abandoned generators are closed.
FairSpec == Spec /\ \A q \in Requests : WF_vars(Progress(q))

-----------------------------------------------------------------------------
(***************************************************************************)
(* What the simulator promises.                                            *)
(***************************************************************************)
TypeOK ==
    /\ free \in [Pools -> BOOLEAN]
    /\ queue \in [Pools -> Seq(Requests)]
    /\ reqs \in [Requests -> Request]
    /\ waiting \in [Pools -> Nat] /\ running \in [Pools -> Nat]
    /\ entries \in [Cached -> Seq(PrefixKeys)]
    /\ bytes \in [Cached -> 0 .. Capacity]

Holding(q, p) == In(q, Holds) /\ reqs[q].pool = p

\* A slot has one holder or is free, and is never lost or held twice, wherever
\* the cancellation of a waiter or of a holder falls.
SlotConserved ==
    \A p \in Pools :
        /\ \A q, r \in Requests : Holding(q, p) /\ Holding(r, p) => q = r
        /\ free[p] <=> ~\E q \in Requests : Holding(q, p)

\* The gauges show the waiting and the running requests of each pool exactly, in
\* particular nothing once all requests are over.
GaugesExact ==
    \A p \in Pools :
        LET Of(phases) == {q \in Requests : In(q, phases) /\ reqs[q].pool = p}
        IN  /\ waiting[p] = Cardinality(Of(Waits))
            /\ running[p] = Cardinality(Of(Serves))

\* The byte count of a cache is the sum of its entries, no prefix is counted
\* twice, and the capacity is kept (bytes is in 0 .. Capacity).
CacheWeighs ==
    \A p \in Cached :
        /\ bytes[p] = Weight(entries[p])
        /\ bytes[p] <= Capacity
        /\ IsInjective(entries[p])

\* A prefix whose tokens a prefill skips stays cached until the prefill is done:
\* no other request can evict it during the sleep.
HitStays ==
    \A q \in Requests :
        In(q, {"prefill"}) /\ reqs[q].hit => Contains(entries[reqs[q].pool], reqs[q].key)

\* A waiter is in the queue of its pool once, so a slot is handed to a request that
\* waits for it and a cancelled one is never granted.
QueueExact ==
    \A p \in Pools :
        /\ IsInjective(queue[p])
        /\ Range(queue[p]) = {q \in Requests : In(q, {"queued"}) /\ reqs[q].pool = p}

\* slot: the slots and the queues agree with what the requests do.
SlotsExact == SlotConserved /\ QueueExact

\* PrefixCache: in every state of its types the bytes follow the entries, and a prefix in
\* use stays.
CacheSound == TypeOK /\ CacheWeighs /\ HitStays

\* Every request comes to an end: no one waits for ever behind cancelled waiters.
EveryRequestEnds == \A q \in Requests : ~In(q, {"idle"}) ~> In(q, {"over"})
=============================================================================
