----------------------------- MODULE LabGateway -----------------------------
(***************************************************************************)
(* Admission and benchmarks of the lab gateway (observatory/app.py and     *)
(* observatory/service.py).  All of it runs on one event loop: a step is   *)
(* what runs between two awaits.  A handler checks capacity and returns a  *)
(* response; the generator that counts the request begins later, or never  *)
(* when the client has gone.  A benchmark runs its requests in a task      *)
(* group inside such a generator.                                          *)
(***************************************************************************)
EXTENDS Naturals, FiniteSets

CONSTANTS
    Runs,          \* clients of /api/run and /v1/chat/completions
    Benches,       \* clients of /api/benchmark
    Workers,       \* min(config.concurrency, config.requests) worker tasks
    MaxInflight,   \* 16 in the code
    Total,         \* config.requests
    Warmup,        \* config.warmup
    Modes,         \* 2 when modes are compared, else 1
    Faults         \* bound: store.save calls that raise

ASSUME LabAssumption ==
    /\ {MaxInflight, Total, Warmup, Modes, Faults} \subseteq Nat
    /\ Total > 0 /\ Modes > 0
    /\ IsFiniteSet(Runs) /\ IsFiniteSet(Benches) /\ IsFiniteSet(Workers)
    /\ Cardinality(Workers) \in 1 .. Total

VARIABLES
    inflight,   \* service.inflight
    busy,       \* service.benchmark_busy
    run,        \* what each client of a run is at
    bench,      \* what each benchmark is at
    saved,      \* the status each benchmark was saved with
    faults      \* store.save calls that raised

vars == <<inflight, busy, run, bench, saved, faults>>

\* accepted: checked, the generator has not begun; orphan: the client has gone and
\* the generator waits to be closed.
RunPhases == {"idle", "accepted", "running", "orphan"}

\* waiting: at queue.get; yielding: suspended at the yield of a progress event;
\* joining: waiting for the workers at the end of the group; comparing: suspended at
\* the yield of a mode's result; closing: the group was aborted; dropped: never begun.
InGroup == {"waiting", "yielding", "joining", "closing"}
Active  == {"accepted", "warmup", "comparing"} \cup InGroup

Indexes == 0 .. Total - 1
Ready   == Total         \* a worker that has not started
Gone    == Total + 1     \* a worker that has ended

Bench == [phase  : {"idle", "over", "dropped"} \cup Active,
          mode   : 0 .. Modes,
          warmed : 0 .. Warmup,
          warming: BOOLEAN,                       \* a warmup request runs
          next   : 0 .. Total,                    \* next_index
          work   : [Workers -> Indexes \cup {Ready, Gone}],
          done   : SUBSET Indexes,                \* indexes put in the queue
          got    : 0 .. Total,                    \* records taken from the queue
          fate   : {"none", "cancelled", "error", "running"}]

TypeOK ==
    /\ inflight \in Nat
    /\ busy \in BOOLEAN
    /\ run \in [Runs -> RunPhases]
    /\ bench \in [Benches -> Bench]
    /\ saved \in [Benches -> {"none", "ok", "cancelled", "error", "running"}]
    /\ faults \in 0 .. Faults

Fresh(phase, mode) ==
    [phase |-> phase, mode |-> mode, warmed |-> 0, warming |-> FALSE, next |-> 0,
     work |-> [w \in Workers |-> Ready], done |-> {}, got |-> 0, fate |-> "none"]

Init ==
    /\ inflight = 0
    /\ busy = FALSE
    /\ run = [r \in Runs |-> "idle"]
    /\ bench = [b \in Benches |-> Fresh("idle", 0)]
    /\ saved = [b \in Benches |-> "none"]
    /\ faults = 0

At(b, phases) == bench[b].phase \in phases

Become(b, new) == bench' = [bench EXCEPT ![b] = new]

-----------------------------------------------------------------------------
(***************************************************************************)
(* A run.  check reads inflight; the generator adds to it when it begins.  *)
(* A chat completion that is not streamed begins without an await between. *)
(***************************************************************************)
HasRoom == inflight < MaxInflight

Accept(r) ==
    /\ run[r] = "idle" /\ HasRoom
    /\ run' = [run EXCEPT ![r] = "accepted"]
    /\ UNCHANGED <<inflight, busy, bench, saved, faults>>

AcceptAndBegin(r) ==
    /\ run[r] = "idle" /\ HasRoom
    /\ run' = [run EXCEPT ![r] = "running"]
    /\ inflight' = inflight + 1
    /\ UNCHANGED <<busy, bench, saved, faults>>

Begin(r) ==
    /\ run[r] = "accepted"
    /\ run' = [run EXCEPT ![r] = "running"]
    /\ inflight' = inflight + 1
    /\ UNCHANGED <<busy, bench, saved, faults>>

\* The client has gone before the generator began: it never will.
Leave(r) ==
    /\ run[r] = "accepted"
    /\ run' = [run EXCEPT ![r] = "idle"]
    /\ UNCHANGED <<inflight, busy, bench, saved, faults>>

\* The client has gone; the suspended generator is closed in a later step.
Orphan(r) ==
    /\ run[r] = "running"
    /\ run' = [run EXCEPT ![r] = "orphan"]
    /\ UNCHANGED <<inflight, busy, bench, saved, faults>>

\* The finally of run: after an answer, an error, a timeout or a cancellation.
End(r) ==
    /\ run[r] \in {"running", "orphan"}
    /\ run' = [run EXCEPT ![r] = "idle"]
    /\ inflight' = inflight - 1
    /\ UNCHANGED <<busy, bench, saved, faults>>

-----------------------------------------------------------------------------
(***************************************************************************)
(* A benchmark up to its task group.                                       *)
(***************************************************************************)
AcceptBench(b) ==
    /\ At(b, {"idle"}) /\ HasRoom /\ ~busy
    /\ busy' = TRUE
    /\ Become(b, Fresh("accepted", 0))
    /\ UNCHANGED <<inflight, run, saved, faults>>

BeginBench(b) ==
    /\ At(b, {"accepted"})
    /\ Become(b, Fresh("warmup", 1))
    /\ UNCHANGED <<inflight, busy, run, saved, faults>>

\* The finally of benchmark, whose own save may raise; the generator's locals go.
Over(b, status) ==
    /\ busy' = FALSE
    /\ Become(b, Fresh("over", 0))
    /\ \/ saved' = [saved EXCEPT ![b] = status] /\ UNCHANGED faults
       \/ faults < Faults /\ faults' = faults + 1 /\ UNCHANGED saved
    /\ UNCHANGED run

StartWarmup(b) ==
    /\ At(b, {"warmup"}) /\ ~bench[b].warming /\ bench[b].warmed < Warmup
    /\ inflight' = inflight + 1
    /\ Become(b, [bench[b] EXCEPT !.warming = TRUE])
    /\ UNCHANGED <<busy, run, saved, faults>>

EndWarmup(b) ==
    /\ At(b, {"warmup"}) /\ bench[b].warming
    /\ inflight' = inflight - 1
    /\ Become(b, [bench[b] EXCEPT !.warming = FALSE, !.warmed = @ + 1])
    /\ UNCHANGED <<busy, run, saved, faults>>

\* The save of a warmup request raises and ends the benchmark with an error.
FailWarmup(b) ==
    /\ At(b, {"warmup"}) /\ bench[b].warming
    /\ faults < Faults /\ faults' = faults + 1
    /\ inflight' = inflight - 1
    /\ busy' = FALSE
    /\ saved' = [saved EXCEPT ![b] = "error"]
    /\ Become(b, Fresh("over", 0))
    /\ UNCHANGED run

OpenGroup(b) ==
    /\ At(b, {"warmup"}) /\ ~bench[b].warming /\ bench[b].warmed = Warmup
    /\ Become(b, [bench[b] EXCEPT !.phase = "waiting"])
    /\ UNCHANGED <<inflight, busy, run, saved, faults>>

-----------------------------------------------------------------------------
(***************************************************************************)
(* The workers.  Between putting a record and taking the next index a      *)
(* worker does not await.                                                  *)
(***************************************************************************)
\* Seeded fault: the counter moves on when the request has run.
TakenStale(b, w) ==
    [bench[b] EXCEPT !.work[w] = IF bench[b].next < Total THEN bench[b].next ELSE Gone]

\* What the benchmark is when w takes the next index, or finds none.
Taken(b, w) ==
    IF bench[b].next < Total
    THEN [bench[b] EXCEPT !.work[w] = bench[b].next, !.next = @ + 1]
    ELSE [bench[b] EXCEPT !.work[w] = Gone]

Working(b, w) == bench[b].work[w] \in Indexes

StartWorker(b, w) ==
    /\ At(b, InGroup \ {"closing"}) /\ bench[b].work[w] = Ready
    /\ Become(b, Taken(b, w))
    /\ inflight' = IF bench[b].next < Total THEN inflight + 1 ELSE inflight
    /\ UNCHANGED <<busy, run, saved, faults>>

\* Seeded fault: a request that failed is not put in the queue.
PutUnlessFailed(b, w) ==
    /\ At(b, InGroup \ {"closing"}) /\ Working(b, w)
    /\ \/ Become(b, [Taken(b, w) EXCEPT !.done = @ \cup {bench[b].work[w]}])
       \/ Become(b, Taken(b, w))
    /\ inflight' = IF bench[b].next < Total THEN inflight ELSE inflight - 1
    /\ UNCHANGED <<busy, run, saved, faults>>

\* A request ends, its record is put in the queue and the next one begins.
Put(b, w) ==
    /\ At(b, InGroup \ {"closing"}) /\ Working(b, w)
    /\ Become(b, [Taken(b, w) EXCEPT !.done = @ \cup {bench[b].work[w]}])
    /\ inflight' = IF bench[b].next < Total THEN inflight ELSE inflight - 1
    /\ UNCHANGED <<busy, run, saved, faults>>

Ended(b, w) == [bench[b] EXCEPT !.work[w] = Gone]

\* What an aborted group makes of the benchmark.  An exception raised into a generator
\* suspended at a yield inside the group comes out as a group of exceptions that holds
\* a GeneratorExit, which no handler catches: the status stays "running".
Aborted(b, new, status) ==
    [new EXCEPT !.phase = "closing",
                !.fate  = IF At(b, {"yielding"}) THEN "running"
                          ELSE IF At(b, {"closing"}) /\ bench[b].fate # "cancelled"
                          THEN bench[b].fate
                          ELSE status]

\* The save of a worker's request raises and aborts the group.
FailWorker(b, w) ==
    /\ At(b, InGroup) /\ Working(b, w)
    /\ faults < Faults /\ faults' = faults + 1
    /\ inflight' = inflight - 1
    /\ Become(b, Aborted(b, Ended(b, w), "error"))
    /\ UNCHANGED <<busy, run, saved>>

\* Seeded fault: a cancelled request stays on the count.
CancelWorkerCounted(b, w) ==
    /\ At(b, {"closing"}) /\ bench[b].work[w] # Gone
    /\ Become(b, Ended(b, w))
    /\ UNCHANGED <<inflight, busy, run, saved, faults>>

CancelWorker(b, w) ==
    /\ At(b, {"closing"}) /\ bench[b].work[w] # Gone
    /\ inflight' = IF Working(b, w) THEN inflight - 1 ELSE inflight
    /\ Become(b, Ended(b, w))
    /\ UNCHANGED <<busy, run, saved, faults>>

-----------------------------------------------------------------------------
(***************************************************************************)
(* The loop over the queue, the end of a mode and of the benchmark.        *)
(***************************************************************************)
Get(b) ==
    /\ At(b, {"waiting"}) /\ bench[b].got < Cardinality(bench[b].done)
    /\ Become(b, [bench[b] EXCEPT !.phase = "yielding", !.got = @ + 1])
    /\ UNCHANGED <<inflight, busy, run, saved, faults>>

Sent(b) ==
    /\ At(b, {"yielding"})
    /\ Become(b, [bench[b] EXCEPT !.phase = IF bench[b].got = Total THEN "joining"
                                            ELSE "waiting"])
    /\ UNCHANGED <<inflight, busy, run, saved, faults>>

AllEnded(b) == \A w \in Workers : bench[b].work[w] = Gone

Join(b) ==
    /\ At(b, {"joining"}) /\ AllEnded(b)
    /\ Become(b, [bench[b] EXCEPT !.phase = "comparing"])
    /\ UNCHANGED <<inflight, busy, run, saved, faults>>

Compare(b) ==
    /\ At(b, {"comparing"})
    /\ \/ /\ bench[b].mode < Modes
          /\ Become(b, Fresh("warmup", bench[b].mode + 1))
          /\ UNCHANGED <<busy, run, saved, faults>>
       \/ bench[b].mode = Modes /\ Over(b, "ok")
    /\ UNCHANGED inflight

Close(b) ==
    /\ At(b, {"closing"}) /\ AllEnded(b)
    /\ Over(b, bench[b].fate)
    /\ UNCHANGED inflight

\* The client disconnects: an unbegun generator has no finally to run; outside the
\* group the benchmark ends at once; inside it the workers are cancelled first.
DisconnectBench(b) ==
    \/ /\ At(b, {"accepted"})
       /\ Become(b, [bench[b] EXCEPT !.phase = "dropped"])
       /\ UNCHANGED <<inflight, busy, run, saved, faults>>
    \/ /\ At(b, {"warmup", "comparing"})
       /\ inflight' = IF bench[b].warming THEN inflight - 1 ELSE inflight
       /\ Over(b, "cancelled")
    \/ /\ At(b, {"waiting", "yielding", "joining"})
       /\ Become(b, Aborted(b, bench[b], "cancelled"))
       /\ UNCHANGED <<inflight, busy, run, saved, faults>>

-----------------------------------------------------------------------------
RunStep(r) == Accept(r) \/ AcceptAndBegin(r) \/ Begin(r) \/ Leave(r) \/ Orphan(r) \/ End(r)

\* What the loop does by itself.
Progress(b) ==
    \/ BeginBench(b) \/ StartWarmup(b) \/ EndWarmup(b) \/ FailWarmup(b) \/ OpenGroup(b)
    \/ \E w \in Workers : StartWorker(b, w) \/ Put(b, w) \/ FailWorker(b, w)
                            \/ CancelWorker(b, w)
    \/ Get(b) \/ Join(b) \/ Close(b)

\* A send, which waits for as long as the client does not read: no time limit is around it.
Send(b) == Sent(b) \/ Compare(b)

Next ==
    \/ \E r \in Runs : RunStep(r)
    \/ \E b \in Benches : AcceptBench(b) \/ Progress(b) \/ Send(b) \/ DisconnectBench(b)

Spec == Init /\ [][Next]_vars

\* The loop runs what can run, and each request ends, as its deadline is 60 seconds; that a
\* client reads is not assumed.
FairSpec == Spec /\ \A b \in Benches : WF_vars(Progress(b))

-----------------------------------------------------------------------------
(***************************************************************************)
(* What the gateway promises.                                              *)
(***************************************************************************)
\* inflight counts the requests that run, through disconnects, aborted groups and
\* saves that raise; it comes back to zero.
InflightExact ==
    inflight = Cardinality({r \in Runs : run[r] \in {"running", "orphan"}})
             + Cardinality({b \in Benches : bench[b].warming})
             + Cardinality({p \in Benches \X Workers : Working(p[1], p[2])})

\* One benchmark at a time, from the check in the handler until the workers of the
\* last one are gone.
OneBenchmark == \A a, b \in Benches : At(a, Active) /\ At(b, Active) => a = b

\* No two workers of a benchmark run the same index, none runs an index twice, and a
\* mode that is over has run every index.
EachIndexOnce ==
    \A b \in Benches :
        /\ \A v, w \in Workers : Working(b, w) =>
              /\ bench[b].work[w] \notin bench[b].done
              /\ bench[b].work[v] = bench[b].work[w] => v = w
        /\ At(b, {"joining", "comparing"}) => bench[b].done = Indexes

\* Benchmarks never overlap, in one another or within one: the figures of a mode come
\* from requests of its own, each run once.
BenchmarksSound == TypeOK /\ OneBenchmark /\ EachIndexOnce

\* The client is the one that keeps b waiting.
Unread(b) == At(b, {"yielding", "comparing"})

\* A benchmark that was accepted is over in the end, unless its generator never began, if
\* its client reads what it is sent, or goes: it waits for nothing else for ever.
BenchmarkEnds ==
    \A b \in Benches :
        []<>~Unread(b) => (At(b, Active) ~> At(b, {"over", "dropped"}))

\* A refused benchmark can "wait for the current run": there is one.
BusyHasRun == busy => \E b \in Benches : At(b, Active)

\* A saved benchmark has ended.
SavedSettled == \A b \in Benches : saved[b] # "running"
=============================================================================
