# Verification of the LLM serving observatory

This directory holds TLA+ specifications of the program under `src/`, the TLC
configurations that check them on small instances and TLAPS proofs of what
holds for every instance. Paths below are relative to `src/`.

## 1. The system and its parts

The repository is one gateway process (`observatory/app.py`, Starlette/FastAPI
on one asyncio event loop with a thread pool), simulated prefill and decode
workers, a private *assistant* that answers questions with one small model, a
dashboard, a host-invoked reliability worker and some browser pages. State is
in memory, in two SQLite files and in an object bucket.

| Part | State | Operations | Talks to | What is hard | What makes it correct |
|---|---|---|---|---|---|
| **Assistant admission store** `observatory/assistant_store.py` | tables invites, users, keys, operator_grants, ledger, service_events | invite, redeem, authenticate, revoke, rotate, set_operator, reserve, finish, event, delete_history, readers, backup | called by threads of the gateway and by the operator's command line, on one file | `reserve` reads the clock before it has the write lock; rows are abandoned while their request lives; ages, quotas and windows at their boundary; an event log trimmed in three ways | one running request; quotas, rate and budgets; an idempotency key is used once; a settled row is final; one key per member; one member per invitation |
| **Answer service** `observatory/assistant.py` | `ACTIVE` gauge, one closure per request (`finalized`, record) | identity, answer (prepare, events, finish), rotate-key, revoke-key | the store, the model over HTTP, the client's stream | disconnect before, during or after the body; a `store.finish` that raises; deadline against late end; crash and retry; identity read in an earlier transaction | one call of the model at a time, never two for one key; the client reads what the ledger has; the slot is released |
| **Lab gateway** `observatory/service.py`, `observatory/app.py` | `inflight`, `benchmark_busy`, one generator per run, one task group per benchmark mode | check, run, chat, benchmark, collect | simulator or workers or upstream, record store | a count checked in a handler and taken in a generator that may never begin; worker tasks that share an index; a task group left by a disconnect | the count is exact and returns to zero; one benchmark at a time; every index once; every benchmark ends |
| **Serving simulator** `observatory/simulation.py` | one semaphore per pool, a prefix cache (LRU by bytes) per prefill pool | slot, prefill, transfer, decode | lab gateway, workers | cancellation while waiting or holding; cache touched before and after an await | one holder per pool, no leaked slot; bytes follow entries and keep to capacity |
| **Prefill and decode workers** `observatory/workers.py` | a simulator per process | /prefill, /decode | gateway over HTTP | time limit of 60 s, an early end of the stream | a stream ends with phases and `[DONE]`, or an error |
| **Lab record store** `observatory/store.py` | table records | save, list, get | lab gateway | one retention shared by requests and benchmarks | the newest records stay |
| **Upstream reader** `observatory/upstream.py` | lines of one event | sse_json, normalize_usage, stream_upstream | a model over HTTP | framing, a stream without a finish reason, usage that contradicts itself | frames equal a reference; subsets never exceed totals |
| **Dashboard** `observatory/observability.py` | telemetry cache with one lock, per-user request windows | cached, catalog, chart, admit | Prometheus, admission store | stale data after failures, a bounded cache, a bounded user table | at most one query at a time; data older than 120 s are never shown; a member makes at most 60 requests in a window of its own, as long as the table remembers it |
| **Cloud trace exporter** `observatory/cloud_tracing.py` | times of the last attempts | export | the tracing library's thread | an hourly budget that slides | at most `budget` spans in an hour |
| **Reliability worker** `observatory/reliability.py` | lock file, latest-backup.json, bucket | backup, probe, restore-check, drill | object storage, vault, monitoring | killed half-way; two started together; object ceiling | a reported backup was restored and covers what it should; monitoring tells the truth |
| **Resource monitor** `observatory/resources.py` | latest and previous sample, task | start, sample, snapshot, stop | metrics registry, dashboard | a sample in a thread that fails, raises something unexpected or is cancelled | what is shown is as old as it is said to be |
| **Operator commands** `observatory/admin.py` | none | invite, revoke, operator, … | admission store | another process on the same file | as the store |
| **Cloud rollout** `scripts/reliability_cloud.py`, `scripts/shared_preflight.py` | operator.json, support.zip, config.json | create, plan, review, review-resume, apply, outputs, bootstrap | Resource Manager, vault | a command that dies before it saves, an apply that stops half-way, edits from outside | only a reviewed plan is applied, it only creates, no key is made twice |
| **Hardware planner** `observatory/hardware.py`, **retrieval** `observatory/retrieval.py`, **schemas** `observatory/models.py`, **telemetry** `observatory/telemetry.py` | none | pure functions, metric declarations | gateway | boundaries of integers; the rest is floating point | – |
| **Browser pages** `observatory/static/*.js`, `sites/*.js` | key, epoch, timer, current stream | connect, refresh, tabs, ask, rotate, sign out, hide | gateway | an answer of an earlier session that arrives late; polling that has to stop and to go on | a page shows its own session's data, nothing after sign-out, and polls exactly while it should |
| **Scripts, infrastructure** | files | one-shot | – | – | – |

The interaction the project starts from is the one in the first three rows:
`answer` authenticates in a thread, `prepare` reserves a row of the ledger on
the event loop, `events` streams the model's answer and `finish` settles the
row, while `GuardedStream` takes over when the client disconnects. The lab
gateway admits runs and benchmarks on the same loop by counters in memory.

`PROJECT.json` lists every part with its state of modelling, and under
`hazards` the lines where each of these difficulties bites.

## 2. Modules

| Module | Models | Uses |
|---|---|---|
| `Ledger` | the ledger table and the statements of `reserve` and `finish` as pure operators | – |
| `Selection` | rows of a table selected by a condition on them, and the last of them | – |
| `SelectionProofs` | lemmas about selections: order, positions, the reverse | `Selection`, `TLAPS` |
| `EventLog` | the service_events table and `_event` | `Selection` |
| `Recency` | keys in the order they were used last, times that leave when they are old | – |
| `AssistantStore` | every operation of the store that changes a table, as one action each | `Ledger`, `EventLog` |
| `AdmissionLease` | abstract: one lease of a bounded term, taken over only after it ended | – |
| `LedgerProofs` | lemmas about the operators of `Ledger` | `Ledger`, `TLAPS` |
| `AssistantStoreProofs` | theorems about `AssistantStore`: tables, membership and revocation; admission, settling, the lease and the event log | `LedgerProofs`, `SelectionProofs` |
| `AnswerService` | the answer path with its clients, the model, crashes and faults; implements the lease | `Ledger`, `AdmissionLease` |
| `AnswerServiceProofs` | theorems about `AnswerService`: its invariants, when a row stops running, the lease | `LedgerProofs` |
| `LabGateway` | runs, benchmarks and their workers | – |
| `ChatStream` | one inference from the provider's stream to the client's frames and the saved record | – |
| `UpstreamFraming` | the two readers of a provider's event stream, against a reference | `Selection` |
| `RecordStore` | the lab's records: save, prune, commit, failures, listing | – |
| `Lab` | the four above | `LabGateway`, `ChatStream`, `UpstreamFraming`, `RecordStore` |
| `LabProofs` | theorems about `Lab` and its four parts | `SelectionProofs` |
| `Simulator` | the slots and caches of the pools and a request's way through them | `Recency` |
| `SimulatorProofs` | theorems about `Simulator`: slots, gauges and caches | `TLAPS` |
| `ReliabilityWorker` | the commands of the worker as processes that share a lock, a directory and a bucket | – |
| `CloudRollout` | the operator's commands, operator.json, the jobs of the stack and the vault | – |
| `CloudReliability` | the two above | `ReliabilityWorker`, `CloudRollout` |
| `ReliabilityProofs` | theorems about `CloudReliability` | `TLAPS` |
| `TelemetryReader` | the cache of Prometheus answers behind its lock | `Recency`, `Selection` |
| `DashboardLimit` | the request limit of a dashboard member | `Recency` |
| `SpanBudget` | the hourly budget of exported spans | `Recency` |
| `Paging` | the pages of events and records over tables that change | `Selection` |
| `DashboardPage` | the dashboard in the browser: epochs, polling, late answers | – |
| `ResourceMonitor` | the sampler of the gateway's resources | – |
| `Observability` | the six above | the six above |
| `ObservabilityProofs` | theorems about `Observability` | `TLAPS` |
| `AssistantPage` | the assistant in the browser: sessions and late answers | – |
| `MCAssistantStore`, `MCStoreWorkloads`, `MCAnswerService`, `MCSimulator`, `MCObservability` | values of constants for TLC | the above |

`Lab`, `CloudReliability` and `Observability` put modules that share no state side by
side: a behaviour follows one of them, chosen initially, so that one run checks them all
and their state spaces add up. Where parts meet, they meet through a value: `ChatStream`
looks into one of the inferences that `LabGateway` counts (which may end in any way
there), `UpstreamFraming` into the events `ChatStream` hears, `RecordStore` into the
save both end with, and the worker runs on the `config.json` that the rollout wrote.

### Ledger and AssistantStore

A table is a function of its primary key, a row a record of the columns that
decide something; `SUM(charged)` is the cardinality of a set of tokens, which
keeps the arithmetic within reach of the provers. The event log is the sequence of its
rows; a deletion by a condition keeps the rows at the positions where it fails (`RowsAt`),
which is a definition without recursion. `Swept`, `Verdict`, `NewRow`
and `Settle` are the statements of the code in its order, and `Verdict` gives
the code of the `Denied` it raises.

Every method runs in one `BEGIN IMMEDIATE` transaction, hence one action. The
exception is `reserve`: line 219 reads `time.time()` before line 225 takes the
lock, so `CallReserve` reads the clock and `Admit` or `Deny` runs the
transaction later, with any number of other transactions between. `Deny`
changes nothing because an exception rolls back, the cleanup included.
`Admit` does the cleanup, the insertion, the pruning of invitations and the
event, as the code does in one transaction.

Abstractions: identifiers and codes are fresh (they are 128-bit random or
hashes); an invitation that was pruned is remembered as such, so its code is
not minted again; the calendar is a pair of constant operators `DayStart` and
`MonthStart` of which only the assumptions are used in proofs; the clock never
runs back; a usage record is its total; the limits on lengths of inputs were
passed before.

### AnswerService

`phase` says where the coroutine of a request is suspended: `answer`/`rotate`
(authenticated, the handler not entered), `created` (admitted, the body not
iterated), `sources` (first yield), `model` (reading the upstream stream),
`failed` (yield of the error event), `result` (yield of the result event),
`closed`, and `lost` after a crash. `Finish` is the closure `finish`: it
either settles the row and lowers the gauge, or `store.finish` raises, after
which `finalized` keeps everybody from trying again. A client may read its result so late
that its row is past the retention of the ledger, and a key may be used again after it;
`ResultMatchesLedger` and `InferenceOnce` say how late.  `Disconnect` is the
cleanup of `GuardedStream` before the body is iterated, and the `finally` of
the generator afterwards. Memory is forgotten by `Crash`; the ledger and the
keys stay.

### LabGateway

A handler's `check` and the generator's first step are two actions; `Leave`
and the first disjunct of `DisconnectBench` are a client that goes between. A
benchmark's record holds the locals of the generator and the position of each
worker task. `Aborted` is how `asyncio.TaskGroup` ends when a task or the
generator raises: the remaining tasks are cancelled (`CancelWorker`), and the
benchmark is saved (`Close`) with the status its handlers give it. The sends to the client
are apart (`Send`), because the client decides when they end. The outcome
of an exception thrown into a generator suspended inside the group was
observed on CPython 3.11: it leaves the group as an
exception group, and neither handler catches it.

### ChatStream, UpstreamFraming and RecordStore

The generator of `Service.run`, the handler that consumes it and the response are one
task. It waits for the provider (`opening`, `reading`), where a timeout meets it inside
the generator, or is suspended at a token that is being sent (`sending`), where the
exception meets the handler and the generator is closed: the status is `error` in the
first case and `cancelled` in the second. `owed` are the frames that follow the final
record. The three forms of an answer differ in what `Closing` says. The counts of a
report are numbers, unknown, or no counts at all (-1).

In `UpstreamFraming` the content of a line is one symbol and its end one or two;
`bounded_events` takes bytes in chunks that end anywhere, a `\r\n` included, and
`sse_json` gets lines. The reference (`Events`, `Verdict`) reads the whole stream at
once; a blank line has the content "blank", since it has no bytes but its end. The data of a
block is `RowsAt` of `Selection`, the rows at the positions of its data lines. Streams use
one kind of line end throughout: `bounded_events` does not know a lone
CR and looks for two equal ends, so a stream that mixes them is one block for it. Its
limit on the buffer is a matter of how the bytes arrive, and a stream it refuses is
excepted from the second half of `FramingExact`.

`RecordStore` has the connection's view (`rows`) beside what is committed (`disk`),
because `save` does not roll back: the row of a save that raised is committed by the
next one. A listing is the set of positions of its rows.

### Simulator

`asyncio.Semaphore(1)` is external and modelled as the standard library has
it: `free` is its counter, `queue` its futures, and a release wakes the oldest
future. A request is therefore `queued`, then `granted` (its future has a
result and it has not run yet), then serves; `leaving` and `returning` are a
waiter that was cancelled before and after the grant. `Cancel` is a disconnect
or one of the 60 second limits of `service.py` and `workers.py`. `Unwind` is
what the cancelled coroutine does when it runs: it leaves the queue, or gives
back the slot it was granted. With remote workers the gateway may give up
while the handler of `/prefill` goes on (`Abandon`). A client that goes while
the generator is suspended at the yield of a word leaves it with its slot until
it is closed (`Orphan`).
`Remote = TRUE` includes every behaviour of the process that does all itself.
The prefix cache is a sequence of keys in the order of the `OrderedDict` with
its byte count held separately, as the code holds it, so that the two could
part ways (`CacheWeighs`). Durations and texts are left out.

The cache keeps its keys in the order of their last use (`MovedToEnd`). The bytes of a set
of prefixes are a set of tokens, as charges are in the ledger, and `Weight` its
cardinality: a sum without recursion.

### ReliabilityWorker

A process is one run of `main` (a timer, or the operator) with one of its five actions and
`phase` at the call it makes next: the steps of `backup` are `Capacity`, `Copy`, `Stamp`,
`Seal`, `Put`, `Get`, `Open`, `Write`, `Record`, and `World` commits to the live database, ages
objects and advances the clock between any two of them. Every call may fail and a process may
be killed anywhere, which is the same to everybody else (`Fail`): its lock is closed, by itself
or by the kernel, and the temporary directory it may leave is read by nobody. `Put` may take
effect and then fail, `Get` may return damaged bytes or any other object of the bucket.
Encryption is authentic: `Authentic`
holds for the envelope that was sealed for this name and for no other bytes; without the
name in it an older backup would pass for the new one. A key version that
was rotated still opens its envelopes, so versions are left out. The lock does not block
(`LOCK_NB`): a process that finds it taken ends at once, which is why a backup that meets a
running probe is skipped until its next timer.

### CloudRollout

`op` is operator.json, `unsaved` what the running command will write: between the call of
the cloud and `Save` the command may `Die`. Resource Manager is external: jobs run one at
a time, a plan job reads the resources as they are, an apply of a plan older than the
state fails, an apply may fail, or be cancelled (`Cancel`, after which it is `CANCELING`
until Terraform has stopped), half-way and leave a tainted resource. `Meddle` is an edit
or a removal in the console. `Plan.lawful` stands for the checks of `validate_plan` that
concern one resource alone (allowlist, types, values). One operator runs one command at
a time. The commands `job` and `drift` change nothing; that the vault of a listed
secret is the expected one is part of `usable`.

`MakePlan` waits while the last job is `ACCEPTED`, `IN_PROGRESS` or `CANCELING` (line 154).
`ApplyReviewed` looks at no job: it needs a plan that can be downloaded, that is approved and
that is the one reviewed (lines 164-183). Nothing in the program stops an apply from being
asked for twice; the second one runs after the first and fails if that one changed anything,
because Resource Manager refuses a plan that is older than the state.

### Observability

`TelemetryReader` has one action for the cache hit or the start of a query
(`Turn`) and one for its end (`Hear`), between which the lock is held and time
passes up to the query's limit. Data are represented by the instant at which
they were asked for. The size of payloads is open: any number of the oldest
entries may go when one is stored: `Held` keeps the `room` newest keys, for any room from
one entry to the bound. A chart reads two keys and queues twice.
`Break` is a query that ends with an error outside the tuple of line 115: nothing is
recorded, so the next one need not wait. The history `ended`, when a query of a key ended
last, forgets a key whose entry is evicted and such an end for the same reason: there is no
attempt in the cache to wait from, and `QueriesSpaced` says nothing of a query that
follows one.
`DashboardLimit` has a history of admissions beside the window and count of the code. The
table may forget a member and its count; the history does not, and `stay` counts how often
it happened, so that each admission has the stay in the table it was made in.
`SpanBudget` splits `export` where it leaves its lock; spans that are being delivered are
a set of places in batches (`InDelivery`), so that adding them up is counting.

`Paging` follows one visitor through the pages of one table while rows are written, expire
and are deleted, and the grant may be withdrawn. Events go on below the id of the last row
shown: complete for the rows that stay, whatever happens (`CursorExact`). Records go on at
an offset into an order by creation, and since a record shows only when its request ended
it may come anywhere: the pages may then repeat a row, or pass over one after a deletion.
`OffsetExact` says that nothing else goes wrong.

`DashboardPage` keeps of an epoch whether it is the page's (`current`); an aborted request
may answer all the same. `metrics` stands for the sections of two requests, `requests` for
those of one. A page that is hidden while it connects keeps its key and, when shown
again, polls behind the form that is still there; `PollingExact` therefore speaks of an
open page, or of one without a key.

`ResourceMonitor` separates the thread that samples from the task that learns how the
sample ended. The clock is monotonic; a step of the wall clock, which `snapshot` subtracts
from, is left out. An exception that is neither `psutil.Error` nor `OSError` ends the task
in silence (`DieSilently`), after which the last sample is shown with the status `ok` for
ever and only its age tells; `AgeHonest` excepts it.

### AssistantPage

Whose data are in which part of the page, and whose key each request carried. `fetch` is
sent with the key of its moment, and its answer is written wherever the page has got to;
only the stream of an answer is aborted.

## 3. Runs

All passing runs exhaust their state space.

| Run | Asks |
|---|---|
| `store_admission` | Do the slot, its lease, the quotas, the rate limit and the budget hold when two callers commit with stale clocks, and is a settled row final? Does the store implement `AdmissionLease`? |
| `store_workloads` | Members, keys and invitations; ageing and pruning; the event log. Three kinds of run of one instance, chosen initially, so that they add rather than multiply. |
| `answer_slot` | Does the model serve one answer at a time and one per idempotency key, does a client read what the ledger has, does the gauge count? Does a row run until its own request is done with it or its lease is over? With rotations, revocations, a crash and a fault. |
| `answer_release` | Does every admitted request leave the slot? Does the service implement `AdmissionLease`? |
| `lab_benchmark` | Is the in-flight count exact, is there one benchmark, does every index run once, does every benchmark end whose client reads or goes? Is an answer that looks finished a whole one, does framing depend on how bytes arrive, is a saved record kept until newer ones crowd it out? |
| `simulator` | Is a slot lost or held twice, or a queue or gauge wrong, wherever cancellations fall? Does a prefix that is being used stay cached, do the bytes follow the entries, does every request end? |
| `reliability_worker` | Can the backup on record be restored, does it cover what was there when it began, does the record ever go back, does the bucket keep to its ceiling, is the signal true? Before that, in the rollout: is only what was reviewed applied, and each key made once, whatever dies on the way? |
| `observability` | How old are shown data, is Prometheus spared through failures, does the cache keep to its size, is every reader answered? How many requests can one member make, also when the table forgets it, and how many spans are sent in an hour? Do pages leave out or repeat rows, does the page poll exactly when it should and show its own data, is a sample as fresh as it says? |
| `answer_revocation`, `lab_busy`, `lab_saved`, `page_signout` | The first four disagreements of section 5. |

Some invariants are conjunctions of named parts, each stated beside it:
`LimitsKept` of the two daily quotas, the monthly budget and the rate limit,
`MembershipSound`, `LogSound`, `BenchmarksSound`, `ChatTruthful`, `KeptUntilCrowded`,
`SlotsExact`, `CacheSound`, `ReportSound`, `ShownInTime`, `LimitFair`, `SpansInBudget` and
`PagesExact`; `AdmissionSound` is the types of the store's tables, the single slot and the
uniqueness of keys. Most of them include the type invariant of their module. `WithdrawnForGood`
is two action properties, one of metadata (`HistoryStaysDeleted`) and one of keys
(`RevocationFinal`).

**Bounds.** Time is a small number of instants. `Deadline` is one instant and a
lease two, so the horizons (3 to 7) contain a lapse, a takeover and a late end
of the first holder. `LockWait`, how long a call may wait for the write lock
(`busy_timeout` in the code), is one instant: enough for two calls to commit
in the opposite order of their clocks, across the midnight and the month's end
that `MCAssistantStore` puts at instant 3. Quotas, `RateLimit` and
`MonthlyTokens` are as low as lets each of the six verdicts be the deciding
one; a reported total may exceed the reservation (`Totals = {3}` against
`Estimates = {2}`) or be unknown. In `store_workloads` metadata lives one
instant and rows three, one more than a lease, so that an abandoned row stays for a
late end; the log has two rows, denials coalesce within two
instants; invitations live one or two. In `answer_slot` metadata also lives one
instant and rows three, and requests arrive until instant 4, so an abandoned row is still
there for a retry and the retention of a key ends within the horizon; `StartDelay` bounds the
time from admission to the call of the model and `LastArrival` the last
admission so that every request can end; one crash and one fault meet each
phase of either request. `answer_release` has the instants of arrival 0 to 3: the lease
of a row that a crash left at 0 is over after 2, so a retry may find it within its lease or
take it over at 3, and the horizon leaves it time to end.
In `lab_benchmark` three requests on two workers make
a worker take a second index while the other is still busy with its first; a provider
sends up to two pieces and counts up to one, so that a part may exceed its whole; streams
have up to four lines, chunks up to three symbols, and the limits are reached by the
longest; a store of three records is filled by six of two kinds.
In `simulator` three requests meet at one slot (one serves, one was granted or
waits, one is cancelled) and of two prefixes either fits and both do not. In
`reliability_worker` the bucket takes two objects and three uploads are tried,
so a ceiling, an expiry and a lost answer occur, and two rows are committed
around them; its rollout has two resources, four jobs (plan, apply, and both again to
resume) and two mishaps. In `observability` a query lasts one instant, data are
refreshed after one and shown for two, so data outlive one failed refresh and
not two, the clock has four instants, and two of three keys fit; three members share a table of
two, so each may be forgotten and come back (once, `LastStay`), and a window of two
instants and two requests ends and starts again until instant 4 (`LastMoment`), as does an
hour of two. Pages have one row, so four
rows are four pages, the log trims at three and an offset ends at two. The sampler has
six instants for pauses of two.
Requests, keys and callers that are interchangeable are symmetric in runs that
check no liveness.

**Fairness.** `AnswerService!FairSpec` has weak fairness of the clock and of
what the event loop does with an admitted request (`Progress`); the model and
the client have none. That the slot is released rests on the
`asyncio.timeout` of the deadline, which also ends a send of a piece of the answer. The sends
of the sources and of an error are outside it. They end because they do not wait for the
client: a send waits only while more than 64 KB of the connection are unread, and three
sources with an answer of at most 256 tokens (`assistant.py:64`) are less.

A benchmark has no such bound: its records come in one event (`service.py:319`), and the
limit of 60 seconds is inside `Service.run`, not around its sends. `LabGateway!FairSpec` has
weak fairness of each benchmark's `Progress`, in which a request ends because of that limit,
and none of `Send` and of disconnects. `BenchmarkEnds` therefore assumes that the client reads
what it is sent, again and again, or goes. A client that stays connected and stops reading
keeps `benchmark_busy` set for as long as it likes; no document promises otherwise.

`Simulator!FairSpec` has weak fairness of each request's `Progress`: its sleeps
end and the event loop runs what is ready; a word whose client does not read it is sent inside
the 60 seconds of `Service.run`. Arrivals and cancellations have none. `LabSpec` of
`Lab` repeats that of the benchmarks. `Observability`
has it of the viewer at the head of the line: the lock is handed on in order
and a query ends within its time limit.

**Assumption on delays.** `StartDelay <= Deadline`: the response of an admitted
request starts within the deadline. The code sets its lease to twice the
deadline but starts the deadline at the call of the model, so `OneUpstream`
needs this; nothing in the code enforces it other than that nothing lengthy
lies between (`assistant.py:232-262`).

## 4. Theorems

Every safety property that a passing run lists is a theorem, for all values of the
constants. So are the action properties `SettledOnce`, `WithdrawnForGood`, `SlotKept`,
`ReportForward` and `QueriesSpaced`, and the refinement of `AdmissionLease` by the store and
by the service. None of the invariants is
inductive as it stands. Each proof joins it with what its steps rely on, shows that
initial states and steps keep the whole, and that the whole implies the property.

**The store.** `LedgerProofs` holds the lemmas that both users of the ledger cite: a
cleanup only *thins* a ledger (rows go, running rows stop running, charges stay), `finish`
only *settles* one running row, and an admission *extends* a swept ledger that passed the
checks by one row. `AssistantStoreProofs` has the types of the tables (`TablesTyped`), that
a key that was revoked stays so and never changes hands (`RevocationIsFinal`), and
`MembershipKept`. Its invariant `MembershipInv` counts: every member besides the founders
drew one invitation that is spent, hence members are never more than invitations.

The admission limits are proved next (`SingleSlotKept`, `IdempotencyKept`,
`DailyRequestsLimit`, `DailyTokensLimit`, `MonthlyTokensLimit`, `RateLimitKept`;
`LimitsAlwaysKept` joins the last four). They are not inductive on their own: a call carries
the quota it was authenticated with, and a call with an old clock commits after one with a
newer one. `AdmissionInv` adds the types and that a pending call has the quota of its
member's row. A stale clock matters at an admission: rows dated after the call's clock count
too, because the code compares `created` from below only, so a call dated before midnight
counts what was charged behind it. The token budgets allow the excess of one answer
(`WithinBudget`): the reservation is an estimate and the reported total may exceed it, but
while a request runs the reservation is what is charged, and one request runs at a time.

`IdempotencyWindowKept` looks at all admissions there ever were. `WindowInv` adds that each is
still in the ledger under its number or was too old when it went, and that the clock of a
pending call is at most `LockWait` behind. `LeaseImplemented` maps the holder to the running
row, the start of its term to when that row was `created` and the length of a term to `2 *
Deadline`, and assigns each step of the store to a step of the lease or a stutter. `LogKept`
needs `LogInv`: only an admission and an end name a request, its number was issued, and its end
is logged only when its row has stopped running, so that it has no end in the log yet when it
stops. Deletions select rows, and what holds for every pair of rows holds for the selected ones
(`RowsAtPart` of `SelectionProofs`), since a selection keeps their order (`Selection` by
positions, not by the recursive `SelectSeq`).

**The answer service.** `ServiceInv` says of each request, phase by phase, what the ledger
has of it. While it is in flight its row runs and its lease is not over, because it was
admitted at most `StartDelay` before it called the model and gives up at its deadline; so
nobody else can be admitted, which is `OneUpstreamKept`. Once the model was asked the row is
there until its retention is over, whether it was settled, abandoned or left by a crash:
`InferenceOnceKept`. A result was read from the record that was settled:
`ResultMatchesLedgerKept`. The gauge lies between the requests in flight and the same plus
the faults: `GaugeCountsKept`. A crash forgets the phases and keeps the rows, a fault keeps
the gauge, and the invariant holds through both.

`ServiceHoldsLease` maps the lease to the service as `LeaseImplemented` does to the store, with
`MaxAge` 0, since `prepare` reads the clock and admits in one step of the event loop.
`LedgerSteps` says which steps touch the ledger: an admission, which acquires
(`AdmitAcquires`: a row that the sweep stopped or dropped was past its lease), and a finish of a
request in flight, which releases if it succeeds (`FinishReleases`); a crash and a fault are
stutters. `SlotAlwaysKept` reads off the same steps that a row stops running only by the finish
of the request that owns it, or late. The lease alone does not say by whose finish.

**The lab.** `GatewayInv`: `inflight` is the number of runs that began and of workers at work
(a sum of cardinalities that each step changes in one place), a benchmark that is active has
`busy`, and of each benchmark alone: indexes that run or are done were taken, each by one
worker, and a group that is over has no worker left (`InflightKept`, `BenchmarksKept`).
`ChatInv`: until its record is final a client was told the start and the tokens only, all
that were heard but the one that is being sent; what follows is what the record calls for, in
its order, as far as it was sent (`ChatKept`). `StoreInv`: the connection's view
and the disk hold rows of the record each in order, and a row that is missing was crowded out
by `Retention` newer ones; the row of a save in progress is the last and not on record yet
(`StoreKept`).

`FramingInv` is about where a reader is in what was written. `Laid(off, w)`: the bytes that
arrived are the lines, `off[k]` is where line k ends, and w the width of its end; what is
missing is missing there. The lab is behind a line k and holds the data since the last blank
line. The assistant has taken the blocks up to a blank line b and holds the bytes since
(`Holds`); a separator is found in them exactly where a line ends and the next one is blank
(`SeparatorsLF`, `SeparatorsCRLF`), so that the first one found is the first such line
(`BlockEndIs`), with the right width, and the bytes before it have the data of the lines
before it (`BlockData`). In both cases what was yielded are the blocks of the lines up to that
place (`Yielded`), and a reader that stops has the verdict of the stream (`FramingKept`). Two
facts about recursion were needed, both from the least counterexample in the natural numbers
(`Least`): the recursive function of `FlattenSeq` exists for parts of any number
(`FlatteningExists`), and the ends of lines rise (`Rising`). Data are selected with `RowsAt`,
whose lemmas `SelectionProofs` has, because the provers cannot unfold `SelectSeq`.

`LabSound` puts the five together.

**The simulator.** `SlotInv` has the types, that a slot is free, held or handed to a waiter,
and the queue position by position. Each step of a request is one of six kinds as far as slots
are concerned: it is quiet, takes a free slot, joins the queue, gives a slot back to nobody,
hands it to the oldest waiter, or is dropped from the queue. There is a lemma for each
(`QuietKept`, `TakenKept`, `JoinedKept`, `FreedKept`, `HandedKept`, `DroppedKept`). `GaugeInv`
counts who waits and who runs (`GaugesAlwaysExact`). `CacheInv` has the order of the keys
without repetition, bytes equal to the weight, and that the prefix a prefill hit stays: it is
the newest entry when the prefill has the only slot, and nobody else touches the cache
meanwhile (`CacheAlwaysSound`, which rests on `SlotInv`). The first attempt at this proof
failed for a reason: the branches of an insertion were written as a CASE with guards that
overlap, which TLA+ resolves in any way. They are an IF chain now, in the order of the code.

**Reliability.** `WorkerInv` rests on the lock: only the process that has it is at work, so its
job is judged against a bucket and a report that nobody else writes. There is room for the
object it will put, its snapshot is no older than the report it will replace, and its object,
once uploaded, is stored as it was sealed until the lifecycle rule may remove it
(`ObjectsKept`, `ReportKept`, `SignalKept`, `ReportGoesForward`). `RolloutInv`: jobs are
numbered without a gap, so a new one is new; a plan that succeeded stays as it was made; what
operator.json, saved or not, calls reviewed was seen; an apply comes from such a plan, which
creates or leaves alone; and a bootstrap knows the secrets there are (`OnlyReviewedKept`,
`KeysKept`).

**Observability.** `MonitorInv`: the sampler is on time and a sample is as old as its attempt
(`AgeKept`). `PageInv`: there is at most one current request, it has the key of the page, and a
page that is open and not hidden has it or the timer (`PollingKept`, `OwnDataKept`).
`BudgetInv`: the times the code keeps are those of what was sent, never more than the budget,
and spans are counted by fate (`BudgetKept`). `LimitKept` bounds a member's admissions in any period of a window, across its stays in the
table. `LimitInv` says of a member that the table knows that its admissions end with the
`count` of its window, and that those before the window which are younger than a window when
it starts are fewer than the limit, and the limit more for each forgetting since; of a member
it does not know, that its last admission was in an earlier stay. The table is in the order
of the last admissions, and a member that it forgot was seen no later than any of those it is
full of.
`ReaderInv`: an entry's times are ordered, the viewers
stand in line and the one who asks is its head, and what a viewer got is no older than the
limit (`ShownKept`, `QueriesKept`).

`PagesInv` has a half for each way of paging (`PagesKept`). By cursor: what was shown descends
to the cursor, and a row of the start that is still in the table and can be read was shown or
lies below it; a page then shows the next rows in that order, and nothing that happens to the
table puts a row of the start elsewhere, since new rows have higher ids. By offset the *place* of
a record matters, the number of records that are newer or itself: the row at position n of the
order is the one at place n (`PlaceOfRow`, `RowOfPlace`). A place only grows when a record
comes and only shrinks when one goes, so that what was shown stays at places up to the offset as
long as none came, and what was not stays behind the offset as long as none went.

**Compositions.** A behaviour of `Lab`, `CloudReliability` or `Observability` follows one part
while the others stand still, so a step of one is a stutter of the others and keeps their
invariants.

**Assumptions.** The named assumptions of the modules, all evaluated by TLC on the instances.
Sets are assumed finite where the code has a finite number of things and the property counts
them: founders, requests of the answer service, runs, benchmarks, workers, exporters and
addresses. Requests of the simulator, members, callers, keys, viewers, processes, objects and
pieces may be infinitely many. `RecordAssumption`, `EnvelopeAssumption`, `PlanAssumption` and
`EntryAssumption` say that the value for "none" is not a record, which TLA+ leaves open.
`PagingAssumption` says that the limit of offsets is a multiple of the size of a page (1000 and
50 in the code): otherwise the last page would begin beyond the limit, where the route refuses
it.

**Model-checked only.** `SlotReleased`, `BenchmarkEnds`, `EveryRequestEnds` and
`EveryReaderAnswered` are liveness under fairness, out of the prover's reach. The four
violations are counterexamples, for which a run is the evidence.

## 5. Disagreements found

* `answer_revocation`: identity and `rotate` are two transactions. A rotation
  authenticated before a revocation mints a working key after it, and a later
  request is admitted with that key; the runbook says that revocation blocks
  new requests.
* `lab_busy`: `benchmark_busy` is set by the handler and reset by the
  generator. A client that goes before the generator begins leaves it set until
  restart.
* `lab_saved`: a client that goes while a progress event is being sent makes the
  benchmark be saved as `running`, although the handlers mean to save
  `cancelled`.
* `page_signout`: `refresh` of `assistant.js` awaits the account and the history in turn and
  writes both without asking whether its session is over. Signing out between the two
  leaves the rows of the history on the cleared page; the guide says that signing out
  clears it. The account and a rotated key can come back the same way.

A late answer to a search also wipes an answer that streams meanwhile
(`assistant.js:96-98`), which no document speaks about.

Three more follow from the models and have no run of their own:

* The dashboard's guide promises "60 API requests/minute/user"
  (`docs/observability-dashboard.md:90`). The windows of the code start with a request and are
  fixed (`observability.py:212-217`): one request at the start of a window, 59 at its end and 60
  at the start of the next are 119 in a minute. And each time that 512 others make the table
  forget a member (line 220), its count is gone and it gets 60 more. `BurstBounded`
  states the bound that holds, and it is exact: TLC refutes it with one request less, for a
  member that stays in the table and for one that is forgotten.
* `inflight` passes the bound of 16 that `config` publishes (`service.py:339`): runs are checked
  (`app.py:105`) before they are counted, so any number of them pass together, and the
  workers of a benchmark are not checked. `InflightExact` says what the count is.
* The gauge's help text says "maximum one" (`assistant.py:25`), but a `store.finish` that raises
  leaves it raised, which `GaugeCounts` accounts for by adding `faults`.

A worker that is killed leaves its temporary directory with a plaintext
snapshot behind, and nothing removes it later; `docs/cloud-reliability.md` says
that temporary plaintext snapshots are removed when the operation exits, which
holds for every exit but this one. The time
of a snapshot is read after the copy (`reliability.py:130`), so a backup is
reported younger than its data by the length of the copy.

## 6. Not modelled, and the plan

Question validation, retrieval, prompt construction and citations decide only whether
`Refuse` happens or what text is sent. Metrics and tracing are left out except the gauges
and the budget of spans. The hardware planner and the retrieval score are arithmetic on
floating-point numbers without state.

Of the modelled parts these operations are left out: the sums of `usage`, the list of
`records` and the online backup of `assistant_store.py`, which change no table; the
queries behind the telemetry cache; the filter of span names and attributes in
`cloud_tracing.py`; the HTTP framing of `workers.py`; the checks of configuration files
in the two reliability programs; the tour of `home.js` and the pages that render data.

Every safety property that a passing run checks has a proof; liveness has none (section 4).
Abstract specifications to add: a bounded LRU as a set with a weight for the
cache, and a refinement of `LabGateway`'s runs by `ChatStream`, which would need the two to
share the record they end with.
