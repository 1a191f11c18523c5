----------------------------- MODULE SpanBudget -----------------------------
(***************************************************************************)
(* The hourly budget of exported spans (cloud_tracing.py, PrivateExporter).*)
(* The times of the attempts are kept and pruned under a lock; the batch   *)
(* is delivered after the lock is left, and may fail.                      *)
(***************************************************************************)
EXTENDS Recency, FiniteSets

CONSTANTS
    Exporters,   \* threads that call export
    Batch,       \* spans in a batch, at most
    Budget,      \* budget
    Hour,        \* 3600 seconds
    MaxSpans,    \* bound of the spans that are given to export
    LastReading  \* bound of the clock

ASSUME BudgetAssumption ==
    /\ {Batch, Budget, Hour, MaxSpans, LastReading} \subseteq Nat \ {0}
    /\ IsFiniteSet(Exporters)

VARIABLES
    clock,       \* self.clock()
    attempts,    \* PrivateExporter.attempts
    batches,     \* the accepted spans that each thread is delivering
    spans,       \* EXPORTED by result, and the spans given
    sent         \* the times at which spans were accepted, of this hour

spanVars == <<clock, attempts, batches, spans, sent>>

Results == {"given", "filtered", "budget_dropped", "attempted", "failed"}

SpanInit ==
    /\ clock = 0
    /\ attempts = <<>>
    /\ batches = [e \in Exporters |-> 0]
    /\ spans = [r \in Results |-> 0]
    /\ sent = <<>>

Lesser(m, n) == IF m < n THEN m ELSE n

\* Seeded fault: the attempt that is an hour old counts no more, nor one a second younger.
YoungEarly(times) == Since(times, clock + 1, Hour)

\* The attempts of the last hour.
Young(times) == Since(times, clock, Hour)

Rest(times) == Budget - Lesser(Budget, Len(times))

\* export up to the end of the lock: `clean` of `given` spans pass the filter.
Export(e, given, clean) ==
    LET young    == Young(attempts)
        accepted == Lesser(clean, Rest(young))
    IN  /\ batches[e] = 0 /\ spans["given"] + given <= MaxSpans
        /\ attempts' = young \o [i \in 1 .. accepted |-> clock]
        /\ batches' = [batches EXCEPT ![e] = accepted]
        /\ sent' = Since(sent, clock, Hour) \o [i \in 1 .. accepted |-> clock]
        /\ spans' = [spans EXCEPT !["given"] = @ + given,
                                  !["filtered"] = @ + (given - clean),
                                  !["budget_dropped"] = @ + (clean - accepted)]
        /\ UNCHANGED clock

\* The transport answers, or fails, within its time limit.
Deliver(e) ==
    /\ batches[e] > 0
    /\ \E r \in {"attempted", "failed"} : spans' = [spans EXCEPT ![r] = @ + batches[e]]
    /\ batches' = [batches EXCEPT ![e] = 0]
    /\ UNCHANGED <<clock, attempts, sent>>

SpanTick ==
    /\ clock < LastReading
    /\ clock' = clock + 1
    /\ UNCHANGED <<attempts, batches, spans, sent>>

SpanNext ==
    \/ SpanTick
    \/ \E e \in Exporters :
          \/ \E given \in 1 .. Batch : \E clean \in 0 .. given : Export(e, given, clean)
          \/ Deliver(e)

-----------------------------------------------------------------------------
\* In no period of an hour are more spans sent than the budget, failures included.
HourlyBudget ==
    Cardinality({i \in DOMAIN sent : sent[i] + Hour > clock}) <= Budget

\* The spans that are being delivered, each by its thread and its place in the batch.
InDelivery == {s \in Exporters \X (1 .. Batch) : s[2] <= batches[s[1]]}

\* Every span is counted once by its fate, or is being delivered.
SpansAccounted ==
    spans["given"] =
        spans["filtered"] + spans["budget_dropped"] + spans["attempted"] + spans["failed"]
        + Cardinality(InDelivery)

\* export: the budget holds with failures and threads, and no span is unaccounted for.
SpansInBudget == HourlyBudget /\ SpansAccounted
=============================================================================
