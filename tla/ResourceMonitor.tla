-------------------------- MODULE ResourceMonitor --------------------------
(***************************************************************************)
(* The sampler of the gateway's own resources (observatory/resources.py).  *)
(* A task on the event loop sleeps and has a thread take a sample; what    *)
(* the dashboard and the scrapes of Prometheus show is read in between, by *)
(* the loop and by other threads.                                          *)
(***************************************************************************)
EXTENDS Integers

CONSTANTS
    Unmeasured,    \* None
    Interval,      \* 2 seconds in the code
    SampleTime,    \* the longest a sample takes
    LastInstant    \* bound of the clock

ASSUME MonitorAssumption ==
    /\ {Interval, SampleTime, LastInstant} \subseteq Nat
    /\ Unmeasured \notin Nat

VARIABLES
    instant,     \* the clock
    used,        \* CPU seconds of the process
    sampler,     \* what the task is at, and since when
    previous,    \* when the last sample began and what was used then
    latest,      \* the sample that is shown
    cores,       \* what the sample under way has computed
    lastEnded    \* the last sample that the task knows ended: how, and when it was taken

monitorVars == <<instant, used, sampler, previous, latest, cores, lastEnded>>

Instants == 0 .. LastInstant

\* sampling: the thread has not read the process; reading: it has, and reads the host;
\* failing: it raised, which the task has not seen; dead: it raised something else, and
\* the task ended; stopped: it was cancelled, with the thread perhaps still at work.
Phases == {"sampling", "reading", "failing", "sleeping", "dead", "stopped"}

Rate == [used : Instants, over : Instants \ {0}]

MonitorInit ==
    /\ instant = 0
    /\ used = 0
    /\ sampler = [phase |-> "sampling", since |-> 0]
    /\ previous = Unmeasured
    /\ latest = Unmeasured
    /\ cores = Unmeasured
    /\ lastEnded = Unmeasured

Sampler(phase) == sampler.phase = phase

Becomes(phase) == sampler' = [phase |-> phase, since |-> instant]

Wake ==
    /\ Sampler("sleeping") /\ instant = sampler.since + Interval
    /\ Becomes("sampling")
    /\ UNCHANGED <<instant, used, previous, latest, cores, lastEnded>>

\* Seeded fault: what was used is divided by the time since the last sample was shown.
ReadProcessAgainstShown ==
    /\ Sampler("sampling")
    /\ cores' = IF latest # Unmeasured /\ instant > latest.at
                THEN [used |-> used - previous.used, over |-> instant - latest.at]
                ELSE Unmeasured
    /\ previous' = [at |-> instant, used |-> used]
    /\ sampler' = [sampler EXCEPT !.phase = "reading"]
    /\ UNCHANGED <<instant, used, latest, lastEnded>>

\* The CPU share needs an earlier sample and time between them.
ReadProcess ==
    /\ Sampler("sampling")
    /\ cores' = IF previous # Unmeasured /\ instant > previous.at
                THEN [used |-> used - previous.used, over |-> instant - previous.at]
                ELSE Unmeasured
    /\ previous' = [at |-> instant, used |-> used]
    /\ sampler' = [sampler EXCEPT !.phase = "reading"]
    /\ UNCHANGED <<instant, used, latest, lastEnded>>

\* The thread stores the sample; the task goes back to sleep.
Publish ==
    /\ Sampler("reading")
    /\ latest' = [at |-> instant, cores |-> cores]
    /\ lastEnded' = [ok |-> TRUE, at |-> instant]
    /\ Becomes("sleeping")
    /\ UNCHANGED <<instant, used, previous, cores>>

\* psutil.Error or OSError, before or after the process was read.
Raise ==
    /\ Sampler("sampling") \/ Sampler("reading")
    /\ sampler' = [sampler EXCEPT !.phase = "failing"]
    /\ UNCHANGED <<instant, used, previous, latest, cores, lastEnded>>

\* The task drops what is shown.
Drop ==
    /\ Sampler("failing")
    /\ latest' = Unmeasured
    /\ lastEnded' = [ok |-> FALSE, at |-> instant]
    /\ Becomes("sleeping")
    /\ UNCHANGED <<instant, used, previous, cores>>

\* Any other exception ends the task, and nobody waits for it before the shutdown; the
\* first sample is not taken by the task, and ends the start of the service.
DieSilently ==
    /\ Sampler("sampling") \/ Sampler("reading")
    /\ lastEnded # Unmeasured
    /\ Becomes("dead")
    /\ UNCHANGED <<instant, used, previous, latest, cores, lastEnded>>

\* The shutdown cancels the task; a thread at work finishes its sample.
StopMonitor ==
    /\ ~Sampler("stopped") /\ lastEnded # Unmeasured
    /\ Becomes("stopped")
    /\ \/ UNCHANGED latest
       \/ Sampler("reading") /\ latest' = [at |-> instant, cores |-> cores]
    /\ UNCHANGED <<instant, used, previous, cores, lastEnded>>

MonitorTick ==
    /\ instant < LastInstant
    /\ Sampler("sleeping") => instant < sampler.since + Interval
    /\ sampler.phase \in {"sampling", "reading", "failing"} => instant < sampler.since + SampleTime
    /\ instant' = instant + 1
    /\ used' \in {used, used + 1}
    /\ UNCHANGED <<sampler, previous, latest, cores, lastEnded>>

MonitorNext ==
    Wake \/ ReadProcess \/ Publish \/ Raise \/ Drop \/ DieSilently \/ StopMonitor \/ MonitorTick

MonitorSpec == MonitorInit /\ [][MonitorNext]_monitorVars

-----------------------------------------------------------------------------
\* snapshot.
SampleAge == IF instant > latest.at THEN instant - latest.at ELSE 0

MonitorTypeOK ==
    /\ instant \in Instants /\ used \in Instants
    /\ sampler \in [phase : Phases, since : Instants]
    /\ previous \in [at : Instants, used : Instants] \cup {Unmeasured}
    /\ latest \in [at : Instants, cores : Rate \cup {Unmeasured}] \cup {Unmeasured}
    /\ cores \in Rate \cup {Unmeasured}

\* "Do not retain stale numbers as though they were fresh measurements"
\* (observatory/resources.py:99): while the task runs, what is shown is the sample of its
\* last attempt, or of one before it that has just ended, and no older than a pause and
\* a sample; a CPU share is of one interval, and no more than was used in it.
AgeHonest ==
    /\ MonitorTypeOK
    /\ sampler.phase \notin {"dead", "stopped"} /\ latest # Unmeasured =>
          /\ lastEnded.ok /\ latest.at = lastEnded.at
          /\ SampleAge <= Interval + SampleTime
    /\ latest # Unmeasured /\ latest.cores # Unmeasured =>
          latest.cores.used \in 0 .. latest.cores.over
=============================================================================
