-------------------------- MODULE ReliabilityWorker --------------------------
(***************************************************************************)
(* The one-shot reliability worker (observatory/reliability.py): backup,   *)
(* probe, drill, restore-check and prepare-trace-key, started by timers    *)
(* and by the operator on one host, against the live database, the object  *)
(* bucket with its lifecycle rule, the vault and the monitoring service.   *)
(*                                                                         *)
(* A run takes the file lock without waiting or ends at once.  Each call   *)
(* of the cloud may fail, an upload may be stored although its answer is   *)
(* lost, a download may be damaged or another object, and the process may  *)
(* be killed between any two steps.                                        *)
(***************************************************************************)
EXTENDS Naturals, FiniteSets

CONSTANTS
    Workers,      \* processes
    MaxUploads,   \* bound of the names made for objects
    Dests,        \* destinations of restore-check and prepare-trace-key
    None,         \* no process, object, report or file
    Garbage,      \* a download that is not what was uploaded
    TraceKey,     \* what prepare-trace-key writes
    MaxObjects,   \* MAX_OBJECTS
    Retention,    \* days after which the lifecycle rule removes an object
    Horizon,      \* bound of the clock
    MaxRows       \* bound of the commits to the live database

ASSUME WorkerAssumption ==
    /\ {MaxUploads, MaxObjects, Retention, Horizon, MaxRows} \subseteq Nat
    /\ None \notin Workers \cup 0 .. MaxUploads
    /\ None \notin {Garbage, TraceKey} /\ Garbage # TraceKey

Names == 1 .. MaxUploads   \* names of objects, each a fresh random one in the code
NoName == 0

VARIABLES
    now,        \* wall clock
    rows,       \* number of commits to the live database
    bucket,     \* the object stored under each name
    used,       \* number of names that were made
    holder,     \* the process that has worker.lock
    jobs,       \* what each process is doing
    latest,     \* latest-backup.json
    restored,   \* the file at each destination
    signal      \* BackupVerified and BackupAgeSeconds, as last published

vars == <<now, rows, bucket, used, holder, jobs, latest, restored, signal>>

Actions == {"backup", "probe", "drill", "restore-check", "prepare-trace-key"}
Phases == {"idle", "capacity", "copy", "stamp", "key", "put", "get", "open", "write",
           "report", "done", "measure", "drill"}

\* An envelope: the commits its snapshot has, snapshot_at, and the name in its binding.
\* The version of its key is that of the secret when it was sealed, which stays.
Envelope == [rows : 0 .. MaxRows, at : 0 .. Horizon, name : Names \cup {NoName}]
NoEnvelope == [rows |-> 0, at |-> 0, name |-> NoName]

ASSUME EnvelopeAssumption == None \notin Envelope

\* began: the commits when the backup began.
Job == [phase  : Phases,
        action : Actions,
        began  : 0 .. MaxRows,
        snap   : Envelope,
        got    : Envelope \cup {Garbage, TraceKey},
        dest   : Dests \cup {None}]

NoJob == [phase |-> "idle", action |-> "probe", began |-> 0, snap |-> NoEnvelope,
          got |-> NoEnvelope, dest |-> None]

Report == [object : Envelope, began : 0 .. MaxRows]
\* since: the time of the datapoint less the age it shows.
Signal == [verified : BOOLEAN, since : 0 .. Horizon]

Init ==
    /\ now = 0 /\ rows = 0
    /\ bucket = [n \in Names |-> None]
    /\ used = 0
    /\ holder = None
    /\ jobs = [w \in Workers |-> NoJob]
    /\ latest = None
    /\ restored = [d \in Dests |-> None]
    /\ signal = [verified |-> FALSE, since |-> 0]

At(w, phase) == jobs[w].phase = phase
Stored == {n \in Names : bucket[n] # None}

-----------------------------------------------------------------------------
(***************************************************************************)
(* What goes on around the worker.                                         *)
(***************************************************************************)
World ==
    /\ \/ now < Horizon /\ now' = now + 1 /\ UNCHANGED <<rows, bucket>>
       \/ rows < MaxRows /\ rows' = rows + 1 /\ UNCHANGED <<now, bucket>>
       \/ \E n \in Stored :
             \* The rule counts from the upload, not before the snapshot.
             /\ now >= bucket[n].at + Retention
             /\ bucket' = [bucket EXCEPT ![n] = None]
             /\ UNCHANGED <<now, rows>>
    /\ UNCHANGED <<used, holder, jobs, latest, restored, signal>>

-----------------------------------------------------------------------------
(***************************************************************************)
(* The lock.                                                               *)
(***************************************************************************)
\* Seeded fault: the lock does not exclude other processes.
UnlockedAlways == TRUE

Unlocked == holder = None

\* A process that finds the lock taken ends without a trace.
Start(w, action, name, dest) ==
    /\ At(w, "idle") /\ Unlocked
    /\ holder' = w
    /\ jobs' = [jobs EXCEPT ![w] =
          [NoJob EXCEPT !.action = action, !.snap.name = name, !.dest = dest,
                        !.phase  = CASE action = "backup"        -> "capacity"
                                     [] action = "probe"         -> "measure"
                                     [] action = "drill"         -> "drill"
                                     [] action = "restore-check" -> "get"
                                     [] OTHER                    -> "key"]]
    /\ UNCHANGED <<now, rows, bucket, used, latest, restored, signal>>

\* The process ends: its lock is closed, by itself or by the kernel.  Files it leaves in
\* a temporary directory are read by nobody.
Exit(w) ==
    /\ jobs' = [jobs EXCEPT ![w] = NoJob]
    /\ holder' = None

\* Any call raises: the cloud, the disk, the deadline of the snapshot, a check; or the
\* process is killed.
Fail(w) ==
    /\ ~At(w, "idle")
    /\ Exit(w)
    /\ UNCHANGED <<now, rows, bucket, used, latest, restored, signal>>

Becomes(w, job) == jobs' = [jobs EXCEPT ![w] = job]

-----------------------------------------------------------------------------
(***************************************************************************)
(* backup                                                                  *)
(***************************************************************************)
\* Seeded fault: one object too many.
RoomByOne == Cardinality(Stored) <= MaxObjects

Room == Cardinality(Stored) < MaxObjects

Capacity(w) ==
    /\ At(w, "capacity")
    /\ Room
    /\ Becomes(w, [jobs[w] EXCEPT !.phase = "copy", !.began = rows])
    /\ UNCHANGED <<now, rows, bucket, used, holder, latest, restored, signal>>

\* The online backup starts over when the source changes, so it ends with what is
\* committed at its end.
Copied(w) == rows

Copy(w) ==
    /\ At(w, "copy")
    /\ Becomes(w, [jobs[w] EXCEPT !.phase = "stamp", !.snap.rows = Copied(w)])
    /\ UNCHANGED <<now, rows, bucket, used, holder, latest, restored, signal>>

\* snapshot_at is read after the copy.
Stamp(w) ==
    /\ At(w, "stamp")
    /\ Becomes(w, [jobs[w] EXCEPT !.phase = "key", !.snap.at = now])
    /\ UNCHANGED <<now, rows, bucket, used, holder, latest, restored, signal>>

\* The current key, the name and the envelope bound to it.
Seal(w) ==
    /\ At(w, "key") /\ jobs[w].action = "backup" /\ used < MaxUploads
    /\ used' = used + 1
    /\ Becomes(w, [jobs[w] EXCEPT !.phase = "put", !.snap.name = used + 1])
    /\ UNCHANGED <<now, rows, bucket, holder, latest, restored, signal>>

\* The object is stored; its answer may be lost, and then the run fails.
Put(w) ==
    /\ At(w, "put")
    /\ bucket[jobs[w].snap.name] = None
    /\ bucket' = [bucket EXCEPT ![jobs[w].snap.name] = jobs[w].snap]
    /\ \/ Becomes(w, [jobs[w] EXCEPT !.phase = "get"]) /\ UNCHANGED holder
       \/ Exit(w)
    /\ UNCHANGED <<now, rows, used, latest, restored, signal>>

-----------------------------------------------------------------------------
(***************************************************************************)
(* restore, of a backup and of restore-check                               *)
(***************************************************************************)
\* What comes back need not be what was asked for: the storage is not trusted with it.
Get(w) ==
    /\ At(w, "get")
    /\ bucket[jobs[w].snap.name] # None
    /\ \E got \in {bucket[n] : n \in Stored} \cup {Garbage} :
          Becomes(w, [jobs[w] EXCEPT !.phase = "open", !.got = got])
    /\ UNCHANGED <<now, rows, bucket, used, holder, latest, restored, signal>>

\* Seeded fault: the envelope is not bound to a name.
AuthenticUnbound(w) == jobs[w].got # Garbage

\* The historical key opens the envelope, which is bound to the name it was asked for,
\* and the digest, the integrity check and the table counts agree.
Authentic(w) ==
    /\ jobs[w].got # Garbage
    /\ jobs[w].got.name = jobs[w].snap.name

Open(w) ==
    /\ At(w, "open")
    /\ Authentic(w)
    /\ Becomes(w, [jobs[w] EXCEPT !.phase = IF jobs[w].action = "backup"
                                            THEN "report" ELSE "write"])
    /\ UNCHANGED <<now, rows, bucket, used, holder, latest, restored, signal>>

Vacant(d) == restored[d] = None

\* prepare-trace-key: the upload key is read from the vault.
ReadKey(w) ==
    /\ At(w, "key") /\ jobs[w].action = "prepare-trace-key"
    /\ Becomes(w, [jobs[w] EXCEPT !.phase = "write", !.got = TraceKey])
    /\ UNCHANGED <<now, rows, bucket, used, holder, latest, restored, signal>>

\* The file of either appears by a link, which fails when there is one.
Write(w) ==
    /\ At(w, "write")
    /\ Vacant(jobs[w].dest)
    /\ restored' = [restored EXCEPT ![jobs[w].dest] = jobs[w].got]
    /\ Exit(w)
    /\ UNCHANGED <<now, rows, bucket, used, latest, signal>>

\* latest-backup.json is replaced in one step.
Record(w) ==
    /\ At(w, "report")
    /\ latest' = [object |-> jobs[w].got, began |-> jobs[w].began]
    /\ Becomes(w, [jobs[w] EXCEPT !.phase = "done"])
    /\ UNCHANGED <<now, rows, bucket, used, holder, restored, signal>>

End(w) ==
    /\ At(w, "done")
    /\ Exit(w)
    /\ UNCHANGED <<now, rows, bucket, used, latest, restored, signal>>

-----------------------------------------------------------------------------
(***************************************************************************)
(* probe                                                                   *)
(***************************************************************************)
\* Seeded fault: the age counts from the probe.
MeasuredNow ==
    IF latest = None \/ latest.object.at > now THEN [verified |-> FALSE, since |-> 0]
    ELSE [verified |-> TRUE, since |-> now]

\* measure and publish, between which the lock is kept: a missing report or one from
\* the future is not a success.
Measured ==
    IF latest = None \/ latest.object.at > now THEN [verified |-> FALSE, since |-> 0]
    ELSE [verified |-> TRUE, since |-> latest.object.at]

Probe(w) ==
    /\ At(w, "measure")
    /\ signal' = Measured
    /\ Exit(w)
    /\ UNCHANGED <<now, rows, bucket, used, latest, restored>>

\* The drill publishes a metric of its own, under another source.
Drill(w) ==
    /\ At(w, "drill")
    /\ Exit(w)
    /\ UNCHANGED <<now, rows, bucket, used, latest, restored, signal>>

-----------------------------------------------------------------------------
Progress(w) ==
    \/ Capacity(w) \/ Copy(w) \/ Stamp(w) \/ Seal(w) \/ Put(w) \/ Get(w) \/ Open(w)
    \/ ReadKey(w) \/ Write(w) \/ Record(w) \/ End(w) \/ Probe(w) \/ Drill(w) \/ Fail(w)

Next ==
    \/ World
    \/ \E w \in Workers :
          \/ \E a \in {"backup", "probe", "drill"} : Start(w, a, NoName, None)
          \/ \E d \in Dests : Start(w, "prepare-trace-key", NoName, d)
          \/ \E n \in 1 .. used, d \in Dests : Start(w, "restore-check", n, d)
          \/ Progress(w)

Spec == Init /\ [][Next]_vars

-----------------------------------------------------------------------------
(***************************************************************************)
(* What the worker promises.                                               *)
(***************************************************************************)
TypeOK ==
    /\ now \in 0 .. Horizon /\ rows \in 0 .. MaxRows
    /\ bucket \in [Names -> Envelope \cup {None}]
    /\ used \in 0 .. MaxUploads
    /\ holder \in Workers \cup {None}
    /\ jobs \in [Workers -> Job]
    /\ latest \in Report \cup {None}
    /\ restored \in [Dests -> Envelope \cup {None, TraceKey}]
    /\ signal \in Signal

\* The bucket never holds more than the ceiling, also after uploads whose answers
\* were lost and runs that were killed.
ObjectsBounded == Cardinality(Stored) <= MaxObjects

\* The backup that is on record can be restored for as long as the lifecycle rule
\* lets it be: its object is stored as it was verified.
ReportRestorable ==
    latest # None =>
        /\ latest.object # Garbage
        /\ now < latest.object.at + Retention => bucket[latest.object.name] = latest.object

\* The backup on record has every commit that was made before it began.
ReportCovers == latest # None => latest.object.rows >= latest.began

\* backup: what is on record is there to be restored and covers what it should, whatever
\* the storage answers, and no damaged download gets into a report or a restored file
\* (TypeOK).
ReportSound == TypeOK /\ ReportRestorable /\ ReportCovers

\* A record is never replaced by one of an older snapshot.
ReportForward ==
    [][latest # None => /\ latest'.object.at >= latest.object.at
                        /\ latest'.object.rows >= latest.object.rows]_vars

\* A backup that monitoring shows as verified exists, with the age it shows.
SignalTruthful ==
    signal.verified =>
        \/ now >= signal.since + Retention
        \/ \E n \in Stored : bucket[n].at = signal.since

=============================================================================
