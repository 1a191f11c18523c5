-------------------------- MODULE ReliabilityProofs --------------------------
(***************************************************************************)
(* Theorems about the reliability worker and the rollout, for any number   *)
(* of processes, objects, jobs and resources, any retention and any        *)
(* number of mishaps.                                                      *)
(***************************************************************************)
EXTENDS CloudReliability, FiniteSetTheorems, TLAPS

(***************************************************************************)
(* The worker.  Only the process that has the lock is at work, so that a   *)
(* job is judged against a bucket and a report that nobody else writes:    *)
(* there is room for the object it will put; its snapshot is no older than *)
(* the report it will replace; once uploaded, its object is stored as it   *)
(* was sealed until the lifecycle rule may remove it.                      *)
(***************************************************************************)
Before == {"copy", "stamp", "key", "put"}   \* the object is not stored yet
After  == {"get", "open", "report"}         \* it was stored

\* An object that was stored stays until its time.
Lasts(object) ==
    /\ object.name \in Names
    /\ now < object.at + Retention => bucket[object.name] = object

Backup(j) == j.action = "backup"

\* What a backup owes the report it will replace: no snapshot older than that one.
RowsKnown(j) ==
    /\ j.began <= j.snap.rows /\ j.snap.rows <= rows
    /\ latest # None => latest.object.rows <= j.snap.rows

TimeKnown(j) ==
    /\ j.snap.at <= now
    /\ latest # None => latest.object.at <= j.snap.at

BackupSound(j) ==
    /\ j.phase \in Before => Cardinality(Stored) < MaxObjects
    /\ j.phase \in {"copy", "stamp"} => j.began <= rows
    /\ j.phase \in {"stamp", "key", "put"} \cup After => RowsKnown(j)
    /\ j.phase \in {"key", "put"} \cup After => TimeKnown(j)
    /\ j.phase = "put" => j.snap.name \in Names
    /\ j.phase \in After => Lasts(j.snap) /\ bucket[j.snap.name] \in {j.snap, None}
    /\ j.phase = "open" /\ j.got # Garbage => j.got.name # j.snap.name \/ j.got = j.snap
    /\ j.phase = "report" => j.got = j.snap /\ j.got # Garbage

JobSound(j) ==
    /\ j.phase \in {"capacity", "copy", "stamp", "put", "report"} => Backup(j)
    /\ j.phase = "write" => ~Backup(j) /\ j.got # Garbage
    /\ j.phase = "open" => j.got \in Envelope \cup {Garbage}
    /\ j.phase \in {"get", "open"} => j.snap.name \in Names
    /\ Backup(j) => BackupSound(j)

OneAtWork == \A w \in Workers : ~At(w, "idle") => holder = w

JobsSound == OneAtWork /\ \A w \in Workers : JobSound(jobs[w])

\* The report is of an object that was stored, from the past.
LatestSound ==
    latest # None => /\ Lasts(latest.object) /\ latest.object # Garbage
                     /\ latest.object.at <= now /\ latest.object.rows <= rows
                     /\ latest.began <= latest.object.rows

\* An object is stored under the name it is bound to.
BucketNamed == \A n \in Stored : bucket[n].name = n

WorkerInv ==
    TypeOK /\ JobsSound /\ ObjectsBounded /\ LatestSound /\ SignalTruthful

-----------------------------------------------------------------------------
LEMMA StoredCountable ==
    IsFiniteSet(Stored) /\ Cardinality(Stored) \in Nat /\ Stored \subseteq Names
<1>1. Stored \subseteq 1 .. MaxUploads /\ IsFiniteSet(1 .. MaxUploads)
  BY WorkerAssumption, FS_Interval DEF Stored, Names
<1> QED
  BY <1>1, FS_Subset, FS_CardinalityType DEF Names

LEMMA NothingToDo ==
    /\ NoJob \in Job /\ NoJob.phase = "idle"
    /\ \A j \in Job : j.phase = "idle" => JobSound(j)
<1>1. NoJob \in Job /\ NoJob.phase = "idle"
  BY WorkerAssumption DEF NoJob, Job, Phases, Actions, NoEnvelope, Envelope, NoName
<1>2. ASSUME NEW j \in Job, j.phase = "idle"
      PROVE  JobSound(j)
  BY <1>2 DEF JobSound, BackupSound, Before, After
<1> QED
  BY <1>1, <1>2

\* The process with the lock, or one that gets it, goes on; all others are idle.
LEMMA OneGoesOn ==
    ASSUME jobs \in [Workers -> Job], OneAtWork,
           NEW w \in Workers, NEW new \in Job, holder \in {w, None},
           jobs' = [jobs EXCEPT ![w] = new],
           holder' = w \/ new.phase = "idle",
           JobSound(new)'
    PROVE  jobs' \in [Workers -> Job] /\ JobsSound'
<1>1. jobs' \in [Workers -> Job] /\ jobs'[w] = new
  OBVIOUS
<1>2. \A v \in Workers \ {w} : jobs'[v] = jobs[v] /\ jobs[v] \in Job /\ jobs[v].phase = "idle"
  BY WorkerAssumption DEF OneAtWork, At
<1>3. OneAtWork'
  BY <1>1, <1>2 DEF OneAtWork, At
<1>4. ASSUME NEW v \in Workers \ {w}
      PROVE  JobSound(jobs[v])'
  <2> PICK j : j = jobs'[v]
    OBVIOUS
  <2>1. j \in Job /\ j.phase = "idle"
    BY <1>2
  <2>2. JobSound(j)'
    BY <2>1 DEF JobSound, BackupSound, Before, After
  <2> QED
    BY <2>2
<1>5. JobSound(jobs[w])'
  BY <1>1
<1> QED
  BY <1>1, <1>3, <1>4, <1>5 DEF JobsSound

LEMMA OneLeaves ==
    ASSUME jobs \in [Workers -> Job], OneAtWork,
           NEW w \in Workers, ~At(w, "idle"), Exit(w)
    PROVE  jobs' \in [Workers -> Job] /\ JobsSound' /\ holder' = None
<1>1. holder = w /\ jobs' = [jobs EXCEPT ![w] = NoJob] /\ holder' = None
  BY DEF OneAtWork, Exit
<1>2. NoJob \in Job /\ NoJob.phase = "idle"
  BY NothingToDo
<1>3. JobSound(NoJob)'
  BY <1>2 DEF JobSound, BackupSound, Before, After
<1> QED
  BY <1>1, <1>2, <1>3, OneGoesOn

\* What a step leaves of what jobs and the report are judged against.
Judges == <<now, rows, bucket, latest>>

LEMMA JudgedAlike ==
    ASSUME UNCHANGED Judges
    PROVE  /\ \A j \in Job : JobSound(j) => JobSound(j)'
           /\ LatestSound => LatestSound'
           /\ ObjectsBounded => ObjectsBounded'
           /\ signal' = signal /\ SignalTruthful => SignalTruthful'
<1>1. Stored' = Stored
  BY DEF Stored, Judges
<1>2. ASSUME NEW j \in Job, JobSound(j)
      PROVE  JobSound(j)'
  <2>1. RowsKnown(j) => RowsKnown(j)'
    BY DEF RowsKnown, Judges
  <2>2. TimeKnown(j) => TimeKnown(j)'
    BY DEF TimeKnown, Judges
  <2>3. Lasts(j.snap) => Lasts(j.snap)'
    BY DEF Lasts, Judges
  <2>4. Backup(j) => BackupSound(j)'
    BY <1>1, <1>2, <2>1, <2>2, <2>3 DEF JobSound, BackupSound, Judges
  <2> QED
    BY <1>2, <2>4 DEF JobSound, Backup
<1>3. LatestSound => LatestSound'
  BY DEF LatestSound, Lasts, Judges
<1>4. ObjectsBounded => ObjectsBounded'
  BY <1>1 DEF ObjectsBounded
<1>5. signal' = signal /\ SignalTruthful => SignalTruthful'
  BY <1>1 DEF SignalTruthful, Judges
<1> QED
  BY <1>2, <1>3, <1>4, <1>5

LEMMA WorldKept == WorkerInv /\ World => WorkerInv'
<1> SUFFICES ASSUME WorkerInv, World
             PROVE  WorkerInv'
  OBVIOUS
<1>1. /\ TypeOK /\ OneAtWork /\ ObjectsBounded /\ LatestSound /\ SignalTruthful
      /\ \A w \in Workers : jobs[w] \in Job /\ JobSound(jobs[w])
      /\ {MaxUploads, MaxObjects, Retention, Horizon, MaxRows} \subseteq Nat
  BY WorkerAssumption DEF WorkerInv, JobsSound, TypeOK
<1>2. /\ now' \in 0 .. Horizon /\ rows' \in 0 .. MaxRows /\ now <= now' /\ rows <= rows'
      /\ now \in Nat /\ rows \in Nat /\ now' \in Nat /\ rows' \in Nat
      /\ UNCHANGED <<used, holder, jobs, latest, restored, signal>>
  BY <1>1 DEF World, TypeOK
<1>3. \A n \in Names : \/ bucket'[n] = bucket[n]
                       \/ bucket'[n] = None /\ bucket[n] # None /\ now >= bucket[n].at + Retention
  BY <1>1 DEF World, TypeOK, Stored
<1>4. TypeOK'
  <2>1. bucket' \in [Names -> Envelope \cup {None}]
    BY <1>1 DEF World, TypeOK
  <2> QED
    BY <1>1, <1>2, <2>1 DEF TypeOK
<1>5. Stored' \subseteq Stored
  BY <1>3 DEF Stored
<1>6. Cardinality(Stored)' <= Cardinality(Stored) /\ Cardinality(Stored)' \in Nat /\ Cardinality(Stored) \in Nat
  BY <1>5, StoredCountable, FS_Subset, FS_CardinalityType
<1>7. ASSUME NEW object \in Envelope, Lasts(object)
      PROVE  Lasts(object)'
  <2>1. object.at \in Nat /\ object.name \in Names
    BY <1>1, <1>7 DEF Lasts, Envelope
  <2>2. now' < object.at + Retention => now < object.at + Retention
    BY <1>1, <1>2, <2>1
  <2>3. now' < object.at + Retention => bucket'[object.name] = object
    BY <1>1, <1>2, <1>3, <1>7, <2>1, <2>2 DEF Lasts
  <2> QED
    BY <2>1, <2>3 DEF Lasts
<1>8. \A object \in Envelope : object.name \in Names /\ bucket[object.name] \in {object, None}
                               => bucket'[object.name] \in {object, None}
  BY <1>3
<1>9. ASSUME NEW j \in Job, JobSound(j)
      PROVE  JobSound(j)'
  <2>1. j.snap \in Envelope /\ j.began \in Nat /\ j.snap.rows \in Nat /\ j.snap.at \in Nat
    BY <1>1 DEF Job, Envelope
  <2>2. RowsKnown(j) => RowsKnown(j)'
    BY <1>2, <2>1 DEF RowsKnown
  <2>3. TimeKnown(j) => TimeKnown(j)'
    BY <1>2, <2>1 DEF TimeKnown
  <2>4. j.began <= rows => j.began <= rows'
    BY <1>2, <2>1
  <2>5. Cardinality(Stored) < MaxObjects => Cardinality(Stored)' < MaxObjects
    BY <1>1, <1>6
  <2>6. Backup(j) => BackupSound(j)'
    <3>1. Lasts(j.snap) => Lasts(j.snap)' /\ j.snap.name \in Names
      BY <1>7, <2>1 DEF Lasts
    <3> QED
      BY <1>8, <1>9, <2>1, <2>2, <2>3, <2>4, <2>5, <3>1 DEF JobSound, BackupSound
  <2> QED
    BY <1>9, <2>6 DEF JobSound, Backup
<1>10. JobsSound'
  <2>1. OneAtWork'
    BY <1>1, <1>2 DEF OneAtWork, At
  <2>2. ASSUME NEW w \in Workers
        PROVE  JobSound(jobs[w])'
    <3> PICK j : j = jobs[w]
      OBVIOUS
    <3>1. JobSound(j)' /\ j = jobs'[w]
      BY <1>1, <1>2, <1>9
    <3> QED
      BY <3>1
  <2> QED
    BY <2>1, <2>2 DEF JobsSound
<1>11. ObjectsBounded'
  BY <1>1, <1>6 DEF ObjectsBounded
<1>12. LatestSound'
  <2> SUFFICES ASSUME latest # None
               PROVE  /\ Lasts(latest.object)' /\ latest.object # Garbage
                      /\ latest.object.at <= now' /\ latest.object.rows <= rows'
                      /\ latest.began <= latest.object.rows
    BY <1>2 DEF LatestSound
  <2> PICK object : object = latest.object
    OBVIOUS
  <2>1. object \in Envelope /\ object.at \in Nat /\ object.rows \in Nat
    BY <1>1 DEF TypeOK, Report, Envelope
  <2>2. Lasts(object)' /\ object = latest'.object
    BY <1>1, <1>2, <1>7, <2>1 DEF LatestSound
  <2>3. Lasts(latest.object)'
    BY <2>2
  <2> QED
    BY <1>1, <1>2, <2>1, <2>3 DEF LatestSound
<1>13. SignalTruthful'
  <2> SUFFICES ASSUME signal.verified
               PROVE  now' >= signal.since + Retention \/ \E n \in Stored' : bucket'[n].at = signal.since
    BY <1>2 DEF SignalTruthful
  <2>1. signal.since \in Nat
    BY <1>1 DEF TypeOK, Signal
  <2>2. CASE now >= signal.since + Retention
    BY <1>1, <1>2, <2>1, <2>2
  <2>3. CASE ~(now >= signal.since + Retention)
    <3> PICK n \in Stored : bucket[n].at = signal.since
      BY <1>1, <2>3 DEF SignalTruthful
    <3>1. n \in Names /\ bucket'[n] = bucket[n]
      BY <1>3, <2>3, StoredCountable
    <3> QED
      BY <3>1 DEF Stored
  <2> QED
    BY <2>2, <2>3
<1> QED
  BY <1>4, <1>10, <1>11, <1>12, <1>13 DEF WorkerInv
\* A step of the process that has the lock, or gets it, for which nobody else has to be
\* judged anew.
LEMMA QuietStep ==
    ASSUME WorkerInv, NEW w \in Workers, NEW new \in Job, JobSound(new),
           holder \in {w, None}, holder' = w,
           jobs' = [jobs EXCEPT ![w] = new],
           UNCHANGED <<now, rows, bucket, latest, restored, signal>>,
           used' \in 0 .. MaxUploads
    PROVE  WorkerInv'
<1>1. TypeOK /\ OneAtWork /\ ObjectsBounded /\ LatestSound /\ SignalTruthful
  BY DEF WorkerInv, JobsSound
<1>2. UNCHANGED Judges /\ signal' = signal
  BY DEF Judges
<1>3. JobSound(new)' /\ LatestSound' /\ ObjectsBounded' /\ SignalTruthful'
  BY <1>1, <1>2, JudgedAlike
<1>4. jobs' \in [Workers -> Job] /\ JobsSound'
  BY <1>1, <1>3, OneGoesOn DEF TypeOK
<1>5. TypeOK'
  BY <1>1, <1>4 DEF TypeOK
<1> QED
  BY <1>3, <1>4, <1>5 DEF WorkerInv

LEMMA StartKept ==
    ASSUME WorkerInv, NEW w \in Workers, NEW action \in Actions,
           NEW name \in Names \cup {NoName}, NEW dest \in Dests \cup {None},
           action = "restore-check" => name \in Names,
           Start(w, action, name, dest)
    PROVE  WorkerInv'
<1> PICK phase : phase = CASE action = "backup"        -> "capacity"
                           [] action = "probe"         -> "measure"
                           [] action = "drill"         -> "drill"
                           [] action = "restore-check" -> "get"
                           [] OTHER                    -> "key"
  OBVIOUS
<1>1. /\ phase \in {"capacity", "measure", "drill", "get", "key"}
      /\ phase = "capacity" <=> action = "backup"
      /\ phase = "get" => action = "restore-check"
  BY DEF Actions
<1>2. PICK new : new = [NoJob EXCEPT !.action = action, !.snap.name = name, !.dest = dest, !.phase = phase]
  OBVIOUS
<1>3. /\ new \in Job /\ new.phase = phase /\ new.action = action /\ new.snap.name = name
  <2>1. NoJob \in Job
    BY NothingToDo
  <2>2. phase \in Phases
    BY <1>1 DEF Phases
  <2>3. NoJob.snap \in Envelope /\ [NoJob.snap EXCEPT !.name = name] \in Envelope
    BY <2>1 DEF Job, Envelope
  <2> QED
    BY <1>2, <2>1, <2>2, <2>3 DEF Job, Envelope
<1>4. JobSound(new)
  BY <1>1, <1>3 DEF JobSound, Backup, BackupSound, Before, After
<1>5. /\ holder = None /\ holder' = w /\ jobs' = [jobs EXCEPT ![w] = new]
      /\ UNCHANGED <<now, rows, bucket, used, latest, restored, signal>>
  BY <1>2 DEF Start, Unlocked
<1>6. used \in 0 .. MaxUploads
  BY DEF WorkerInv, TypeOK
<1> QED
  BY <1>3, <1>4, <1>5, <1>6, QuietStep

\* The steps of a backup up to the upload.
LEMMA SnapshotKept ==
    ASSUME WorkerInv, NEW w \in Workers, Capacity(w) \/ Copy(w) \/ Stamp(w) \/ Seal(w)
    PROVE  WorkerInv'
<1> PICK job : job = jobs[w]
  OBVIOUS
<1>1. /\ TypeOK /\ OneAtWork /\ LatestSound /\ job \in Job /\ JobSound(job) /\ holder = w
      /\ job.phase \in {"capacity", "copy", "stamp", "key"}
  BY DEF WorkerInv, JobsSound, OneAtWork, TypeOK, At, Capacity, Copy, Stamp, Seal
<1>2. /\ job.snap \in Envelope /\ job.began \in 0 .. MaxRows
      /\ rows \in 0 .. MaxRows /\ now \in 0 .. Horizon /\ used \in 0 .. MaxUploads
      /\ {MaxUploads, Horizon, MaxRows} \subseteq Nat
  BY <1>1, WorkerAssumption DEF TypeOK, Job
<1>3. latest # None => /\ latest.object \in Envelope
                       /\ latest.object.at <= now /\ latest.object.rows <= rows
  BY <1>1 DEF LatestSound, TypeOK, Report
<1>4. CASE Capacity(w)
  <2>1. job.phase = "capacity" /\ Backup(job) /\ Cardinality(Stored) < MaxObjects
    BY <1>1, <1>4 DEF Capacity, At, JobSound, Room
  <2>2. PICK new : new = [job EXCEPT !.phase = "copy", !.began = rows]
    OBVIOUS
  <2>3. /\ new \in Job /\ new.phase = "copy" /\ new.began = rows /\ new.action = job.action
    BY <1>1, <1>2, <2>2 DEF Job, Phases
  <2>4. JobSound(new)
    BY <1>2, <2>1, <2>3 DEF JobSound, Backup, BackupSound, Before, After
  <2>5. /\ holder' = w /\ jobs' = [jobs EXCEPT ![w] = new]
        /\ UNCHANGED <<now, rows, bucket, used, latest, restored, signal>>
    BY <1>1, <1>4, <2>2 DEF Capacity, Becomes
  <2> QED
    BY <1>1, <1>2, <2>3, <2>4, <2>5, QuietStep
<1>5. CASE Copy(w)
  <2>1. job.phase = "copy" /\ Backup(job) /\ Cardinality(Stored) < MaxObjects /\ job.began <= rows
    BY <1>1, <1>5 DEF Copy, At, JobSound, BackupSound, Before
  <2>2. PICK new : new = [job EXCEPT !.phase = "stamp", !.snap.rows = rows]
    OBVIOUS
  <2>3. /\ new \in Job /\ new.phase = "stamp" /\ new.began = job.began /\ new.action = job.action
        /\ new.snap.rows = rows
    <3>1. [job.snap EXCEPT !.rows = rows] \in Envelope
      BY <1>2 DEF Envelope
    <3> QED
      BY <1>1, <1>2, <2>2, <3>1 DEF Job, Phases, Envelope
  <2>4. RowsKnown(new)
    BY <1>2, <1>3, <2>1, <2>3 DEF RowsKnown
  <2>5. JobSound(new)
    BY <2>1, <2>3, <2>4 DEF JobSound, Backup, BackupSound, Before, After
  <2>6. /\ holder' = w /\ jobs' = [jobs EXCEPT ![w] = new]
        /\ UNCHANGED <<now, rows, bucket, used, latest, restored, signal>>
    BY <1>1, <1>5, <2>2 DEF Copy, Becomes, Copied
  <2> QED
    BY <1>1, <1>2, <2>3, <2>5, <2>6, QuietStep
<1>6. CASE Stamp(w)
  <2>1. job.phase = "stamp" /\ Backup(job) /\ Cardinality(Stored) < MaxObjects /\ RowsKnown(job)
    BY <1>1, <1>6 DEF Stamp, At, JobSound, BackupSound, Before
  <2>2. PICK new : new = [job EXCEPT !.phase = "key", !.snap.at = now]
    OBVIOUS
  <2>3. /\ new \in Job /\ new.phase = "key" /\ new.began = job.began /\ new.action = job.action
        /\ new.snap.rows = job.snap.rows /\ new.snap.at = now
    <3>1. [job.snap EXCEPT !.at = now] \in Envelope
      BY <1>2 DEF Envelope
    <3> QED
      BY <1>1, <1>2, <2>2, <3>1 DEF Job, Phases, Envelope
  <2>4. RowsKnown(new) /\ TimeKnown(new)
    BY <1>2, <1>3, <2>1, <2>3 DEF RowsKnown, TimeKnown
  <2>5. JobSound(new)
    BY <2>1, <2>3, <2>4 DEF JobSound, Backup, BackupSound, Before, After
  <2>6. /\ holder' = w /\ jobs' = [jobs EXCEPT ![w] = new]
        /\ UNCHANGED <<now, rows, bucket, used, latest, restored, signal>>
    BY <1>1, <1>6, <2>2 DEF Stamp, Becomes
  <2> QED
    BY <1>1, <1>2, <2>3, <2>5, <2>6, QuietStep
<1>7. CASE Seal(w)
  <2>1. /\ job.phase = "key" /\ Backup(job) /\ Cardinality(Stored) < MaxObjects
        /\ RowsKnown(job) /\ TimeKnown(job)
    BY <1>1, <1>7 DEF Seal, At, JobSound, Backup, BackupSound, Before
  <2>2. PICK new : new = [job EXCEPT !.phase = "put", !.snap.name = used + 1]
    OBVIOUS
  <2>a. used + 1 \in Names
    BY <1>2, <1>7 DEF Seal, Names
  <2>3. /\ new \in Job /\ new.phase = "put" /\ new.began = job.began /\ new.action = job.action
        /\ new.snap.rows = job.snap.rows /\ new.snap.at = job.snap.at /\ new.snap.name \in Names
    <3>1. [job.snap EXCEPT !.name = used + 1] \in Envelope
      BY <1>2, <2>a DEF Envelope
    <3> QED
      BY <1>1, <1>2, <2>2, <2>a, <3>1 DEF Job, Phases, Envelope
  <2>4. RowsKnown(new) /\ TimeKnown(new)
    BY <2>1, <2>3 DEF RowsKnown, TimeKnown
  <2>5. JobSound(new)
    BY <2>1, <2>3, <2>4 DEF JobSound, Backup, BackupSound, Before, After
  <2>6. /\ holder' = w /\ jobs' = [jobs EXCEPT ![w] = new] /\ used' \in 0 .. MaxUploads
        /\ UNCHANGED <<now, rows, bucket, latest, restored, signal>>
    BY <1>1, <1>2, <1>7, <2>2 DEF Seal, Becomes
  <2> QED
    BY <1>1, <2>3, <2>5, <2>6, QuietStep
<1> QED
  BY <1>4, <1>5, <1>6, <1>7

\* Nothing but the job changes, and it ends.
LEMMA QuietEnd ==
    ASSUME WorkerInv, NEW w \in Workers, ~At(w, "idle"), Exit(w),
           UNCHANGED <<now, rows, bucket, used, latest>>,
           restored' \in [Dests -> Envelope \cup {None, TraceKey}],
           signal' \in Signal, SignalTruthful'
    PROVE  WorkerInv'
<1>1. TypeOK /\ OneAtWork /\ ObjectsBounded /\ LatestSound /\ SignalTruthful
  BY DEF WorkerInv, JobsSound
<1>2. UNCHANGED Judges
  BY DEF Judges
<1>3. LatestSound' /\ ObjectsBounded'
  BY <1>1, <1>2, JudgedAlike
<1>4. jobs' \in [Workers -> Job] /\ JobsSound' /\ holder' = None
  BY <1>1, OneLeaves DEF TypeOK
<1>5. TypeOK'
  BY <1>1, <1>4 DEF TypeOK
<1> QED
  BY <1>3, <1>4, <1>5 DEF WorkerInv

LEMMA SignalStays ==
    ASSUME SignalTruthful, UNCHANGED <<now, bucket, signal>>
    PROVE  SignalTruthful'
  BY DEF SignalTruthful, Stored

LEMMA LeavingKept ==
    ASSUME WorkerInv, NEW w \in Workers, Fail(w) \/ Write(w) \/ End(w) \/ Probe(w) \/ Drill(w)
    PROVE  WorkerInv'
<1> PICK job : job = jobs[w]
  OBVIOUS
<1>1. /\ TypeOK /\ LatestSound /\ SignalTruthful /\ job \in Job /\ JobSound(job)
      /\ ~At(w, "idle") /\ Exit(w) /\ UNCHANGED <<now, rows, bucket, used, latest>>
  BY DEF WorkerInv, JobsSound, TypeOK, At, Fail, Write, End, Probe, Drill
<1>2. CASE Fail(w) \/ End(w) \/ Drill(w)
  <2>1. restored' = restored /\ signal' = signal
    BY <1>2 DEF Fail, End, Drill
  <2> QED
    BY <1>1, <2>1, QuietEnd, SignalStays DEF TypeOK
<1>3. CASE Write(w)
  <2>1. signal' = signal /\ restored' = [restored EXCEPT ![job.dest] = job.got]
    BY <1>3 DEF Write
  <2>2. job.got \in Envelope \cup {None, TraceKey}
    BY <1>1, <1>3 DEF Write, At, JobSound, Job
  <2>3. restored' \in [Dests -> Envelope \cup {None, TraceKey}]
    BY <1>1, <2>1, <2>2 DEF TypeOK
  <2> QED
    BY <1>1, <2>1, <2>3, QuietEnd, SignalStays DEF TypeOK
<1>4. CASE Probe(w)
  <2>1. restored' = restored /\ signal' = Measured
    BY <1>4 DEF Probe
  <2>2. CASE latest = None \/ latest.object.at > now
    <3> PICK no \in BOOLEAN : no = FALSE
      OBVIOUS
    <3>1. signal' = [verified |-> no, since |-> 0]
      BY <2>1, <2>2 DEF Measured
    <3>2. signal' \in Signal
      BY <3>1, WorkerAssumption DEF Signal
    <3>3. signal'.verified = no
      BY <3>1
    <3>4. SignalTruthful'
      BY <3>3 DEF SignalTruthful
    <3> QED
      BY <1>1, <2>1, <3>2, <3>4, QuietEnd DEF TypeOK
  <2>3. CASE ~(latest = None \/ latest.object.at > now)
    <3> PICK yes \in BOOLEAN : yes = TRUE
      OBVIOUS
    <3> PICK object : object = latest.object
      OBVIOUS
    <3>1. signal' = [verified |-> yes, since |-> object.at]
      BY <2>1, <2>3 DEF Measured
    <3>2. object \in Envelope /\ Lasts(object)
      BY <1>1, <2>3 DEF TypeOK, Report, LatestSound
    <3>3. signal' \in Signal
      BY <3>1, <3>2, WorkerAssumption DEF Signal, Envelope
    <3>4. signal'.since = object.at
      BY <3>1
    <3>5. object.at \in Nat /\ now \in Nat /\ Retention \in Nat /\ object.name \in Names
      BY <1>1, <3>2, WorkerAssumption DEF TypeOK, Envelope, Lasts
    <3>6. now < object.at + Retention => object.name \in Stored /\ bucket[object.name].at = object.at
      BY <3>2, <3>5, EnvelopeAssumption DEF Lasts, Stored
    <3>7. SignalTruthful'
      <4>1. CASE now >= object.at + Retention
        BY <1>1, <3>4, <4>1 DEF SignalTruthful
      <4>2. CASE ~(now >= object.at + Retention)
        <5>1. now < object.at + Retention
          BY <3>5, <4>2
        <5>2. object.name \in Stored' /\ bucket'[object.name].at = signal'.since
          BY <1>1, <3>4, <3>6, <5>1 DEF Stored
        <5> QED
          BY <5>2 DEF SignalTruthful
      <4> QED
        BY <4>1, <4>2
    <3> QED
      BY <1>1, <2>1, <3>3, <3>7, QuietEnd DEF TypeOK
  <2> QED
    BY <2>2, <2>3
<1> QED
  BY <1>2, <1>3, <1>4
\* A download, and what is made of it.
LEMMA DownloadKept ==
    ASSUME WorkerInv, BucketNamed, NEW w \in Workers, Get(w) \/ Open(w) \/ ReadKey(w)
    PROVE  WorkerInv'
<1> PICK job : job = jobs[w]
  OBVIOUS
<1>1. /\ TypeOK /\ job \in Job /\ JobSound(job) /\ holder = w /\ used \in 0 .. MaxUploads
      /\ UNCHANGED <<now, rows, bucket, used, latest, restored, signal>>
  BY DEF WorkerInv, JobsSound, OneAtWork, TypeOK, At, Get, Open, ReadKey
<1>2. CASE Get(w)
  <2>1. job.phase = "get" /\ job.snap.name \in Names /\ bucket[job.snap.name] # None
    BY <1>1, <1>2 DEF Get, At, JobSound
  <2>2. PICK got \in {bucket[n] : n \in Stored} \cup {Garbage} :
          /\ jobs' = [jobs EXCEPT ![w] = [job EXCEPT !.phase = "open", !.got = got]]
          /\ holder' = w
    BY <1>1, <1>2 DEF Get, Becomes
  <2>3. got \in Envelope \cup {Garbage}
    BY <1>1 DEF TypeOK, Stored
  <2>4. PICK new : new = [job EXCEPT !.phase = "open", !.got = got]
    OBVIOUS
  <2>5. /\ new \in Job /\ new.phase = "open" /\ new.began = job.began /\ new.action = job.action
        /\ new.snap = job.snap /\ new.got = got
    BY <1>1, <2>3, <2>4 DEF Job, Phases
  <2>6. Backup(job) => /\ bucket[job.snap.name] = job.snap /\ Lasts(job.snap)
                       /\ RowsKnown(job) /\ TimeKnown(job)
    BY <1>1, <2>1 DEF JobSound, BackupSound, After
  <2>9. Backup(job) /\ got # Garbage => got.name # job.snap.name \/ got = job.snap
    <3>1. got # Garbage => \E n \in Stored : got = bucket[n] /\ got.name = n
      BY <2>2 DEF BucketNamed
    <3> QED
      BY <2>6, <3>1
  <2>7. Backup(job) => RowsKnown(new) /\ TimeKnown(new)
    BY <2>5, <2>6 DEF RowsKnown, TimeKnown
  <2>8. JobSound(new)
    BY <2>1, <2>3, <2>5, <2>6, <2>7, <2>9 DEF JobSound, Backup, BackupSound, Before, After
  <2> QED
    BY <1>1, <2>2, <2>4, <2>5, <2>8, QuietStep
<1>3. CASE Open(w)
  <2>1. job.phase = "open" /\ job.got # Garbage /\ job.got.name = job.snap.name
    BY <1>1, <1>3 DEF Open, At, Authentic
  <2>2. PICK phase : phase = IF job.action = "backup" THEN "report" ELSE "write"
    OBVIOUS
  <2>3. jobs' = [jobs EXCEPT ![w] = [job EXCEPT !.phase = phase]] /\ holder' = w
    BY <1>1, <1>3, <2>2 DEF Open, Becomes
  <2>4. PICK new : new = [job EXCEPT !.phase = phase]
    OBVIOUS
  <2>5. /\ new \in Job /\ new.phase = phase /\ new.began = job.began /\ new.action = job.action
        /\ new.snap = job.snap /\ new.got = job.got
    BY <1>1, <2>2, <2>4 DEF Job, Phases
  <2>6. Backup(job) => /\ job.got = job.snap /\ Lasts(job.snap)
                       /\ bucket[job.snap.name] \in {job.snap, None}
                       /\ RowsKnown(job) /\ TimeKnown(job)
    BY <1>1, <2>1 DEF JobSound, BackupSound, After
  <2>7. Backup(job) => RowsKnown(new) /\ TimeKnown(new)
    BY <2>5, <2>6 DEF RowsKnown, TimeKnown
  <2>8. JobSound(new)
    BY <2>1, <2>2, <2>5, <2>6, <2>7 DEF JobSound, Backup, BackupSound, Before, After
  <2> QED
    BY <1>1, <2>3, <2>4, <2>5, <2>8, QuietStep
<1>4. CASE ReadKey(w)
  <2>1. job.action = "prepare-trace-key"
    BY <1>4 DEF ReadKey
  <2>2. PICK new : new = [job EXCEPT !.phase = "write", !.got = TraceKey]
    OBVIOUS
  <2>3. jobs' = [jobs EXCEPT ![w] = new] /\ holder' = w
    BY <1>1, <1>4, <2>2 DEF ReadKey, Becomes
  <2>4. new \in Job /\ new.phase = "write" /\ new.action = job.action /\ new.got = TraceKey
    BY <1>1, <2>2 DEF Job, Phases
  <2>5. JobSound(new)
    BY <2>1, <2>4, WorkerAssumption DEF JobSound, Backup
  <2> QED
    BY <1>1, <2>3, <2>4, <2>5, QuietStep
<1> QED
  BY <1>2, <1>3, <1>4

\* The upload: there was room for it, and its name was free.
LEMMA PutKept ==
    ASSUME WorkerInv, NEW w \in Workers, Put(w)
    PROVE  WorkerInv'
<1> PICK job : job = jobs[w]
  OBVIOUS
<1> PICK n, object : n = job.snap.name /\ object = job.snap
  OBVIOUS
<1>1. /\ TypeOK /\ OneAtWork /\ LatestSound /\ SignalTruthful
      /\ job \in Job /\ JobSound(job) /\ holder = w /\ job.phase = "put" /\ ~At(w, "idle")
  BY DEF WorkerInv, JobsSound, OneAtWork, TypeOK, At, Put
<1>2. /\ Backup(job) /\ Cardinality(Stored) < MaxObjects /\ n \in Names /\ object \in Envelope
      /\ object.name = n /\ RowsKnown(job) /\ TimeKnown(job)
  BY <1>1 DEF JobSound, BackupSound, Before, Job
<1>3. /\ bucket[n] = None /\ bucket' = [bucket EXCEPT ![n] = object]
      /\ UNCHANGED <<now, rows, used, latest, restored, signal>>
  BY DEF Put
<1>4. /\ bucket' \in [Names -> Envelope \cup {None}] /\ bucket'[n] = object
      /\ \A m \in Names \ {n} : bucket'[m] = bucket[m]
  BY <1>1, <1>2, <1>3 DEF TypeOK
<1>5. ObjectsBounded'
  <2>1. Stored' \subseteq Stored \cup {n}
    BY <1>4 DEF Stored
  <2>2. IsFiniteSet(Stored \cup {n}) /\ Cardinality(Stored \cup {n}) <= Cardinality(Stored) + 1
    <3>1. /\ IsFiniteSet(Stored \cup {n})
          /\ Cardinality(Stored \cup {n}) = IF n \in Stored THEN Cardinality(Stored)
                                             ELSE Cardinality(Stored) + 1
      BY StoredCountable, FS_AddElement
    <3> QED
      BY <3>1, StoredCountable
  <2>3. Cardinality(Stored)' <= Cardinality(Stored \cup {n}) /\ Cardinality(Stored)' \in Nat
        /\ Cardinality(Stored \cup {n}) \in Nat /\ Cardinality(Stored) \in Nat
    BY <2>1, <2>2, StoredCountable, FS_Subset, FS_CardinalityType
  <2> QED
    BY <1>2, <2>2, <2>3, WorkerAssumption DEF ObjectsBounded
<1>6. LatestSound'
  <2> SUFFICES ASSUME latest # None
               PROVE  Lasts(latest.object)'
    BY <1>1, <1>3 DEF LatestSound
  <2>1. latest.object \in Envelope /\ Lasts(latest.object)
    BY <1>1 DEF LatestSound, TypeOK, Report
  <2>2. now < latest.object.at + Retention => latest.object.name # n
    BY <1>3, <2>1, EnvelopeAssumption DEF Lasts
  <2> QED
    BY <1>3, <1>4, <2>1, <2>2 DEF Lasts
<1>7. SignalTruthful'
  <2> SUFFICES ASSUME NEW m \in Stored
               PROVE  m \in Stored' /\ bucket'[m] = bucket[m]
    BY <1>1, <1>3 DEF SignalTruthful
  <2> QED
    BY <1>3, <1>4 DEF Stored
<1>8. jobs' \in [Workers -> Job] /\ JobsSound' /\ holder' \in Workers \cup {None}
  <2>1. CASE Exit(w)
    BY <1>1, <2>1, OneLeaves DEF TypeOK
  <2>2. CASE ~Exit(w)
    <3>1. PICK new : new = [job EXCEPT !.phase = "get"]
      OBVIOUS
    <3>2. jobs' = [jobs EXCEPT ![w] = new] /\ holder' = w
      BY <1>1, <2>2, <3>1 DEF Put, Becomes
    <3>3. /\ new \in Job /\ new.phase = "get" /\ new.began = job.began /\ new.action = job.action
          /\ new.snap = object
      BY <1>1, <3>1 DEF Job, Phases
    <3>4. RowsKnown(new)' /\ TimeKnown(new)'
      BY <1>2, <1>3, <3>3 DEF RowsKnown, TimeKnown
    <3>5. Lasts(object)' /\ bucket'[n] \in {object, None}
      BY <1>2, <1>4 DEF Lasts
    <3>6. JobSound(new)'
      BY <1>2, <3>3, <3>4, <3>5 DEF JobSound, Backup, BackupSound, Before, After
    <3> QED
      BY <1>1, <3>2, <3>3, <3>6, OneGoesOn DEF TypeOK
  <2> QED
    BY <2>1, <2>2
<1>9. TypeOK'
  BY <1>1, <1>3, <1>4, <1>8 DEF TypeOK
<1> QED
  BY <1>5, <1>6, <1>7, <1>8, <1>9 DEF WorkerInv

\* What is recorded was verified, and is no older than the record it replaces.
LEMMA RecordKept ==
    ASSUME WorkerInv, NEW w \in Workers, Record(w)
    PROVE  /\ WorkerInv'
           /\ latest' \in Report
           /\ latest # None => /\ latest'.object.at >= latest.object.at
                               /\ latest'.object.rows >= latest.object.rows
<1> PICK job : job = jobs[w]
  OBVIOUS
<1>1. /\ TypeOK /\ OneAtWork /\ ObjectsBounded /\ LatestSound /\ SignalTruthful
      /\ job \in Job /\ JobSound(job) /\ holder = w /\ job.phase = "report"
  BY DEF WorkerInv, JobsSound, OneAtWork, TypeOK, At, Record
<1>2. /\ Backup(job) /\ job.got = job.snap /\ job.got # Garbage /\ job.snap \in Envelope
      /\ RowsKnown(job) /\ TimeKnown(job) /\ Lasts(job.snap) /\ job.began \in 0 .. MaxRows
  BY <1>1 DEF JobSound, BackupSound, After, Job
<1>3. /\ latest' = [object |-> job.snap, began |-> job.began] /\ holder' = w
      /\ UNCHANGED <<now, rows, bucket, used, restored, signal>>
  BY <1>1, <1>2 DEF Record
<1>4. latest' \in Report /\ latest'.object = job.snap /\ latest'.began = job.began
  BY <1>2, <1>3 DEF Report
<1>5. LatestSound'
  BY <1>2, <1>3, <1>4 DEF LatestSound, Lasts, RowsKnown, TimeKnown
<1>6. latest # None => /\ latest'.object.at >= latest.object.at
                       /\ latest'.object.rows >= latest.object.rows
  <2> SUFFICES ASSUME latest # None
               PROVE  /\ latest'.object.at >= latest.object.at
                      /\ latest'.object.rows >= latest.object.rows
    OBVIOUS
  <2>1. latest.object \in Envelope
    BY <1>1 DEF TypeOK, Report
  <2> QED
    BY <1>2, <1>4, <2>1 DEF RowsKnown, TimeKnown, Envelope
<1>7. PICK new : new = [job EXCEPT !.phase = "done"]
  OBVIOUS
<1>8. new \in Job /\ new.phase = "done" /\ new.action = job.action
  BY <1>1, <1>7 DEF Job, Phases
<1>9. JobSound(new)'
  BY <1>8 DEF JobSound, Backup, BackupSound, Before, After
<1>10. jobs' = [jobs EXCEPT ![w] = new]
  BY <1>7 DEF Record, Becomes
<1>11. jobs' \in [Workers -> Job] /\ JobsSound'
  BY <1>1, <1>3, <1>8, <1>9, <1>10, OneGoesOn DEF TypeOK
<1>12. TypeOK'
  BY <1>1, <1>3, <1>4, <1>11 DEF TypeOK
<1>13. ObjectsBounded' /\ SignalTruthful'
  BY <1>1, <1>3 DEF ObjectsBounded, SignalTruthful, Stored
<1> QED
  BY <1>4, <1>5, <1>6, <1>11, <1>12, <1>13 DEF WorkerInv

-----------------------------------------------------------------------------
LEMMA WorkerInitSound == Init => WorkerInv
<1> SUFFICES ASSUME Init
             PROVE  WorkerInv
  OBVIOUS
<1> PICK no \in BOOLEAN : no = FALSE
  OBVIOUS
<1>1. /\ now = 0 /\ rows = 0 /\ bucket = [n \in Names |-> None] /\ used = 0 /\ holder = None
      /\ jobs = [w \in Workers |-> NoJob] /\ latest = None /\ restored = [d \in Dests |-> None]
      /\ signal = [verified |-> no, since |-> 0]
  BY DEF Init
<1>2. {MaxUploads, MaxObjects, Retention, Horizon, MaxRows} \subseteq Nat
  BY WorkerAssumption
<1>3. NoJob \in Job /\ NoJob.phase = "idle" /\ JobSound(NoJob)
  BY NothingToDo
<1>4. signal \in Signal /\ signal.verified = no
  BY <1>1, <1>2 DEF Signal
<1>5. TypeOK
  BY <1>1, <1>2, <1>3, <1>4 DEF TypeOK
<1>6. JobsSound
  BY <1>1, <1>3 DEF JobsSound, OneAtWork, At
<1>7. ObjectsBounded
  <2>1. Stored = {}
    BY <1>1 DEF Stored
  <2> QED
    BY <1>2, <2>1, FS_EmptySet DEF ObjectsBounded
<1>8. LatestSound /\ SignalTruthful
  BY <1>1, <1>4 DEF LatestSound, SignalTruthful
<1> QED
  BY <1>5, <1>6, <1>7, <1>8 DEF WorkerInv

LEMMA BucketStaysNamed == TypeOK /\ BucketNamed /\ [Next]_vars => BucketNamed'
<1> SUFFICES ASSUME TypeOK, BucketNamed, [Next]_vars
             PROVE  BucketNamed'
  OBVIOUS
<1>1. CASE World
  <2>1. \A n \in Stored' : n \in Stored /\ bucket'[n] = bucket[n]
    BY <1>1 DEF World, TypeOK, Stored
  <2> QED
    BY <2>1 DEF BucketNamed
<1>2. ASSUME NEW w \in Workers, Put(w)
      PROVE  BucketNamed'
  <2> PICK object : object = jobs[w].snap
    OBVIOUS
  <2>1. bucket' = [bucket EXCEPT ![object.name] = object]
    BY <1>2 DEF Put
  <2>2. ASSUME NEW n \in Stored'
        PROVE  bucket'[n].name = n
    <3>1. n \in Names /\ bucket'[n] # None
      BY DEF Stored
    <3>2. CASE n = object.name
      BY <2>1, <3>1, <3>2 DEF TypeOK
    <3>3. CASE n # object.name
      BY <2>1, <3>1, <3>3 DEF TypeOK, BucketNamed, Stored
    <3> QED
      BY <3>2, <3>3
  <2> QED
    BY <2>2 DEF BucketNamed
<1>3. CASE bucket' = bucket
  BY <1>3 DEF BucketNamed, Stored
<1> QED
  BY <1>1, <1>2, <1>3
     DEF Next, Start, Progress, Capacity, Copy, Stamp, Seal, Get, Open, ReadKey, Write, Record,
         End, Probe, Drill, Fail, vars

LEMMA WorkerNextSound == WorkerInv /\ BucketNamed /\ [Next]_vars => WorkerInv'
<1> SUFFICES ASSUME WorkerInv, BucketNamed, [Next]_vars
             PROVE  WorkerInv'
  OBVIOUS
<1>1. CASE World
  BY <1>1, WorldKept
<1>2. ASSUME NEW w \in Workers, NEW a \in {"backup", "probe", "drill"}, Start(w, a, NoName, None)
      PROVE  WorkerInv'
  BY <1>2, StartKept DEF Actions
<1>3. ASSUME NEW w \in Workers, NEW d \in Dests, Start(w, "prepare-trace-key", NoName, d)
      PROVE  WorkerInv'
  BY <1>3, StartKept DEF Actions
<1>4. ASSUME NEW w \in Workers, NEW n \in 1 .. used, NEW d \in Dests, Start(w, "restore-check", n, d)
      PROVE  WorkerInv'
  <2>1. used \in 0 .. MaxUploads /\ MaxUploads \in Nat
    BY WorkerAssumption DEF WorkerInv, TypeOK
  <2>2. n \in Names
    BY <2>1 DEF Names
  <2> QED
    BY <1>4, <2>2, StartKept DEF Actions
<1>5. ASSUME NEW w \in Workers, Progress(w)
      PROVE  WorkerInv'
  BY <1>5, SnapshotKept, PutKept, DownloadKept, RecordKept, LeavingKept DEF Progress
<1>6. CASE UNCHANGED vars
  <2>1. UNCHANGED Judges
    BY <1>6 DEF vars, Judges
  <2>2. /\ \A w \in Workers : jobs[w] \in Job /\ JobSound(jobs[w])
        /\ TypeOK /\ OneAtWork /\ ObjectsBounded /\ LatestSound /\ SignalTruthful
    BY DEF WorkerInv, JobsSound, TypeOK
  <2>3. ASSUME NEW w \in Workers
        PROVE  JobSound(jobs[w])'
    <3> PICK j : j = jobs[w]
      OBVIOUS
    <3>1. JobSound(j)' /\ j = jobs'[w]
      BY <1>6, <2>1, <2>2, JudgedAlike DEF vars
    <3> QED
      BY <3>1
  <2>4. TypeOK' /\ OneAtWork'
    BY <1>6, <2>2 DEF vars, TypeOK, OneAtWork, At
  <2>5. ObjectsBounded' /\ LatestSound' /\ SignalTruthful'
    BY <1>6, <2>1, <2>2, JudgedAlike DEF vars
  <2> QED
    BY <2>3, <2>4, <2>5 DEF WorkerInv, JobsSound
<1> QED
  BY <1>1, <1>2, <1>3, <1>4, <1>5, <1>6 DEF Next

LEMMA WorkerInvTells == WorkerInv => ObjectsBounded /\ ReportSound /\ SignalTruthful
<1> SUFFICES ASSUME WorkerInv
             PROVE  ReportSound
  BY DEF WorkerInv
<1>1. TypeOK /\ LatestSound
  BY DEF WorkerInv
<1>2. ReportRestorable
  BY <1>1 DEF LatestSound, ReportRestorable, Lasts
<1>3. ReportCovers
  <2> SUFFICES ASSUME latest # None
               PROVE  latest.object.rows >= latest.began
    BY DEF ReportCovers
  <2>1. latest.object.rows \in Nat /\ latest.began \in Nat /\ latest.began <= latest.object.rows
    BY <1>1, WorkerAssumption DEF TypeOK, Report, Envelope, LatestSound
  <2> QED
    BY <2>1
<1> QED
  BY <1>1, <1>2, <1>3 DEF ReportSound

\* No step but a backup's last changes the report, and that one does not go back.
LEMMA NextForward ==
    WorkerInv /\ [Next]_vars =>
        [latest # None => /\ latest'.object.at >= latest.object.at
                          /\ latest'.object.rows >= latest.object.rows]_vars
<1> SUFFICES ASSUME WorkerInv, Next, latest # None
             PROVE  /\ latest'.object.at >= latest.object.at
                    /\ latest'.object.rows >= latest.object.rows
  OBVIOUS
<1>1. CASE \E w \in Workers : Record(w)
  BY <1>1, RecordKept
<1>2. CASE ~\E w \in Workers : Record(w)
  <2>1. latest' = latest
    BY <1>2 DEF Next, World, Start, Progress, Capacity, Copy, Stamp, Seal, Put, Get, Open,
                ReadKey, Write, End, Probe, Drill, Fail
  <2>2. latest.object \in Envelope
    BY DEF WorkerInv, TypeOK, Report
  <2>3. latest.object.at \in Nat /\ latest.object.rows \in Nat
    BY <2>2, WorkerAssumption DEF Envelope
  <2> QED
    BY <2>1, <2>3, SMTT(20)
<1> QED
  BY <1>1, <1>2
-----------------------------------------------------------------------------
(***************************************************************************)
(* The rollout.  The jobs of the stack are numbered without a gap, so a    *)
(* new one is new; a plan that succeeded stays as it was made; what the    *)
(* operator's state, saved or not, calls a plan is one, and what it calls  *)
(* reviewed was seen; an apply job comes from such a plan, which creates   *)
(* or leaves alone and never changes; a bootstrap knows the secrets there  *)
(* are, since nobody else makes one.                                       *)
(***************************************************************************)
JobLawful(job) ==
    /\ job.what = "none" => job.status = "none"
    /\ job.what = "plan" /\ job.status = "SUCCEEDED" => job.made \in Plan
    /\ job.status \in {"IN_PROGRESS", "CANCELING"} => job.what = "apply"

\* What an apply may come from.
Approved(job) ==
    /\ job.what = "plan" /\ job.status = "SUCCEEDED"
    /\ job.made \in Plan /\ job.made \in seen /\ job.made.lawful
    /\ \A a \in Addresses : job.made.change[a] \in {"no-op", "create"}

ApplyLawful(job) ==
    job.what = "apply" =>
        /\ job.from \in JobIds /\ Approved(stackJobs[job.from])
        /\ job.status \in {"IN_PROGRESS", "CANCELING"} =>
              \A a \in job.todo : stackJobs[job.from].made.change[a] # "no-op"

JobsLawful ==
    /\ \E n \in 0 .. MaxJobs : Made = 1 .. n
    /\ \A j \in JobIds : JobLawful(stackJobs[j]) /\ ApplyLawful(stackJobs[j])

OpLawful(o) ==
    /\ o \in Operator
    /\ o.plan_id # 0 => stackJobs[o.plan_id].what = "plan"
    /\ o.reviewed # Nil => o.reviewed \in seen

Booting == [listed : [SecretNames -> Ids], usable : SUBSET SecretNames, ids : [SecretNames -> Ids]]

SecretsKnown ==
    /\ boot # Nil =>
          /\ boot \in Booting
          /\ \A n \in SecretNames :
                Secret(n) = IF boot.ids[n] = 0 THEN boot.listed[n] ELSE boot.ids[n]
    /\ config # Nil => \A n \in SecretNames : config[n] = Secret(n) /\ Secret(n) # 0
    /\ \A n \in SecretNames : Secret(n) <= 1

RolloutInv ==
    /\ RolloutTypeOK
    /\ stacks <= 1 /\ (~archive => stacks = 0)
    /\ harmed = {}
    /\ JobsLawful
    /\ OpLawful(op) /\ (unsaved # Nil => OpLawful(unsaved))
    /\ SecretsKnown
LEMMA SecretsAlike ==
    ASSUME SecretsKnown, UNCHANGED bootVars
    PROVE  SecretsKnown'
  BY DEF SecretsKnown, bootVars, Secret

\* Seeing another plan disapproves of none.
LEMMA JobsAlike ==
    ASSUME JobsLawful, stackJobs' = stackJobs, seen \subseteq seen'
    PROVE  JobsLawful' /\ \A o \in Operator : OpLawful(o) => OpLawful(o)'
<1>1. Made' = Made
  BY DEF Made
<1>2. \A j \in JobIds : Approved(stackJobs[j]) => Approved(stackJobs[j])'
  BY DEF Approved
<1>3. ASSUME NEW j \in JobIds
      PROVE  JobLawful(stackJobs[j])' /\ ApplyLawful(stackJobs[j])'
  BY <1>2 DEF JobsLawful, JobLawful, ApplyLawful
<1>4. \A o \in Operator : OpLawful(o) => OpLawful(o)'
  BY DEF OpLawful
<1> QED
  BY <1>1, <1>3, <1>4 DEF JobsLawful

\* The number of the next job is free.
LEMMA NextIsNew ==
    ASSUME JobsLawful, NextId \in JobIds
    PROVE  /\ stackJobs[NextId].what = "none" /\ NextId # 0
           /\ \E n \in 0 .. MaxJobs : Made = 1 .. n /\ NextId = n + 1
<1> PICK n \in 0 .. MaxJobs : Made = 1 .. n
  BY DEF JobsLawful
<1>1. MaxJobs \in Nat /\ n \in Nat
  BY RolloutAssumption
<1>2. Cardinality(1 .. n) = n
  <2>1. Cardinality(1 .. n) = IF 1 > n THEN 0 ELSE n - 1 + 1
    BY <1>1, FS_Interval
  <2> QED
    BY <1>1, <2>1
<1>3. NextId = n + 1
  BY <1>2 DEF NextId
<1>4. NextId \notin Made
  BY <1>1, <1>3
<1> QED
  BY <1>1, <1>3, <1>4 DEF Made

\* One job is begun, or goes on, and it is no plan that is made already.
LEMMA JobChanges ==
    ASSUME stackJobs \in [JobIds -> StackJob], JobsLawful,
           NEW j \in JobIds, NEW new \in StackJob, stackJobs' = [stackJobs EXCEPT ![j] = new],
           new.what # "none", new.what = stackJobs[j].what \/ j = NextId,
           stackJobs[j].what = "plan" => stackJobs[j].status # "SUCCEEDED",
           JobLawful(new), ApplyLawful(new), seen' = seen
    PROVE  /\ stackJobs' \in [JobIds -> StackJob] /\ JobsLawful'
           /\ \A o \in Operator : OpLawful(o) => OpLawful(o)'
<1>1. /\ stackJobs' \in [JobIds -> StackJob] /\ stackJobs'[j] = new
      /\ \A i \in JobIds \ {j} : stackJobs'[i] = stackJobs[i]
  OBVIOUS
<1>2. stackJobs[j].what = "none" => j = NextId
  OBVIOUS
<1>3. stackJobs[j].what # "none" => new.what = stackJobs[j].what
  BY NextIsNew
<1>4. \E n \in 0 .. MaxJobs : Made' = 1 .. n
  <2>1. CASE stackJobs[j].what # "none"
    <3>1. \A i \in JobIds : stackJobs'[i].what # "none" <=> stackJobs[i].what # "none"
      BY <1>1, <1>3, <2>1
    <3>2. Made' = Made
      BY <3>1 DEF Made
    <3> QED
      BY <3>2 DEF JobsLawful
  <2>2. CASE stackJobs[j].what = "none"
    <3> PICK n \in 0 .. MaxJobs : Made = 1 .. n /\ j = n + 1
      BY <1>2, <2>2, NextIsNew
    <3>1. Made' = Made \cup {j}
      BY <1>1 DEF Made
    <3>2. MaxJobs \in Nat /\ j \in 0 .. MaxJobs
      BY RolloutAssumption DEF JobIds
    <3>3. Made' = 1 .. j
      BY <3>1, <3>2
    <3> QED
      BY <3>2, <3>3
  <2> QED
    BY <2>1, <2>2
<1>5. ASSUME NEW i \in JobIds, Approved(stackJobs[i])
      PROVE  Approved(stackJobs[i])'
  <2>1. i # j
    BY <1>5 DEF Approved
  <2>2. stackJobs'[i] = stackJobs[i]
    BY <1>1, <2>1
  <2> QED
    BY <1>5, <2>2 DEF Approved
<1>6. ASSUME NEW job \in StackJob, ApplyLawful(job)
      PROVE  ApplyLawful(job)'
  <2> SUFFICES ASSUME job.what = "apply"
               PROVE  /\ job.from \in JobIds /\ Approved(stackJobs[job.from])'
                      /\ job.status \in {"IN_PROGRESS", "CANCELING"} =>
                            \A a \in job.todo : stackJobs'[job.from].made.change[a] # "no-op"
    BY DEF ApplyLawful
  <2>1. job.from \in JobIds /\ Approved(stackJobs[job.from])
    BY <1>6 DEF ApplyLawful
  <2> PICK from \in JobIds : from = job.from
    BY <2>1
  <2>2. Approved(stackJobs[from])'
    BY <1>5, <2>1
  <2>3. from # j /\ stackJobs'[from] = stackJobs[from]
    BY <1>1, <2>1 DEF Approved
  <2> QED
    BY <1>6, <2>1, <2>2, <2>3 DEF ApplyLawful, Approved
<1>7. ASSUME NEW i \in JobIds
      PROVE  JobLawful(stackJobs[i])' /\ ApplyLawful(stackJobs[i])'
  <2> PICK job : job = stackJobs'[i]
    OBVIOUS
  <2>1. job \in StackJob /\ JobLawful(job) /\ ApplyLawful(job)
    BY <1>1 DEF JobsLawful
  <2>2. ApplyLawful(job)' /\ JobLawful(job)'
    BY <1>6, <2>1 DEF JobLawful
  <2> QED
    BY <2>2
<1>8. ASSUME NEW o \in Operator, OpLawful(o)
      PROVE  OpLawful(o)'
  <2> SUFFICES ASSUME o.plan_id # 0
               PROVE  stackJobs'[o.plan_id].what = "plan"
    BY <1>8 DEF OpLawful
  <2>1. stackJobs[o.plan_id].what = "plan" /\ o.plan_id \in JobIds
    BY <1>8, RolloutAssumption DEF OpLawful, Operator, JobIds
  <2> QED
    BY <1>1, <1>3, <2>1
<1> QED
  BY <1>1, <1>4, <1>7, <1>8 DEF JobsLawful

LEMMA IdsTyped ==
    ASSUME RolloutTypeOK
    PROVE  /\ InState \in [Addresses -> Ids] /\ Living \in [Addresses -> Ids]
           /\ NoIds \in [Addresses -> Ids] /\ MaxIds \in Nat
  BY RolloutAssumption DEF RolloutTypeOK, InState, Living, NoIds, Ids
-----------------------------------------------------------------------------
(***************************************************************************)
(* The commands.                                                           *)
(***************************************************************************)
LEMMA CreateStackKept == RolloutInv /\ CreateStack => RolloutInv'
<1> SUFFICES ASSUME RolloutInv, CreateStack
             PROVE  RolloutInv'
  OBVIOUS
<1>1. /\ RolloutTypeOK /\ harmed = {} /\ JobsLawful /\ OpLawful(op) /\ SecretsKnown
      /\ archive = FALSE /\ stacks = 0 /\ op \in Operator /\ mishaps \in 0 .. Mishaps
      /\ unsaved = Nil
  BY DEF RolloutInv, CreateStack, Unpacked, OpLawful, RolloutTypeOK, Idle
<1>2. archive' = TRUE /\ UNCHANGED <<op, stackJobs, res, harmed, seen, bootVars>>
  BY DEF CreateStack
<1>3. JobsLawful' /\ \A o \in Operator : OpLawful(o) => OpLawful(o)'
  BY <1>1, <1>2, JobsAlike
<1>4. SecretsKnown' /\ vault' = vault
  BY <1>1, <1>2, SecretsAlike DEF bootVars
<1>5. OpLawful(op)'
  <2> PICK o : o = op
    OBVIOUS
  <2>1. OpLawful(o)' /\ o = op'
    BY <1>1, <1>2, <1>3
  <2> QED
    BY <2>1
<1>6. /\ stacks' \in {0, 1} /\ mishaps' \in 0 .. Mishaps
      /\ unsaved' # Nil => unsaved' \in Operator /\ OpLawful(unsaved)'
  <2>1. CASE /\ stacks' = stacks + 1 /\ unsaved' = [op EXCEPT !.stack_id = TRUE]
             /\ UNCHANGED mishaps
    <3>a. stacks' \in {0, 1} /\ mishaps' \in 0 .. Mishaps
      BY <1>1, <2>1
    <3> PICK flag \in BOOLEAN : flag = TRUE
      OBVIOUS
    <3>1. PICK o : o = [op EXCEPT !.stack_id = flag]
      OBVIOUS
    <3>2. o \in Operator /\ o.plan_id = op.plan_id /\ o.reviewed = op.reviewed
      BY <1>1, <3>1 DEF Operator
    <3>3. OpLawful(o)
      BY <1>1, <3>2 DEF OpLawful
    <3>4. OpLawful(o)' /\ unsaved' = o
      BY <1>3, <2>1, <3>1, <3>2, <3>3
    <3>5. OpLawful(unsaved)'
      BY <3>4
    <3> QED
      BY <3>a, <3>2, <3>4, <3>5
  <2>2. CASE Mishap /\ UNCHANGED <<stacks, unsaved>>
    BY <1>1, <2>2, RolloutAssumption DEF Mishap
  <2> QED
    BY <2>1, <2>2 DEF CreateStack
<1>7. RolloutTypeOK'
  BY <1>1, <1>2, <1>4, <1>6 DEF RolloutTypeOK
<1> QED
  BY <1>1, <1>2, <1>3, <1>4, <1>5, <1>6, <1>7 DEF RolloutInv

\* A command that ends with a new operator state to be saved.
LEMMA CommandKept ==
    ASSUME RolloutInv, stackJobs' \in [JobIds -> StackJob], JobsLawful',
           seen \subseteq seen', seen' \subseteq Plan,
           \A o \in Operator : OpLawful(o) => OpLawful(o)',
           NEW new, unsaved' = new, OpLawful(new)',
           UNCHANGED <<op, archive, stacks, res, harmed, bootVars, mishaps>>
    PROVE  RolloutInv'
<1>1. /\ RolloutTypeOK /\ OpLawful(op) /\ SecretsKnown /\ op \in Operator
      /\ stacks <= 1 /\ (~archive => stacks = 0) /\ harmed = {}
  BY DEF RolloutInv, OpLawful
<1>2. SecretsKnown' /\ vault' = vault
  BY <1>1, SecretsAlike DEF bootVars
<1>3. OpLawful(op)'
  <2> PICK o : o = op
    OBVIOUS
  <2>1. OpLawful(o)' /\ o = op'
    BY <1>1
  <2> QED
    BY <2>1
<1>4. OpLawful(unsaved)'
  OBVIOUS
<1>5. new \in Operator
  BY DEF OpLawful
<1>6. RolloutTypeOK'
  BY <1>1, <1>2, <1>5 DEF RolloutTypeOK
<1> QED
  BY <1>1, <1>2, <1>3, <1>4, <1>6 DEF RolloutInv

LEMMA NewJobs ==
    /\ NoStackJob \in StackJob
    /\ \A job \in StackJob : job.what = "plan" /\ job.status = "ACCEPTED"
                             => JobLawful(job) /\ ApplyLawful(job)
<1>1. NoIds \in [Addresses -> Ids] /\ 0 \in 0 .. MaxJobs
  BY RolloutAssumption DEF NoIds, Ids
<1>2. NoStackJob \in StackJob
  <2> PICK none : none = {}
    OBVIOUS
  <2>1. none \in SUBSET Addresses
    OBVIOUS
  <2>2. NoStackJob = [what |-> "none", status |-> "none", made |-> Nil, from |-> 0, todo |-> none,
                      kept |-> NoIds, broken |-> none]
    BY DEF NoStackJob
  <2> QED
    BY <1>1, <2>1, <2>2 DEF StackJob
<1> QED
  BY <1>2 DEF JobLawful, ApplyLawful

LEMMA MakePlanKept == RolloutInv /\ MakePlan => RolloutInv'
<1> SUFFICES ASSUME RolloutInv, MakePlan
             PROVE  RolloutInv'
  OBVIOUS
<1>1. /\ RolloutTypeOK /\ JobsLawful /\ op \in Operator /\ NextId \in JobIds
      /\ stackJobs \in [JobIds -> StackJob] /\ seen \subseteq Plan /\ seen' = seen
      /\ UNCHANGED <<op, archive, stacks, res, harmed, bootVars, mishaps>>
  BY DEF RolloutInv, MakePlan, OpLawful, RolloutTypeOK
<1>2. PICK job : job = [NoStackJob EXCEPT !.what = "plan", !.status = "ACCEPTED"]
  OBVIOUS
<1>3. job \in StackJob /\ job.what = "plan" /\ job.status = "ACCEPTED"
  BY <1>2, NewJobs DEF StackJob
<1>4. stackJobs' = [stackJobs EXCEPT ![NextId] = job]
  BY <1>2 DEF MakePlan, Fresh, NextId
<1>5. stackJobs[NextId].what = "none" /\ NextId # 0
  BY <1>1, NextIsNew
<1>6. /\ stackJobs' \in [JobIds -> StackJob] /\ JobsLawful'
      /\ \A o \in Operator : OpLawful(o) => OpLawful(o)'
  <2>1. JobLawful(job) /\ ApplyLawful(job)
    BY <1>3, NewJobs
  <2> PICK j \in JobIds : j = NextId
    BY <1>1
  <2> QED
    BY <1>1, <1>3, <1>4, <1>5, <2>1, JobChanges
<1>7. PICK recovery : recovery = IF op.job_id # 0 /\ FailedApply(op.job_id)
                                 THEN op.job_id ELSE op.recovery
  OBVIOUS
<1>8. PICK new : new = [op EXCEPT !.plan_id = NextId, !.job_id = NextId, !.reviewed = Nil,
                                  !.existing = NoIds, !.recovery = recovery]
  OBVIOUS
<1>9. unsaved' = new
  BY <1>7, <1>8 DEF MakePlan
<1>10. new \in Operator /\ new.plan_id = NextId /\ new.reviewed = Nil
  <2>1. recovery \in 0 .. MaxJobs
    BY <1>1, <1>7 DEF Operator
  <2>2. NextId \in 0 .. MaxJobs /\ NoIds \in [Addresses -> Ids]
    BY <1>1, RolloutAssumption DEF JobIds, NoIds, Ids
  <2> QED
    BY <1>1, <1>8, <2>1, <2>2 DEF Operator
<1>11. OpLawful(new)'
  <2>1. stackJobs'[NextId].what = "plan"
    BY <1>1, <1>3, <1>4
  <2> QED
    BY <1>10, <2>1 DEF OpLawful
<1> QED
  BY <1>1, <1>6, <1>9, <1>11, CommandKept

LEMMA ReviewKept ==
    ASSUME RolloutInv, NEW existing \in [Addresses -> Ids], Review(existing)
    PROVE  RolloutInv'
<1>1. /\ RolloutTypeOK /\ JobsLawful /\ op \in Operator /\ OpLawful(op)
      /\ stackJobs \in [JobIds -> StackJob] /\ seen \subseteq Plan
      /\ stackJobs' = stackJobs
      /\ UNCHANGED <<op, archive, stacks, res, harmed, bootVars, mishaps>>
  BY DEF RolloutInv, Review, OpLawful, RolloutTypeOK, cloudVars
<1>2. Reviewable \in Plan
  <2>1. op.plan_id \in JobIds /\ stackJobs[op.plan_id].what = "plan"
        /\ stackJobs[op.plan_id].status = "SUCCEEDED"
    BY <1>1, RolloutAssumption DEF Review, HasPlan, OpLawful, Operator, JobIds
  <2> QED
    BY <1>1, <2>1 DEF JobsLawful, JobLawful, Reviewable
<1>3. seen \subseteq seen' /\ seen' \subseteq Plan /\ Reviewable \in seen'
  BY <1>1, <1>2 DEF Review
<1>4. JobsLawful' /\ \A o \in Operator : OpLawful(o) => OpLawful(o)'
  BY <1>1, <1>3, JobsAlike
<1> PICK plan : plan = Reviewable
  OBVIOUS
<1>5. PICK new : new = [op EXCEPT !.reviewed = plan, !.existing = existing]
  OBVIOUS
<1>6. new \in Operator /\ new.plan_id = op.plan_id /\ new.reviewed = plan
  BY <1>1, <1>2, <1>5 DEF Operator
<1>7. OpLawful(new)'
  BY <1>1, <1>3, <1>6 DEF OpLawful
<1>8. unsaved' = new
  BY <1>5 DEF Review
<1> QED
  BY <1>1, <1>3, <1>4, <1>7, <1>8, CommandKept

LEMMA ApplyReviewedKept == RolloutInv /\ ApplyReviewed => RolloutInv'
<1> SUFFICES ASSUME RolloutInv, ApplyReviewed
             PROVE  RolloutInv'
  OBVIOUS
<1>1. /\ RolloutTypeOK /\ JobsLawful /\ op \in Operator /\ OpLawful(op) /\ NextId \in JobIds
      /\ stackJobs \in [JobIds -> StackJob] /\ seen \subseteq Plan /\ seen' = seen
      /\ UNCHANGED <<op, archive, stacks, res, harmed, bootVars, mishaps>>
  BY DEF RolloutInv, ApplyReviewed, OpLawful, RolloutTypeOK
<1>2. PICK from : from = op.plan_id
  OBVIOUS
<1>3. from \in JobIds /\ stackJobs[from].what = "plan" /\ stackJobs[from].status = "SUCCEEDED"
  BY <1>1, <1>2, RolloutAssumption DEF ApplyReviewed, HasPlan, OpLawful, Operator, JobIds
<1>4. PICK plan : plan = stackJobs[from].made
  OBVIOUS
<1>5. plan \in Plan /\ op.reviewed = plan /\ Valid(plan, op.existing)
  BY <1>1, <1>2, <1>3, <1>4
     DEF JobsLawful, JobLawful, ApplyReviewed, SameDigest, Reviewable
<1>6. plan \in seen
  BY <1>1, <1>5, PlanAssumption DEF OpLawful
<1>7. plan.lawful /\ \A a \in Addresses : plan.change[a] \in {"no-op", "create"}
  BY <1>5 DEF Valid
<1>8. Approved(stackJobs[from])
  BY <1>3, <1>4, <1>5, <1>6, <1>7 DEF Approved
<1>9. PICK job : job = [NoStackJob EXCEPT !.what = "apply", !.status = "ACCEPTED", !.from = from]
  OBVIOUS
<1>10. job \in StackJob /\ job.what = "apply" /\ job.status = "ACCEPTED" /\ job.from = from
  <2>1. from \in 0 .. MaxJobs
    BY <1>3, RolloutAssumption DEF JobIds
  <2> QED
    BY <1>9, <2>1, NewJobs DEF StackJob
<1>11. stackJobs' = [stackJobs EXCEPT ![NextId] = job]
  BY <1>2, <1>9 DEF ApplyReviewed, Fresh, NextId
<1>12. JobLawful(job) /\ ApplyLawful(job)
  BY <1>3, <1>8, <1>10 DEF JobLawful, ApplyLawful
<1>13. stackJobs[NextId].what = "none"
  BY <1>1, NextIsNew
<1>14. /\ stackJobs' \in [JobIds -> StackJob] /\ JobsLawful'
       /\ \A o \in Operator : OpLawful(o) => OpLawful(o)'
  <2> PICK j \in JobIds : j = NextId
    BY <1>1
  <2> QED
    BY <1>1, <1>10, <1>11, <1>12, <1>13, JobChanges
<1>15. PICK new : new = [op EXCEPT !.job_id = NextId]
  OBVIOUS
<1>16. new \in Operator /\ new.plan_id = op.plan_id /\ new.reviewed = op.reviewed
  BY <1>1, <1>15, RolloutAssumption DEF Operator, JobIds
<1>17. OpLawful(new)
  BY <1>1, <1>16 DEF OpLawful
<1>18. unsaved' = new /\ OpLawful(new)'
  BY <1>14, <1>15, <1>16, <1>17 DEF ApplyReviewed
<1> QED
  BY <1>1, <1>14, <1>18, CommandKept

LEMMA OutputsKept == RolloutInv /\ Outputs => RolloutInv'
<1> SUFFICES ASSUME RolloutInv, Outputs
             PROVE  RolloutInv'
  OBVIOUS
<1>1. /\ RolloutTypeOK /\ JobsLawful /\ op \in Operator /\ OpLawful(op)
      /\ stackJobs \in [JobIds -> StackJob] /\ seen \subseteq Plan /\ seen' = seen
      /\ stackJobs' = stackJobs
      /\ UNCHANGED <<op, archive, stacks, res, harmed, bootVars, mishaps>>
  BY DEF RolloutInv, Outputs, OpLawful, RolloutTypeOK, cloudVars
<1>2. JobsLawful' /\ \A o \in Operator : OpLawful(o) => OpLawful(o)'
  BY <1>1, JobsAlike
<1> PICK flag \in BOOLEAN : flag = TRUE
  OBVIOUS
<1>3. PICK new : new = [op EXCEPT !.support = flag]
  OBVIOUS
<1>4. new \in Operator /\ new.plan_id = op.plan_id /\ new.reviewed = op.reviewed
  BY <1>1, <1>3 DEF Operator
<1>5. OpLawful(new)
  BY <1>1, <1>4 DEF OpLawful
<1>6. unsaved' = new /\ OpLawful(new)'
  BY <1>2, <1>3, <1>4, <1>5 DEF Outputs
<1> QED
  BY <1>1, <1>2, <1>6, CommandKept

\* The state is saved, or the command dies with it.
LEMMA EndKept == RolloutInv /\ (Save \/ Die) => RolloutInv'
<1> SUFFICES ASSUME RolloutInv, Save \/ Die
             PROVE  RolloutInv'
  OBVIOUS
<1>1. /\ RolloutTypeOK /\ JobsLawful /\ op \in Operator /\ OpLawful(op) /\ SecretsKnown
      /\ unsaved # Nil => OpLawful(unsaved) /\ unsaved \in Operator
      /\ mishaps \in 0 .. Mishaps
      /\ seen' = seen /\ unsaved' = Nil /\ UNCHANGED <<archive, stacks, stackJobs, res, harmed>>
      /\ stacks <= 1 /\ (~archive => stacks = 0) /\ harmed = {}
  BY DEF RolloutInv, OpLawful, Save, Die, RolloutTypeOK, cloudVars
<1>2. JobsLawful' /\ \A o \in Operator : OpLawful(o) => OpLawful(o)'
  BY <1>1, JobsAlike
<1>3. SecretsKnown' /\ vault' = vault
  <2>1. CASE Save
    BY <1>1, <2>1, SecretsAlike DEF Save, bootVars
  <2>2. CASE Die
    BY <1>1, <2>2 DEF Die, SecretsKnown, Secret
  <2> QED
    BY <2>1, <2>2
<1>4. op' \in {op, unsaved} /\ (op' = unsaved => unsaved # Nil \/ op' = op)
  BY DEF Save, Die
<1>5. op' \in Operator /\ OpLawful(op)'
  <2> PICK o : o = op'
    OBVIOUS
  <2>1. o \in Operator /\ OpLawful(o)
    BY <1>1, <1>4
  <2>2. OpLawful(o)'
    BY <1>2, <2>1
  <2> QED
    BY <2>1, <2>2
<1>6. mishaps' \in 0 .. Mishaps
  BY <1>1, RolloutAssumption DEF Save, Die, Mishap
<1>7. RolloutTypeOK'
  BY <1>1, <1>3, <1>5, <1>6 DEF RolloutTypeOK
<1> QED
  BY <1>1, <1>2, <1>3, <1>5, <1>7 DEF RolloutInv
-----------------------------------------------------------------------------
(***************************************************************************)
(* The bootstrap.                                                          *)
(***************************************************************************)
LEMMA BootKept ==
    ASSUME RolloutInv, UNCHANGED <<op, unsaved, archive, cloudVars, seen, mishaps>>,
           vault' \in [SecretNames -> [id : Ids, active : BOOLEAN]], SecretsKnown'
    PROVE  RolloutInv'
<1>1. /\ RolloutTypeOK /\ JobsLawful /\ op \in Operator /\ OpLawful(op)
      /\ unsaved # Nil => OpLawful(unsaved) /\ unsaved \in Operator
      /\ UNCHANGED <<op, unsaved, archive, stacks, stackJobs, res, harmed, seen, mishaps>>
      /\ stacks <= 1 /\ (~archive => stacks = 0) /\ harmed = {}
  BY DEF RolloutInv, OpLawful, cloudVars
<1>2. JobsLawful' /\ \A o \in Operator : OpLawful(o) => OpLawful(o)'
  BY <1>1, JobsAlike
<1>3. OpLawful(op)'
  <2> PICK o : o = op
    OBVIOUS
  <2>1. OpLawful(o)' /\ o = op'
    BY <1>1, <1>2
  <2> QED
    BY <2>1
<1>4. unsaved' # Nil => OpLawful(unsaved)'
  <2> SUFFICES ASSUME unsaved' # Nil
               PROVE  OpLawful(unsaved)'
    OBVIOUS
  <2> PICK o : o = unsaved
    OBVIOUS
  <2>1. OpLawful(o)' /\ o = unsaved'
    BY <1>1, <1>2
  <2> QED
    BY <2>1
<1>5. RolloutTypeOK'
  BY <1>1 DEF RolloutTypeOK
<1> QED
  BY <1>1, <1>2, <1>3, <1>4, <1>5 DEF RolloutInv

LEMMA BeginBootstrapKept == RolloutInv /\ BeginBootstrap => RolloutInv'
<1> SUFFICES ASSUME RolloutInv, BeginBootstrap
             PROVE  RolloutInv'
  OBVIOUS
<1>1. /\ RolloutTypeOK /\ SecretsKnown /\ MaxIds \in Nat
      /\ UNCHANGED <<op, unsaved, archive, cloudVars, seen, vault, config, mishaps>>
  BY RolloutAssumption DEF RolloutInv, BeginBootstrap
<1>2. vault \in [SecretNames -> [id : Ids, active : BOOLEAN]]
  BY <1>1 DEF RolloutTypeOK
<1>3. PICK listed, usable, ids :
         /\ listed = [n \in SecretNames |-> Secret(n)]
         /\ usable = {n \in SecretNames : vault[n].active}
         /\ ids = [n \in SecretNames |-> 0]
  OBVIOUS
<1>4. /\ listed \in [SecretNames -> Ids] /\ usable \in SUBSET SecretNames
      /\ ids \in [SecretNames -> Ids] /\ \A n \in SecretNames : listed[n] = Secret(n) /\ ids[n] = 0
  BY <1>1, <1>2, <1>3 DEF Secret, Ids
<1>5. boot' = [listed |-> listed, usable |-> usable, ids |-> ids]
  BY <1>3 DEF BeginBootstrap
<1>6. boot' \in Booting /\ boot'.listed = listed /\ boot'.ids = ids
  BY <1>4, <1>5 DEF Booting
<1>7. \A n \in SecretNames : Secret(n)' = Secret(n)
  BY <1>1 DEF Secret
<1>8. SecretsKnown'
  BY <1>1, <1>4, <1>6, <1>7 DEF SecretsKnown
<1> QED
  BY <1>1, <1>2, <1>8, BootKept

LEMMA SecretKept ==
    ASSUME RolloutInv, NEW n \in SecretNames, KeepSecret(n) \/ RefuseSecret(n) \/ MakeSecret(n)
    PROVE  RolloutInv'
<1>1. /\ RolloutTypeOK /\ SecretsKnown /\ MaxIds \in Nat /\ boot # Nil /\ boot \in Booting
      /\ boot.ids[n] = 0 /\ config' = config
      /\ UNCHANGED <<op, unsaved, archive, cloudVars, seen, mishaps>>
  BY RolloutAssumption
     DEF RolloutInv, SecretsKnown, KeepSecret, RefuseSecret, MakeSecret, Turn
<1>2. vault \in [SecretNames -> [id : Ids, active : BOOLEAN]]
  BY <1>1 DEF RolloutTypeOK
<1>3. /\ boot.ids \in [SecretNames -> Ids] /\ boot.listed \in [SecretNames -> Ids]
      /\ boot.usable \in SUBSET SecretNames
      /\ \A m \in SecretNames :
            Secret(m) = IF boot.ids[m] = 0 THEN boot.listed[m] ELSE boot.ids[m]
  BY <1>1 DEF Booting, SecretsKnown
<1>4. CASE KeepSecret(n)
  <2>1. /\ vault' = vault /\ boot' = [boot EXCEPT !.ids[n] = boot.listed[n]]
        /\ boot.listed[n] # 0
    BY <1>4 DEF KeepSecret, Absent
  <2>2. PICK ids : ids = [boot.ids EXCEPT ![n] = boot.listed[n]]
    OBVIOUS
  <2>3. /\ ids \in [SecretNames -> Ids] /\ ids[n] = boot.listed[n]
        /\ \A m \in SecretNames \ {n} : ids[m] = boot.ids[m]
    BY <1>3, <2>2
  <2>4. boot' \in Booting /\ boot'.ids = ids /\ boot'.listed = boot.listed
    BY <1>1, <2>1, <2>2, <2>3 DEF Booting
  <2>5. \A m \in SecretNames : Secret(m)' = Secret(m)
    BY <2>1 DEF Secret
  <2>6. SecretsKnown'
    BY <1>1, <1>3, <2>1, <2>3, <2>4, <2>5 DEF SecretsKnown
  <2> QED
    BY <1>1, <1>2, <2>1, <2>6, BootKept
<1>5. CASE RefuseSecret(n)
  <2>1. vault' = vault /\ boot' = Nil
    BY <1>5 DEF RefuseSecret
  <2>2. SecretsKnown'
    BY <1>1, <2>1 DEF SecretsKnown, Secret
  <2> QED
    BY <1>1, <1>2, <2>1, <2>2, BootKept
<1>6. CASE MakeSecret(n)
  <2> PICK no \in BOOLEAN : no = FALSE
    OBVIOUS
  <2>1. /\ vault' = [vault EXCEPT ![n] = [id |-> vault[n].id + 1, active |-> no]]
        /\ boot' = [boot EXCEPT !.ids[n] = Secret(n) + 1]
        /\ boot.listed[n] = 0 /\ Secret(n) < MaxIds
    BY <1>6 DEF MakeSecret, Absent
  <2>2. Secret(n) = 0 /\ vault[n].id = 0 /\ config = Nil
    BY <1>1, <1>3, <2>1 DEF SecretsKnown, Secret
  <2>3. 1 \in Ids
    BY <1>1, <2>1, <2>2 DEF Ids
  <2>4. PICK made : made = [id |-> 1, active |-> no]
    OBVIOUS
  <2>5. made \in [id : Ids, active : BOOLEAN] /\ made.id = 1 /\ vault' = [vault EXCEPT ![n] = made]
    BY <2>1, <2>2, <2>3, <2>4
  <2>6. /\ vault' \in [SecretNames -> [id : Ids, active : BOOLEAN]] /\ vault'[n].id = 1
        /\ \A m \in SecretNames \ {n} : vault'[m] = vault[m]
    BY <1>2, <2>5
  <2>7. PICK ids : ids = [boot.ids EXCEPT ![n] = 1]
    OBVIOUS
  <2>8. /\ ids \in [SecretNames -> Ids] /\ ids[n] = 1
        /\ \A m \in SecretNames \ {n} : ids[m] = boot.ids[m]
    BY <1>3, <2>3, <2>7
  <2>9. boot' \in Booting /\ boot'.ids = ids /\ boot'.listed = boot.listed
    BY <1>1, <2>1, <2>2, <2>7, <2>8 DEF Booting
  <2>10. Secret(n)' = 1 /\ \A m \in SecretNames \ {n} : Secret(m)' = Secret(m)
    BY <2>6 DEF Secret
  <2>11. SecretsKnown'
    <3>1. \A m \in SecretNames : Secret(m)' <= 1
      BY <1>1, <2>10 DEF SecretsKnown
    <3>2. \A m \in SecretNames :
             Secret(m)' = IF boot'.ids[m] = 0 THEN boot'.listed[m] ELSE boot'.ids[m]
      BY <1>3, <2>8, <2>9, <2>10
    <3> QED
      BY <1>1, <2>2, <2>9, <3>1, <3>2 DEF SecretsKnown
  <2> QED
    BY <1>1, <2>6, <2>11, BootKept
<1> QED
  BY <1>4, <1>5, <1>6

LEMMA ConfigKept == RolloutInv /\ WriteConfig => RolloutInv'
<1> SUFFICES ASSUME RolloutInv, WriteConfig
             PROVE  RolloutInv'
  OBVIOUS
<1>1. /\ RolloutTypeOK /\ SecretsKnown /\ boot # Nil
      /\ \A n \in SecretNames : boot.ids[n] # 0
      /\ config' = IF config = Nil THEN boot.ids ELSE config
      /\ boot' = Nil /\ vault' = vault
      /\ UNCHANGED <<op, unsaved, archive, cloudVars, seen, mishaps>>
  BY DEF RolloutInv, WriteConfig
<1>2. \A n \in SecretNames : Secret(n) = boot.ids[n] /\ Secret(n)' = Secret(n)
  BY <1>1 DEF SecretsKnown, Secret
<1>3. SecretsKnown'
  BY <1>1, <1>2 DEF SecretsKnown
<1> QED
  BY <1>1, <1>3, BootKept DEF RolloutTypeOK

LEMMA ActivateKept ==
    ASSUME RolloutInv, NEW n \in SecretNames, Activate(n)
    PROVE  RolloutInv'
<1>1. /\ RolloutTypeOK /\ SecretsKnown /\ UNCHANGED <<boot, config>>
      /\ UNCHANGED <<op, unsaved, archive, cloudVars, seen, mishaps>>
  BY DEF RolloutInv, Activate
<1> PICK yes \in BOOLEAN : yes = TRUE
  OBVIOUS
<1>2. vault' = [vault EXCEPT ![n].active = yes]
  BY DEF Activate
<1>3. /\ vault' \in [SecretNames -> [id : Ids, active : BOOLEAN]]
      /\ \A m \in SecretNames : vault'[m].id = vault[m].id
  BY <1>1, <1>2 DEF RolloutTypeOK
<1>4. SecretsKnown'
  BY <1>1, <1>3 DEF SecretsKnown, Secret
<1> QED
  BY <1>1, <1>3, <1>4, BootKept
-----------------------------------------------------------------------------
(***************************************************************************)
(* The cloud.                                                              *)
(***************************************************************************)
\* A step of a job and of the resources, which changes none that was made.
LEMMA JobStepKept ==
    ASSUME RolloutInv, stackJobs' \in [JobIds -> StackJob], JobsLawful',
           \A o \in Operator : OpLawful(o) => OpLawful(o)',
           res' \in [Addresses -> [id : Ids, mark : Marks]], harmed' = {},
           mishaps' \in 0 .. Mishaps,
           UNCHANGED <<op, unsaved, archive, stacks, seen, bootVars>>
    PROVE  RolloutInv'
<1>1. /\ RolloutTypeOK /\ SecretsKnown /\ op \in Operator /\ OpLawful(op)
      /\ unsaved # Nil => OpLawful(unsaved) /\ unsaved \in Operator
      /\ stacks <= 1 /\ (~archive => stacks = 0)
  BY DEF RolloutInv, OpLawful
<1>2. SecretsKnown' /\ vault' = vault
  BY <1>1, SecretsAlike DEF bootVars
<1>3. OpLawful(op)'
  <2> PICK o : o = op
    OBVIOUS
  <2>1. OpLawful(o)' /\ o = op'
    BY <1>1
  <2> QED
    BY <2>1
<1>4. unsaved' # Nil => OpLawful(unsaved)'
  <2> SUFFICES ASSUME unsaved' # Nil
               PROVE  OpLawful(unsaved)'
    OBVIOUS
  <2> PICK o : o = unsaved
    OBVIOUS
  <2>1. OpLawful(o)' /\ o = unsaved'
    BY <1>1
  <2> QED
    BY <2>1
<1>5. RolloutTypeOK'
  BY <1>1, <1>2 DEF RolloutTypeOK
<1> QED
  BY <1>1, <1>2, <1>3, <1>4, <1>5 DEF RolloutInv

\* A job that goes on, other than a plan that is made.
LEMMA GoesOnKept ==
    ASSUME RolloutInv, NEW j \in JobIds, NEW new \in StackJob,
           stackJobs' = [stackJobs EXCEPT ![j] = new],
           new.what = stackJobs[j].what, new.what # "none",
           stackJobs[j].status # "SUCCEEDED", JobLawful(new), ApplyLawful(new),
           res' \in [Addresses -> [id : Ids, mark : Marks]], harmed' = {},
           mishaps' \in 0 .. Mishaps,
           UNCHANGED <<op, unsaved, archive, stacks, seen, bootVars>>
    PROVE  RolloutInv'
<1>1. stackJobs \in [JobIds -> StackJob] /\ JobsLawful
  BY DEF RolloutInv, RolloutTypeOK
<1>2. /\ stackJobs' \in [JobIds -> StackJob] /\ JobsLawful'
      /\ \A o \in Operator : OpLawful(o) => OpLawful(o)'
  BY <1>1, JobChanges
<1> QED
  BY <1>2, JobStepKept

LEMMA RunPlanKept ==
    ASSUME RolloutInv, NEW j \in JobIds, RunPlan(j)
    PROVE  RolloutInv'
<1>1. /\ RolloutTypeOK /\ stackJobs[j] \in StackJob /\ harmed = {}
      /\ stackJobs[j].what = "plan" /\ stackJobs[j].status = "ACCEPTED"
      /\ stackJobs \in [JobIds -> StackJob] /\ mishaps \in 0 .. Mishaps
      /\ UNCHANGED <<op, unsaved, archive, stacks, res, harmed, seen, bootVars, mishaps>>
  BY DEF RolloutInv, RolloutTypeOK, RunPlan, Begins
<1> PICK job : job = stackJobs[j]
  OBVIOUS
<1>2. CASE \E lawful \in BOOLEAN :
            stackJobs' = [stackJobs EXCEPT ![j].status = "SUCCEEDED", ![j].kept = InState,
                       ![j].made = [change |-> [a \in Addresses |-> Planned[res[a].mark]],
                                    id |-> Living, lawful |-> lawful]]
  <2> PICK lawful \in BOOLEAN :
            stackJobs' = [stackJobs EXCEPT ![j].status = "SUCCEEDED", ![j].kept = InState,
                       ![j].made = [change |-> [a \in Addresses |-> Planned[res[a].mark]],
                                    id |-> Living, lawful |-> lawful]]
    BY <1>2
  <2> PICK kept, living, change :
         kept = InState /\ living = Living /\ change = [a \in Addresses |-> Planned[res[a].mark]]
    OBVIOUS
  <2>1. kept \in [Addresses -> Ids] /\ living \in [Addresses -> Ids]
    BY <1>1, IdsTyped
  <2>2. change \in [Addresses -> {"create", "no-op", "update", "replace"}]
    <3>1. \A a \in Addresses : res[a].mark \in {"gone", "sound", "edited", "tainted"}
      BY <1>1 DEF RolloutTypeOK, Marks
    <3> QED
      BY <3>1 DEF Planned
  <2>3. PICK plan : plan = [change |-> change, id |-> living, lawful |-> lawful]
    OBVIOUS
  <2>4. plan \in Plan
    BY <2>1, <2>2, <2>3 DEF Plan
  <2>5. PICK new : new = [job EXCEPT !.status = "SUCCEEDED", !.kept = kept, !.made = plan]
    OBVIOUS
  <2>6. stackJobs' = [stackJobs EXCEPT ![j] = new]
    BY <1>1, <2>3, <2>5
  <2>7. new \in StackJob /\ new.what = job.what /\ new.status = "SUCCEEDED" /\ new.made = plan
    BY <1>1, <2>1, <2>4, <2>5 DEF StackJob
  <2>8. JobLawful(new) /\ ApplyLawful(new)
    BY <1>1, <2>4, <2>7 DEF JobLawful, ApplyLawful
  <2> QED
    BY <1>1, <2>6, <2>7, <2>8, GoesOnKept DEF RolloutTypeOK
<1>3. CASE stackJobs' = [stackJobs EXCEPT ![j].status = "FAILED"]
  <2>1. PICK new : new = [job EXCEPT !.status = "FAILED"]
    OBVIOUS
  <2>2. stackJobs' = [stackJobs EXCEPT ![j] = new]
    BY <1>3, <2>1
  <2>3. new \in StackJob /\ new.what = job.what /\ new.status = "FAILED"
    BY <1>1, <2>1 DEF StackJob
  <2>4. JobLawful(new) /\ ApplyLawful(new)
    BY <1>1, <2>3 DEF JobLawful, ApplyLawful
  <2> QED
    BY <1>1, <2>2, <2>3, <2>4, GoesOnKept DEF RolloutTypeOK
<1> QED
  BY <1>2, <1>3 DEF RunPlan

LEMMA BeginApplyKept ==
    ASSUME RolloutInv, NEW j \in JobIds, BeginApply(j)
    PROVE  RolloutInv'
<1>1. /\ RolloutTypeOK /\ stackJobs[j] \in StackJob /\ harmed = {} /\ ApplyLawful(stackJobs[j])
      /\ stackJobs[j].what = "apply" /\ stackJobs[j].status = "ACCEPTED"
      /\ stackJobs \in [JobIds -> StackJob] /\ mishaps \in 0 .. Mishaps
      /\ UNCHANGED <<op, unsaved, archive, stacks, res, harmed, seen, bootVars, mishaps>>
  BY DEF RolloutInv, RolloutTypeOK, JobsLawful, BeginApply, Begins
<1> PICK job : job = stackJobs[j]
  OBVIOUS
<1> PICK status, todo, kept :
       /\ status = IF Origin(j).kept = InState THEN "IN_PROGRESS" ELSE "FAILED"
       /\ todo = {a \in Addresses : Origin(j).made.change[a] # "no-op"}
       /\ kept = InState
  OBVIOUS
<1>2. /\ status \in {"IN_PROGRESS", "FAILED"} /\ todo \in SUBSET Addresses
      /\ kept \in [Addresses -> Ids]
      /\ \A a \in todo : stackJobs[job.from].made.change[a] # "no-op"
  BY <1>1, IdsTyped DEF Origin
<1>3. PICK new : new = [job EXCEPT !.status = status, !.todo = todo, !.kept = kept]
  OBVIOUS
<1>4. stackJobs' = [stackJobs EXCEPT ![j] = new]
  BY <1>1, <1>3 DEF BeginApply
<1>5. /\ new \in StackJob /\ new.what = job.what /\ new.status = status /\ new.todo = todo
      /\ new.from = job.from
  BY <1>1, <1>2, <1>3 DEF StackJob
<1>6. JobLawful(new) /\ ApplyLawful(new)
  BY <1>1, <1>2, <1>5 DEF JobLawful, ApplyLawful
<1> QED
  BY <1>1, <1>4, <1>5, <1>6, GoesOnKept DEF RolloutTypeOK

\* The approved plan of an apply creates what it touches.
LEMMA ApplyOneKept ==
    ASSUME RolloutInv, NEW j \in JobIds, NEW a \in Addresses, ApplyOne(j, a)
    PROVE  RolloutInv'
<1>1. /\ RolloutTypeOK /\ stackJobs[j] \in StackJob /\ harmed = {} /\ ApplyLawful(stackJobs[j])
      /\ JobLawful(stackJobs[j]) /\ stackJobs[j].status \in {"IN_PROGRESS", "CANCELING"}
      /\ a \in stackJobs[j].todo /\ res[a].id < MaxIds /\ MaxIds \in Nat
      /\ stackJobs \in [JobIds -> StackJob] /\ mishaps \in 0 .. Mishaps
      /\ UNCHANGED <<op, unsaved, archive, stacks, seen, bootVars, mishaps>>
  BY RolloutAssumption DEF RolloutInv, RolloutTypeOK, JobsLawful, ApplyOne, Running
<1> PICK job : job = stackJobs[j]
  OBVIOUS
<1>2. job.what = "apply" /\ Approved(stackJobs[job.from])
      /\ \A b \in job.todo : stackJobs[job.from].made.change[b] # "no-op"
  BY <1>1 DEF JobLawful, ApplyLawful
<1>3. Origin(j).made.change[a] = "create"
  BY <1>1, <1>2 DEF Approved, Origin
<1>4. harmed' = {}
  BY <1>1, <1>3 DEF ApplyOne
<1>5. res' \in [Addresses -> [id : Ids, mark : Marks]]
  <2> PICK mark, id : mark = "sound" /\ id = res[a].id + 1
    OBVIOUS
  <2>1. res[a].id \in Nat
    BY <1>1 DEF RolloutTypeOK, Ids
  <2>2. mark \in Marks /\ id \in Ids
    BY <1>1, <2>1 DEF Marks, Ids
  <2>3. res' = [res EXCEPT ![a] = [id |-> id, mark |-> mark]]
    BY DEF ApplyOne
  <2> QED
    BY <1>1, <2>2, <2>3 DEF RolloutTypeOK
<1>6. PICK new : new = [job EXCEPT !.todo = job.todo \ {a}]
  OBVIOUS
<1>7. stackJobs' = [stackJobs EXCEPT ![j] = new]
  BY <1>1, <1>6 DEF ApplyOne
<1>8. /\ new \in StackJob /\ new.what = job.what /\ new.status = job.status
      /\ new.todo = job.todo \ {a} /\ new.from = job.from
  BY <1>1, <1>6 DEF StackJob
<1>9. JobLawful(new) /\ ApplyLawful(new)
  BY <1>1, <1>2, <1>8 DEF JobLawful, ApplyLawful
<1> QED
  BY <1>1, <1>2, <1>4, <1>5, <1>7, <1>8, <1>9, GoesOnKept

LEMMA EndApplyKept ==
    ASSUME RolloutInv, NEW j \in JobIds, EndApply(j)
    PROVE  RolloutInv'
<1>1. /\ RolloutTypeOK /\ stackJobs[j] \in StackJob /\ harmed = {} /\ ApplyLawful(stackJobs[j])
      /\ JobLawful(stackJobs[j]) /\ stackJobs[j].status \in {"IN_PROGRESS", "CANCELING"}
      /\ MaxIds \in Nat
      /\ stackJobs \in [JobIds -> StackJob] /\ mishaps \in 0 .. Mishaps
      /\ res \in [Addresses -> [id : Ids, mark : Marks]]
      /\ UNCHANGED <<op, unsaved, archive, stacks, harmed, seen, bootVars>>
  BY RolloutAssumption DEF RolloutInv, RolloutTypeOK, JobsLawful, EndApply, Running
<1> PICK job : job = stackJobs[j]
  OBVIOUS
<1>2. job.what = "apply"
  BY <1>1 DEF JobLawful
<1>3. CASE /\ stackJobs[j].todo = {}
           /\ stackJobs' = [stackJobs EXCEPT ![j].status = "SUCCEEDED", ![j].kept = InState]
           /\ UNCHANGED <<res, mishaps>>
  <2> PICK kept : kept = InState
    OBVIOUS
  <2>1. kept \in [Addresses -> Ids]
    BY <1>1, IdsTyped
  <2>2. PICK new : new = [job EXCEPT !.status = "SUCCEEDED", !.kept = kept]
    OBVIOUS
  <2>3. stackJobs' = [stackJobs EXCEPT ![j] = new]
    BY <1>1, <1>3, <2>2
  <2>4. /\ new \in StackJob /\ new.what = job.what /\ new.status = "SUCCEEDED"
        /\ new.from = job.from
    BY <1>1, <2>1, <2>2 DEF StackJob
  <2>5. JobLawful(new) /\ ApplyLawful(new)
    BY <1>1, <1>2, <2>4 DEF JobLawful, ApplyLawful
  <2> QED
    BY <1>1, <1>2, <1>3, <2>3, <2>4, <2>5, GoesOnKept
<1>5. Mishap => mishaps' \in 0 .. Mishaps
  BY <1>1, RolloutAssumption DEF Mishap
<1>6. \A a \in Addresses : res[a].id < MaxIds => res[a].id + 1 \in Ids
  BY <1>1 DEF Ids
<1>4. ASSUME NEW status \in {"FAILED", "CANCELED"}, NEW broken \in SUBSET stackJobs[j].todo,
             Mishap \/ UNCHANGED mishaps, \A a \in broken : res[a].id < MaxIds,
             res' = [a \in Addresses |-> IF a \in broken
                        THEN [id |-> res[a].id + 1, mark |-> "tainted"] ELSE res[a]],
             stackJobs' = [stackJobs EXCEPT ![j].status = status,
                          ![j].broken = {a \in Addresses : res'[a].mark = "tainted"},
                          ![j].kept = [a \in Addresses |->
                             IF a \in stackJobs[j].todo \ broken /\ Origin(j).made.change[a] = "create"
                             THEN 0 ELSE res'[a].id]]
      PROVE  RolloutInv'
  <2>1. res' \in [Addresses -> [id : Ids, mark : Marks]]
    <3>1. \A a \in Addresses : res[a] \in [id : Ids, mark : Marks]
      BY <1>1
    <3>2. \A a \in broken : res[a].id + 1 \in Ids
      BY <1>1, <1>4, <1>6 DEF StackJob
    <3> PICK mark : mark = "tainted"
      OBVIOUS
    <3>3. \A a \in broken : [id |-> res[a].id + 1, mark |-> mark] \in [id : Ids, mark : Marks]
      BY <3>2 DEF Marks
    <3> QED
      BY <1>4, <3>1, <3>3
  <2> PICK kept, tainted :
         /\ kept = [a \in Addresses |->
                      IF a \in stackJobs[j].todo \ broken /\ Origin(j).made.change[a] = "create"
                      THEN 0 ELSE res'[a].id]
         /\ tainted = {a \in Addresses : res'[a].mark = "tainted"}
    OBVIOUS
  <2>2. kept \in [Addresses -> Ids] /\ tainted \in SUBSET Addresses
    <3>1. 0 \in Ids /\ \A a \in Addresses : res'[a].id \in Ids
      BY <1>1, <2>1 DEF Ids
    <3> QED
      BY <3>1
  <2>3. PICK new : new = [job EXCEPT !.status = status, !.broken = tainted, !.kept = kept]
    OBVIOUS
  <2>4. stackJobs' = [stackJobs EXCEPT ![j] = new]
    BY <1>1, <1>4, <2>3
  <2>5. /\ new \in StackJob /\ new.what = job.what /\ new.status = status
        /\ new.from = job.from
    BY <1>1, <2>2, <2>3 DEF StackJob
  <2>6. JobLawful(new) /\ ApplyLawful(new)
    BY <1>1, <1>2, <2>5 DEF JobLawful, ApplyLawful
  <2>7. mishaps' \in 0 .. Mishaps
    BY <1>1, <1>4, <1>5
  <2> QED
    BY <1>1, <1>2, <2>1, <2>4, <2>5, <2>6, <2>7, GoesOnKept
<1> QED
  BY <1>3, <1>4 DEF EndApply

LEMMA CancelKept ==
    ASSUME RolloutInv, NEW j \in JobIds, Cancel(j)
    PROVE  RolloutInv'
<1>1. /\ RolloutTypeOK /\ stackJobs[j] \in StackJob /\ harmed = {} /\ ApplyLawful(stackJobs[j])
      /\ JobLawful(stackJobs[j]) /\ stackJobs[j].status = "IN_PROGRESS"
      /\ stackJobs \in [JobIds -> StackJob]
      /\ UNCHANGED <<op, unsaved, archive, stacks, res, harmed, seen, bootVars>>
  BY DEF RolloutInv, RolloutTypeOK, JobsLawful, Cancel
<1>2. mishaps' \in 0 .. Mishaps
  BY <1>1, RolloutAssumption DEF Cancel, Mishap, RolloutTypeOK
<1> PICK job : job = stackJobs[j]
  OBVIOUS
<1>3. PICK new : new = [job EXCEPT !.status = "CANCELING"]
  OBVIOUS
<1>4. stackJobs' = [stackJobs EXCEPT ![j] = new]
  BY <1>1, <1>3 DEF Cancel
<1>5. /\ new \in StackJob /\ new.what = job.what /\ new.status = "CANCELING"
      /\ new.todo = job.todo /\ new.from = job.from
  BY <1>1, <1>3 DEF StackJob
<1>6. JobLawful(new) /\ ApplyLawful(new) /\ new.what = "apply"
  BY <1>1, <1>5 DEF JobLawful, ApplyLawful
<1> QED
  BY <1>1, <1>2, <1>4, <1>5, <1>6, GoesOnKept DEF RolloutTypeOK

LEMMA MeddleKept ==
    ASSUME RolloutInv, NEW a \in Addresses, Meddle(a)
    PROVE  RolloutInv'
<1>1. /\ RolloutTypeOK /\ JobsLawful /\ harmed' = {} /\ stackJobs' = stackJobs
      /\ UNCHANGED <<op, unsaved, archive, stacks, seen, bootVars>>
  BY DEF RolloutInv, Meddle
<1>2. JobsLawful' /\ \A o \in Operator : OpLawful(o) => OpLawful(o)'
  BY <1>1, JobsAlike
<1>3. mishaps' \in 0 .. Mishaps
  BY <1>1, RolloutAssumption DEF Meddle, Mishap, RolloutTypeOK
<1>4. res' \in [Addresses -> [id : Ids, mark : Marks]]
  <2> PICK mark \in {"edited", "gone"} : res' = [res EXCEPT ![a].mark = mark]
    BY DEF Meddle
  <2> QED
    BY <1>1 DEF RolloutTypeOK, Marks
<1> QED
  BY <1>1, <1>2, <1>3, <1>4, JobStepKept DEF RolloutTypeOK
-----------------------------------------------------------------------------
LEMMA RolloutInitSound == RolloutInit => RolloutInv
<1> SUFFICES ASSUME RolloutInit
             PROVE  RolloutInv
  OBVIOUS
<1> PICK no \in BOOLEAN : no = FALSE
  OBVIOUS
<1> PICK none : none = {}
  OBVIOUS
<1>1. /\ op = NewOperator /\ unsaved = Nil /\ archive = no /\ stacks = 0
      /\ stackJobs = [j \in JobIds |-> NoStackJob]
      /\ res = [a \in Addresses |-> [id |-> 0, mark |-> "gone"]]
      /\ harmed = none /\ seen = none
      /\ vault = [n \in SecretNames |-> [id |-> 0, active |-> no]]
      /\ boot = Nil /\ config = Nil /\ mishaps = 0
  BY DEF RolloutInit
<1>2. {MaxJobs, MaxIds, Mishaps} \subseteq Nat /\ NoIds \in [Addresses -> Ids] /\ 0 \in Ids
  BY RolloutAssumption DEF NoIds, Ids
<1>3. /\ NewOperator \in Operator /\ NewOperator.plan_id = 0 /\ NewOperator.reviewed = Nil
  <2>1. NewOperator = [stack_id |-> no, plan_id |-> 0, job_id |-> 0, recovery |-> 0,
                       reviewed |-> Nil, existing |-> NoIds, support |-> no]
    BY DEF NewOperator
  <2> QED
    BY <1>2, <2>1 DEF Operator
<1>4. stackJobs \in [JobIds -> StackJob] /\ \A j \in JobIds : stackJobs[j] = NoStackJob
  BY <1>1, NewJobs
<1>5. NoStackJob.what = "none" /\ NoStackJob.status = "none"
  BY DEF NoStackJob
<1>6. RolloutTypeOK
  <2>1. res \in [Addresses -> [id : Ids, mark : Marks]]
    BY <1>1, <1>2 DEF Marks
  <2>2. vault \in [SecretNames -> [id : Ids, active : BOOLEAN]]
    BY <1>1, <1>2
  <2>3. op \in Operator /\ archive \in BOOLEAN /\ stacks \in Nat /\ mishaps \in 0 .. Mishaps
    BY <1>1, <1>2, <1>3
  <2> QED
    BY <1>1, <1>4, <2>1, <2>2, <2>3 DEF RolloutTypeOK
<1>7. JobsLawful
  <2>1. Made = 1 .. 0 /\ 0 \in 0 .. MaxJobs
    <3>1. Made = {}
      BY <1>4, <1>5 DEF Made
    <3> QED
      BY <1>2, <3>1
  <2>2. \A j \in JobIds : JobLawful(stackJobs[j]) /\ ApplyLawful(stackJobs[j])
    BY <1>4, <1>5 DEF JobLawful, ApplyLawful
  <2> QED
    BY <2>1, <2>2 DEF JobsLawful
<1>8. OpLawful(op)
  BY <1>1, <1>3 DEF OpLawful
<1>9. SecretsKnown
  <2>1. \A n \in SecretNames : Secret(n) = 0
    BY <1>1 DEF Secret
  <2> QED
    BY <1>1, <2>1 DEF SecretsKnown
<1> QED
  BY <1>1, <1>6, <1>7, <1>8, <1>9 DEF RolloutInv

LEMMA RolloutNextSound == RolloutInv /\ [RolloutNext]_rolloutVars => RolloutInv'
<1> SUFFICES ASSUME RolloutInv, [RolloutNext]_rolloutVars
             PROVE  RolloutInv'
  OBVIOUS
<1>1. NoIds \in [Addresses -> Ids]
  BY RolloutAssumption DEF NoIds, Ids
<1>2. CASE ReviewFirst
  BY <1>1, <1>2, ReviewKept DEF ReviewFirst
<1>3. CASE ReviewResume
  <2> PICK existing : existing = stackJobs[op.recovery].kept
    OBVIOUS
  <2>1. op.recovery \in JobIds /\ stackJobs \in [JobIds -> StackJob]
    BY <1>3, RolloutAssumption
       DEF RolloutInv, RolloutTypeOK, OpLawful, Operator, ReviewResume, JobIds
  <2>2. existing \in [Addresses -> Ids]
    BY <2>1 DEF StackJob
  <2> QED
    BY <1>3, <2>2, ReviewKept DEF ReviewResume
<1>4. CASE Command
  BY <1>2, <1>3, <1>4, CreateStackKept, MakePlanKept, ApplyReviewedKept, OutputsKept, EndKept,
     BeginBootstrapKept, SecretKept, ConfigKept
     DEF Command
<1>5. CASE ResourceManager
  BY <1>5, RunPlanKept, BeginApplyKept, ApplyOneKept, EndApplyKept, CancelKept, MeddleKept,
     ActivateKept
     DEF ResourceManager
<1>6. CASE UNCHANGED rolloutVars
  <2>1. JobsLawful /\ harmed' = {} /\ RolloutTypeOK
        /\ UNCHANGED <<op, unsaved, archive, stacks, stackJobs, res, seen, bootVars, mishaps>>
    BY <1>6 DEF RolloutInv, rolloutVars, cloudVars
  <2>2. JobsLawful' /\ \A o \in Operator : OpLawful(o) => OpLawful(o)'
    BY <2>1, JobsAlike
  <2> QED
    BY <2>1, <2>2, JobStepKept DEF RolloutTypeOK
<1> QED
  BY <1>4, <1>5, <1>6 DEF RolloutNext

LEMMA RolloutInvTells == RolloutInv => OnlyReviewedApplied /\ KeysMadeOnce
<1> SUFFICES ASSUME RolloutInv
             PROVE  OnlyReviewedApplied /\ KeysMadeOnce
  OBVIOUS
<1>1. \A j \in JobIds : stackJobs[j].what = "apply" => Approved(stackJobs[stackJobs[j].from])
  BY DEF RolloutInv, JobsLawful, ApplyLawful
<1> QED
  BY <1>1 DEF RolloutInv, OnlyReviewedApplied, KeysMadeOnce, Origin, Approved, SecretsKnown

-----------------------------------------------------------------------------
(***************************************************************************)
(* The worker and the rollout share no state.                              *)
(***************************************************************************)
LEMMA CloudInvariant == CloudSpec => [](WorkerInv /\ BucketNamed /\ RolloutInv)
<1>1. CloudInit => WorkerInv /\ BucketNamed /\ RolloutInv
  <2>1. Init => BucketNamed
    BY DEF Init, BucketNamed, Stored
  <2> QED
    BY <2>1, WorkerInitSound, RolloutInitSound DEF CloudInit
<1>2. [CloudNext]_allVars => [Next]_vars /\ [RolloutNext]_rolloutVars
  <2> SUFFICES ASSUME [CloudNext]_allVars
               PROVE  [Next]_vars /\ [RolloutNext]_rolloutVars
    OBVIOUS
  <2>1. CASE CloudNext
    BY <2>1 DEF CloudNext
  <2>2. CASE UNCHANGED allVars
    BY <2>2 DEF allVars
  <2> QED
    BY <2>1, <2>2
<1>3. WorkerInv /\ BucketNamed /\ RolloutInv /\ [CloudNext]_allVars =>
         WorkerInv' /\ BucketNamed' /\ RolloutInv'
  <2>1. WorkerInv => TypeOK
    BY DEF WorkerInv
  <2> QED
    BY <1>2, <2>1, WorkerNextSound, BucketStaysNamed, RolloutNextSound
<1> QED
  BY <1>1, <1>3, PTL DEF CloudSpec

\* The bucket never holds more than the ceiling, whatever uploads lose their answers and
\* whatever runs are killed.
THEOREM ObjectsKept == CloudSpec => []ObjectsBounded
<1> QED
  BY CloudInvariant, WorkerInvTells, PTL

\* The backup on record can be restored until the lifecycle rule may remove its object,
\* and has every commit made before it began.
THEOREM ReportKept == CloudSpec => []ReportSound
<1> QED
  BY CloudInvariant, WorkerInvTells, PTL

\* A backup that monitoring shows as verified exists, with the age it shows.
THEOREM SignalKept == CloudSpec => []SignalTruthful
<1> QED
  BY CloudInvariant, WorkerInvTells, PTL

\* A record of a backup is never replaced by one of an older snapshot.
THEOREM ReportGoesForward == CloudSpec => ReportForward
<1>1. WorkerInv /\ [CloudNext]_allVars =>
         [latest # None => /\ latest'.object.at >= latest.object.at
                           /\ latest'.object.rows >= latest.object.rows]_vars
  <2>1. [CloudNext]_allVars => [Next]_vars
    BY DEF CloudNext, allVars
  <2> QED
    BY <2>1, NextForward
<1> QED
  BY <1>1, CloudInvariant, PTL DEF CloudSpec, ReportForward

\* Each apply runs a plan with approved values that the operator has seen, and none
\* changes or replaces a resource, whatever dies or is edited from outside.
THEOREM OnlyReviewedKept == CloudSpec => []OnlyReviewedApplied
<1> QED
  BY CloudInvariant, RolloutInvTells, PTL

\* No secret is made twice, and config.json names the secrets there are.
THEOREM KeysKept == CloudSpec => []KeysMadeOnce
<1> QED
  BY CloudInvariant, RolloutInvTells, PTL
=============================================================================
