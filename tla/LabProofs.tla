----------------------------- MODULE LabProofs -----------------------------
(***************************************************************************)
(* Theorems about the parts of the learning lab, for any number of         *)
(* clients, workers, requests, records and pieces, and for any lines.      *)
(***************************************************************************)
EXTENDS Lab, SelectionProofs

(***************************************************************************)
(* The gateway.  A benchmark by itself: a request is warming up only in    *)
(* the warmup; outside the task group no worker has begun or all have      *)
(* ended; the indexes that run or are done were taken, each by one worker; *)
(* no more records were got than were put; an aborted group has a status   *)
(* to end with.                                                            *)
(***************************************************************************)
Untouched(x) ==
    /\ x.work = [w \in Workers |-> Ready]
    /\ x.done = {} /\ x.got = 0 /\ x.next = 0

Taking(x) ==
    /\ \A w \in Workers : x.work[w] \in Indexes => x.work[w] < x.next /\ x.work[w] \notin x.done
    /\ \A v, w \in Workers : x.work[w] \in Indexes /\ x.work[v] = x.work[w] => v = w
    /\ \A i \in x.done : i < x.next
    /\ x.got <= Cardinality(x.done)

BenchSound(x) ==
    /\ x \in Bench
    /\ x.warming => x.phase = "warmup" /\ x.warmed < Warmup
    /\ x.phase \notin InGroup \cup {"comparing"} => Untouched(x)
    /\ Taking(x)
    /\ x.phase = "joining" => x.got = Total
    /\ x.phase = "comparing" =>
          x.done = Indexes /\ (\A w \in Workers : x.work[w] = Gone)
    /\ x.phase = "closing" => x.fate # "none"

Alone == (\A b \in Benches : At(b, Active) => busy) /\ OneBenchmark

GatewayInv ==
    /\ TypeOK
    /\ InflightExact
    /\ Alone
    /\ \A b \in Benches : BenchSound(bench[b])

-----------------------------------------------------------------------------
(***************************************************************************)
(* Counting.  What a step of one benchmark does to the sets whose members  *)
(* InflightExact adds up.                                                  *)
(***************************************************************************)
InRun    == {r \in Runs : run[r] \in {"running", "orphan"}}
InWarmup == {b \in Benches : bench[b].warming}
InWork   == {p \in Benches \X Workers : Working(p[1], p[2])}

Works(x) == {w \in Workers : x.work[w] \in Indexes}

LEMMA Countable ==
    /\ IsFiniteSet(InRun) /\ Cardinality(InRun) \in Nat
    /\ IsFiniteSet(InWarmup) /\ Cardinality(InWarmup) \in Nat
    /\ IsFiniteSet(InWork) /\ Cardinality(InWork) \in Nat
<1>1. IsFiniteSet(Runs) /\ IsFiniteSet(Benches) /\ IsFiniteSet(Workers)
  BY LabAssumption
<1>2. IsFiniteSet(Benches \X Workers)
  BY <1>1, FS_Product
<1>3. InRun \subseteq Runs /\ InWarmup \subseteq Benches /\ InWork \subseteq Benches \X Workers
  BY DEF InRun, InWarmup, InWork
<1> QED
  BY <1>1, <1>2, <1>3, FS_Subset, FS_CardinalityType

\* One more and one less.
LEMMA OneMore ==
    ASSUME NEW S, IsFiniteSet(S), NEW x, x \notin S
    PROVE  Cardinality(S \cup {x}) = Cardinality(S) + 1
BY FS_AddElement

LEMMA OneLess ==
    ASSUME NEW S, IsFiniteSet(S), NEW x \in S
    PROVE  Cardinality(S \ {x}) = Cardinality(S) - 1 /\ Cardinality(S) > 0
BY FS_RemoveElement, FS_EmptySet, FS_CardinalityType

LEMMA WarmupCount ==
    ASSUME TypeOK, NEW b \in Benches, NEW new, Become(b, new)
    PROVE  /\ (new.warming <=> bench[b].warming) => InWarmup' = InWarmup
           /\ new.warming /\ ~bench[b].warming =>
                 Cardinality(InWarmup') = Cardinality(InWarmup) + 1
           /\ ~new.warming /\ bench[b].warming =>
                 Cardinality(InWarmup') = Cardinality(InWarmup) - 1 /\ Cardinality(InWarmup) > 0
<1>1. bench'[b] = new /\ \A c \in Benches \ {b} : bench'[c] = bench[c]
  BY DEF Become, TypeOK
<1>2. ASSUME NEW c \in Benches
      PROVE  c \in InWarmup' <=> IF c = b THEN new.warming ELSE c \in InWarmup
  <2>1. CASE c = b
    BY <1>1, <2>1, Zenon DEF InWarmup
  <2>2. CASE c # b
    BY <1>1, <2>2, Zenon DEF InWarmup
  <2> QED
    BY <2>1, <2>2
<1>3. InWarmup \subseteq Benches /\ InWarmup' \subseteq Benches
  BY DEF InWarmup
<1>4. b \in InWarmup <=> bench[b].warming
  BY Zenon DEF InWarmup
<1>5. (new.warming <=> bench[b].warming) => InWarmup' = InWarmup
  BY <1>2, <1>3, <1>4
<1>6. ASSUME new.warming, ~bench[b].warming
      PROVE  Cardinality(InWarmup') = Cardinality(InWarmup) + 1
  <2>1. InWarmup' = InWarmup \cup {b}
    BY <1>2, <1>3, <1>6
  <2> QED
    BY <1>4, <1>6, <2>1, Countable, OneMore
<1>7. ASSUME ~new.warming, bench[b].warming
      PROVE  Cardinality(InWarmup') = Cardinality(InWarmup) - 1 /\ Cardinality(InWarmup) > 0
  <2>1. InWarmup' = InWarmup \ {b}
    BY <1>2, <1>3, <1>7
  <2> QED
    BY <1>4, <1>7, <2>1, Countable, OneLess
<1> QED
  BY <1>5, <1>6, <1>7

LEMMA WorkCount ==
    ASSUME TypeOK, NEW b \in Benches, NEW new, Become(b, new)
    PROVE  /\ Works(new) = Works(bench[b]) => InWork' = InWork
           /\ \A w \in Workers :
                 /\ w \notin Works(bench[b]) /\ Works(new) = Works(bench[b]) \cup {w} =>
                       Cardinality(InWork') = Cardinality(InWork) + 1
                 /\ w \in Works(bench[b]) /\ Works(new) = Works(bench[b]) \ {w} =>
                       Cardinality(InWork') = Cardinality(InWork) - 1 /\ Cardinality(InWork) > 0
<1>1. bench'[b] = new /\ \A c \in Benches \ {b} : bench'[c] = bench[c]
  BY DEF Become, TypeOK
<1>2. InWork = {p \in Benches \X Workers : p[2] \in Works(bench[p[1]])}
  BY DEF InWork, Works, Working
<1>3. InWork' = {p \in Benches \X Workers : p[2] \in Works(bench'[p[1]])}
  BY DEF InWork, Works, Working
<1>4. Works(new) = Works(bench[b]) => InWork' = InWork
  BY <1>1, <1>2, <1>3
<1>5. ASSUME NEW w \in Workers, w \notin Works(bench[b]), Works(new) = Works(bench[b]) \cup {w}
      PROVE  Cardinality(InWork') = Cardinality(InWork) + 1
  <2>1. InWork' = InWork \cup {<<b, w>>}
    BY <1>1, <1>2, <1>3, <1>5
  <2>2. <<b, w>> \notin InWork
    BY <1>2, <1>5
  <2> QED
    BY <2>1, <2>2, Countable, OneMore
<1>6. ASSUME NEW w \in Workers, w \in Works(bench[b]), Works(new) = Works(bench[b]) \ {w}
      PROVE  Cardinality(InWork') = Cardinality(InWork) - 1 /\ Cardinality(InWork) > 0
  <2>1. InWork' = InWork \ {<<b, w>>}
    BY <1>1, <1>2, <1>3, <1>6
  <2>2. <<b, w>> \in InWork
    BY <1>2, <1>6
  <2> QED
    BY <2>1, <2>2, Countable, OneLess
<1> QED
  BY <1>4, <1>5, <1>6

InflightIs == inflight = Cardinality(InRun) + Cardinality(InWarmup) + Cardinality(InWork)

LEMMA InflightSum == InflightExact <=> InflightIs
BY DEF InflightExact, InflightIs, InRun, InWarmup, InWork

-----------------------------------------------------------------------------
(***************************************************************************)
(* What each operation makes of a benchmark that is sound.                 *)
(***************************************************************************)
Outside == {"idle", "over", "dropped", "accepted", "warmup"}

LEMMA FreshSound ==
    ASSUME NEW phase \in Outside, NEW mode \in 0 .. Modes
    PROVE  /\ BenchSound(Fresh(phase, mode))
           /\ Fresh(phase, mode).phase = phase /\ ~Fresh(phase, mode).warming
           /\ Works(Fresh(phase, mode)) = {}
<1> DEFINE x == Fresh(phase, mode)
<1>1. x \in Bench
  BY LabAssumption DEF Fresh, Bench, Outside, Active, InGroup, Ready, Gone, Indexes
<1>2. /\ x.phase = phase /\ ~x.warming /\ x.done = {} /\ x.got = 0 /\ x.next = 0
      /\ x.work = [w \in Workers |-> Ready]
  BY DEF Fresh
<1>3. Works(x) = {}
  BY <1>2, LabAssumption DEF Works, Ready, Indexes
<1>4. Taking(x)
  BY <1>2, <1>3, FS_EmptySet DEF Taking, Works
<1> HIDE DEF x
<1>5. BenchSound(x)
  BY <1>1, <1>2, <1>4 DEF BenchSound, Untouched, Outside, InGroup
<1> QED
  BY <1>2, <1>3, <1>5 DEF x

LEMMA StillWorks ==
    ASSUME NEW x, NEW y, y.work = x.work
    PROVE  Works(y) = Works(x)
BY DEF Works

\* A change of the phase, or of the status, alone.
LEMMA StillTaking ==
    ASSUME NEW x, NEW y, Taking(x), y.work = x.work, y.next = x.next, y.done = x.done, y.got = x.got
    PROVE  Taking(y)
BY DEF Taking

\* The set of a benchmark's done indexes counts to Total when all are done, not before.
LEMMA AllDone ==
    ASSUME NEW x, BenchSound(x)
    PROVE  /\ IsFiniteSet(x.done) /\ Cardinality(x.done) \in 0 .. Total
           /\ x.got = Total => x.done = Indexes
<1>1. x.done \subseteq Indexes /\ x.got <= Cardinality(x.done) /\ x.got \in 0 .. Total
  BY DEF BenchSound, Bench, Taking
<1>2. IsFiniteSet(Indexes) /\ Cardinality(Indexes) = Total
  <2>1. 0 \in Int /\ Total - 1 \in Int
    BY LabAssumption
  <2> QED
    BY <2>1, FS_Interval, LabAssumption DEF Indexes
<1>3. IsFiniteSet(x.done) /\ Cardinality(x.done) <= Total
  BY <1>1, <1>2, FS_Subset
<1>4. Cardinality(x.done) \in Nat
  BY <1>3, FS_CardinalityType
<1>5. ASSUME x.got = Total
      PROVE  x.done = Indexes
  <2>1. Cardinality(x.done) = Cardinality(Indexes)
    BY <1>1, <1>2, <1>3, <1>4, <1>5, LabAssumption
  <2> QED
    BY <2>1, <1>1, <1>2, FS_Subset
<1> QED
  BY <1>3, <1>4, <1>5, LabAssumption

\* Who works then.
WorksOn(x, w) == IF x.next < Total THEN Works(x) \cup {w} ELSE Works(x) \ {w}

\* A worker ends and the group closes.
Stopped(x, w, fate) == [x EXCEPT !.work[w] = Gone, !.phase = "closing", !.fate = fate]

\* A warmup request that runs, runs still, and none begins.
AsWarm(x, y) == y.warming = x.warming

\* A worker goes on to the next index, or to its end, after its record was put.
Goes(x, y, w) ==
    /\ y \in Bench /\ y.phase = x.phase /\ AsWarm(x, y) /\ y.got = x.got
    /\ y.done = x.done \cup ({x.work[w]} \cap Indexes)
    /\ y.next = IF x.next < Total THEN x.next + 1 ELSE x.next
    /\ \A v \in Workers : y.work[v] = IF v # w THEN x.work[v]
                                      ELSE IF x.next < Total THEN x.next ELSE Gone

\* A worker of a sound benchmark that takes the next index, after a record of its own,
\* if it had one, was put.
LEMMA TakenSound ==
    ASSUME NEW x, BenchSound(x), NEW w \in Workers, x.phase \in InGroup \ {"closing"},
           x.work[w] # Gone, NEW y, Goes(x, y, w)
    PROVE  BenchSound(y) /\ y.phase = x.phase /\ AsWarm(x, y) /\ Works(y) = WorksOn(x, w)
<1> SUFFICES ASSUME NEW own, own = {x.work[w]} \cap Indexes,
                    y \in Bench, y.phase = x.phase, AsWarm(x, y), y.got = x.got,
                    y.done = x.done \cup own,
                    y.next = (IF x.next < Total THEN x.next + 1 ELSE x.next),
                    \A v \in Workers : y.work[v] = IF v # w THEN x.work[v]
                                                   ELSE IF x.next < Total THEN x.next ELSE Gone
             PROVE  BenchSound(y) /\ Works(y) = WorksOn(x, w)
  BY DEF Goes
<1> USE LabAssumption DEF Indexes, Ready, Gone
<1>1. x \in Bench /\ Taking(x) /\ x.phase # "closing" /\ x.phase # "comparing"
  BY DEF BenchSound, InGroup
<1>2. x.next \in 0 .. Total /\ x.work \in [Workers -> Indexes \cup {Ready, Gone}] /\ x.done \subseteq Indexes
  BY <1>1 DEF Bench
<1>7. Works(y) = IF x.next < Total THEN Works(x) \cup {w} ELSE Works(x) \ {w}
  BY <1>2 DEF Works
<1>8. \A v \in Workers : x.work[v] \in Indexes => x.work[v] < x.next /\ x.work[v] \notin x.done
  BY <1>1 DEF Taking
<1>9. \A u, v \in Workers : x.work[v] \in Indexes /\ x.work[u] = x.work[v] => u = v
  BY <1>1 DEF Taking
<1>10. \A i \in x.done : i < x.next
  BY <1>1 DEF Taking
<1>11. Taking(y)
  <2>1. ASSUME NEW v \in Workers, y.work[v] \in Indexes
        PROVE  y.work[v] < y.next /\ y.work[v] \notin y.done
    <3>1. CASE v = w
      BY <3>1, <2>1, <1>2, <1>8, <1>10
    <3>2. CASE v # w
      <4>1. x.work[v] \in Indexes /\ y.work[v] = x.work[v]
        BY <3>2, <2>1
      <4>2. x.work[v] < x.next /\ x.work[v] \notin x.done
        BY <4>1, <1>8
      <4>3. x.work[v] \notin own
        BY <4>1, <3>2, <1>9
      <4> QED
        BY <4>1, <4>2, <4>3, <1>2
    <3> QED
      BY <3>1, <3>2
  <2>2. ASSUME NEW u \in Workers, NEW v \in Workers, y.work[v] \in Indexes, y.work[u] = y.work[v]
        PROVE  u = v
    BY <2>2, <1>2, <1>8, <1>9
  <2>3. ASSUME NEW i \in y.done
        PROVE  i < y.next
    BY <2>3, <1>2, <1>8, <1>10
  <2>4. y.got <= Cardinality(y.done)
    <3>1. IsFiniteSet(x.done) /\ IsFiniteSet(own)
      <4>1. own \subseteq {x.work[w]}
        OBVIOUS
      <4>2. IsFiniteSet(own)
        BY <4>1, FS_Singleton, FS_Subset
      <4> QED
        BY <4>2, AllDone
    <3>2. IsFiniteSet(y.done) /\ x.done \subseteq y.done
      <4>1. IsFiniteSet(x.done \cup own)
        BY <3>1, FS_Union, Zenon
      <4>2. y.done = x.done \cup own
        OBVIOUS
      <4> QED
        BY <4>1, <4>2
    <3>3. Cardinality(x.done) <= Cardinality(y.done) /\ Cardinality(x.done) \in Nat /\ Cardinality(y.done) \in Nat
      BY <3>1, <3>2, FS_Subset, FS_CardinalityType
    <3>4. x.got <= Cardinality(x.done) /\ x.got \in 0 .. Total
      BY <1>1 DEF Taking, Bench
    <3> QED
      BY <3>3, <3>4
  <2> QED
    BY <2>1, <2>2, <2>3, <2>4 DEF Taking
<1>12. BenchSound(y)
  BY <1>1, <1>11 DEF BenchSound, InGroup, AsWarm
<1> QED
  BY <1>7, <1>12 DEF WorksOn

\* A worker that is gone, and its group with it.
LEMMA StoppedSound ==
    ASSUME NEW x, BenchSound(x), NEW w \in Workers, x.phase \in InGroup,
           NEW fate \in {"cancelled", "error", "running"},
           NEW y, y = [x EXCEPT !.work[w] = Gone, !.phase = "closing", !.fate = fate]
    PROVE  BenchSound(y) /\ y.phase = "closing" /\ AsWarm(x, y) /\ Works(y) = Works(x) \ {w}
<1> USE LabAssumption DEF Indexes, Ready, Gone
<1>1. x \in Bench /\ Taking(x) /\ x.phase # "comparing" /\ ~x.warming
  BY DEF BenchSound, InGroup
<1>2. x.work \in [Workers -> Indexes \cup {Ready, Gone}]
  BY <1>1 DEF Bench
<1>3. y \in Bench
  BY <1>1, <1>2 DEF Bench, Active, InGroup
<1>4. /\ y.phase = "closing" /\ y.warming = x.warming /\ y.warmed = x.warmed /\ y.got = x.got
      /\ y.done = x.done /\ y.next = x.next /\ y.fate = fate
  BY <1>1 DEF Bench
<1>5. \A v \in Workers : y.work[v] = IF v # w THEN x.work[v] ELSE Gone
  BY <1>1, <1>2 DEF Bench
<1>6. Works(y) = Works(x) \ {w}
  BY <1>2, <1>5 DEF Works
<1>7. Taking(y)
  BY <1>1, <1>2, <1>4, <1>5 DEF Taking
<1>8. BenchSound(y)
  BY <1>1, <1>3, <1>4, <1>7, SMTT(20) DEF BenchSound, InGroup
<1> QED
  BY <1>4, <1>6, <1>8 DEF AsWarm

LEMMA ClosedSound ==
    ASSUME NEW x, BenchSound(x), NEW w \in Workers, x.phase \in InGroup,
           NEW fate \in {"cancelled", "error", "running"}
    PROVE  /\ BenchSound(Stopped(x, w, fate)) /\ Stopped(x, w, fate).phase = "closing"
           /\ AsWarm(x, Stopped(x, w, fate))
           /\ Works(Stopped(x, w, fate)) = Works(x) \ {w}
BY StoppedSound DEF Stopped

-----------------------------------------------------------------------------
(***************************************************************************)
(* A step of one benchmark: the count moves by what begins or ends, and    *)
(* "busy" covers the benchmark that is active.                             *)
(***************************************************************************)
SameWarmup(b, new) == new.warming <=> bench[b].warming

CountMoves(b, new) ==
    \/ inflight' = inflight /\ SameWarmup(b, new) /\ Works(new) = Works(bench[b])
    \/ /\ inflight' = inflight + 1 /\ new.warming /\ ~bench[b].warming
       /\ Works(new) = Works(bench[b])
    \/ /\ inflight' = inflight - 1 /\ ~new.warming /\ bench[b].warming
       /\ Works(new) = Works(bench[b])
    \/ \E w \in Workers :
          /\ inflight' = inflight + 1 /\ SameWarmup(b, new)
          /\ w \notin Works(bench[b]) /\ Works(new) = Works(bench[b]) \cup {w}
    \/ \E w \in Workers :
          /\ inflight' = inflight - 1 /\ SameWarmup(b, new)
          /\ w \in Works(bench[b]) /\ Works(new) = Works(bench[b]) \ {w}

BusyMoves(b, new) ==
    \/ busy' = busy /\ (new.phase \in Active => At(b, Active))
    \/ busy' = FALSE /\ At(b, Active) /\ new.phase \notin Active
    \/ ~busy /\ busy' = TRUE

OthersTyped ==
    /\ saved' \in [Benches -> {"none", "ok", "cancelled", "error", "running"}]
    /\ faults' \in 0 .. Faults

LEMMA BenchStep ==
    ASSUME GatewayInv, NEW b \in Benches, NEW new, BenchSound(new), Become(b, new), run' = run,
           CountMoves(b, new), BusyMoves(b, new), OthersTyped
    PROVE  GatewayInv'
<1>1. /\ TypeOK /\ InflightIs /\ Alone
      /\ \A c \in Benches : BenchSound(bench[c])
  BY InflightSum DEF GatewayInv
<1>2. bench'[b] = new /\ \A c \in Benches \ {b} : bench'[c] = bench[c]
  BY <1>1 DEF Become, TypeOK
<1>3. \A c \in Benches : BenchSound(bench'[c])
  BY <1>1, <1>2
<1>4. inflight' \in Nat /\ InflightExact'
  <2> DEFINE r  == Cardinality(InRun)
             m  == Cardinality(InWarmup)
             k  == Cardinality(InWork)
             r1 == Cardinality(InRun')
             m1 == Cardinality(InWarmup')
             k1 == Cardinality(InWork')
  <2>1. r \in Nat /\ m \in Nat /\ k \in Nat /\ inflight = r + m + k /\ inflight \in Nat
    BY <1>1, Countable DEF InflightIs, TypeOK
  <2>2. r1 = r
    BY DEF InRun
  <2>3. /\ SameWarmup(b, new) => m1 = m
        /\ new.warming /\ ~bench[b].warming => m1 = m + 1
        /\ ~new.warming /\ bench[b].warming => m1 = m - 1 /\ m > 0
    BY <1>1, WarmupCount DEF SameWarmup
  <2>4. /\ Works(new) = Works(bench[b]) => k1 = k
        /\ \A w \in Workers :
              /\ w \notin Works(bench[b]) /\ Works(new) = Works(bench[b]) \cup {w} => k1 = k + 1
              /\ w \in Works(bench[b]) /\ Works(new) = Works(bench[b]) \ {w} => k1 = k - 1 /\ k > 0
    BY <1>1, WorkCount
  <2> HIDE DEF r, m, k, r1, m1, k1
  <2>5. inflight' = r1 + m1 + k1 /\ inflight' \in Nat
    <3>1. CASE inflight' = inflight /\ SameWarmup(b, new) /\ Works(new) = Works(bench[b])
      BY <3>1, <2>1, <2>2, <2>3, <2>4
    <3>2. CASE /\ inflight' = inflight + 1 /\ new.warming /\ ~bench[b].warming
               /\ Works(new) = Works(bench[b])
      BY <3>2, <2>1, <2>2, <2>3, <2>4
    <3>3. CASE /\ inflight' = inflight - 1 /\ ~new.warming /\ bench[b].warming
               /\ Works(new) = Works(bench[b])
      BY <3>3, <2>1, <2>2, <2>3, <2>4
    <3>4. ASSUME NEW w \in Workers,
                 /\ inflight' = inflight + 1 /\ SameWarmup(b, new)
                 /\ w \notin Works(bench[b]) /\ Works(new) = Works(bench[b]) \cup {w}
          PROVE  inflight' = r1 + m1 + k1 /\ inflight' \in Nat
      BY <3>4, <2>1, <2>2, <2>3, <2>4
    <3>5. ASSUME NEW w \in Workers,
                 /\ inflight' = inflight - 1 /\ SameWarmup(b, new)
                 /\ w \in Works(bench[b]) /\ Works(new) = Works(bench[b]) \ {w}
          PROVE  inflight' = r1 + m1 + k1 /\ inflight' \in Nat
      BY <3>5, <2>1, <2>2, <2>3, <2>4
    <3> QED
      BY <3>1, <3>2, <3>3, <3>4, <3>5 DEF CountMoves
  <2> QED
    BY <2>5 DEF r1, m1, k1, InflightExact, InRun, InWarmup, InWork
<1>5. busy' \in BOOLEAN
  BY <1>1 DEF BusyMoves, TypeOK
<1>6. Alone'
  <2>1. ASSUME NEW c \in Benches, bench'[c].phase \in Active
        PROVE  busy' = TRUE /\ (\A a \in Benches : bench'[a].phase \in Active => a = c)
    <3>1. CASE busy' = busy /\ (new.phase \in Active => At(b, Active))
      BY <1>1, <1>2, <2>1, <3>1 DEF Alone, OneBenchmark, At, TypeOK
    <3>2. CASE busy' = FALSE /\ At(b, Active) /\ new.phase \notin Active
      BY <1>1, <1>2, <2>1, <3>2 DEF Alone, OneBenchmark, At
    <3>3. CASE ~busy /\ busy' = TRUE
      BY <1>1, <1>2, <2>1, <3>3 DEF Alone, OneBenchmark, At
    <3> QED
      BY <3>1, <3>2, <3>3 DEF BusyMoves
  <2> QED
    BY <2>1 DEF Alone, OneBenchmark, At
<1>7. TypeOK'
  <2>1. bench' \in [Benches -> Bench]
    BY <1>1, <1>3 DEF TypeOK, Become, BenchSound
  <2> QED
    BY <2>1, <1>1, <1>4, <1>5 DEF TypeOK, OthersTyped
<1> QED
  BY <1>3, <1>4, <1>6, <1>7 DEF GatewayInv

\* No worker of a benchmark runs a request outside the task group.
LEMMA NoWorks ==
    ASSUME NEW x, BenchSound(x), x.phase \notin InGroup
    PROVE  Works(x) = {}
BY LabAssumption DEF BenchSound, Untouched, Works, Indexes, Ready, Gone

\* A benchmark that starts over, in a phase outside the group.
LEMMA FreshStep ==
    ASSUME GatewayInv, NEW b \in Benches, bench[b].phase \notin InGroup,
           NEW phase \in Outside, NEW mode \in 0 .. Modes, Become(b, Fresh(phase, mode)),
           run' = run, inflight' = (IF bench[b].warming THEN inflight - 1 ELSE inflight),
           BusyMoves(b, Fresh(phase, mode)), OthersTyped
    PROVE  GatewayInv'
<1> PICK new : new = Fresh(phase, mode)
  OBVIOUS
<1>1. BenchSound(new) /\ ~new.warming /\ Works(new) = {}
  BY FreshSound
<1>2. Works(bench[b]) = {}
  BY NoWorks DEF GatewayInv
<1>3. CountMoves(b, new)
  <2>1. CASE bench[b].warming
    BY <2>1, <1>1, <1>2 DEF CountMoves
  <2>2. CASE ~bench[b].warming
    BY <2>2, <1>1, <1>2 DEF CountMoves, SameWarmup
  <2> QED
    BY <2>1, <2>2
<1> QED
  BY <1>1, <1>3, BenchStep

\* The end of a benchmark.
LEMMA OverStep ==
    ASSUME GatewayInv, NEW b \in Benches, bench[b].phase \notin InGroup \/ Works(bench[b]) = {},
           At(b, Active), NEW status \in {"ok", "cancelled", "error", "running"}, Over(b, status),
           inflight' = (IF bench[b].warming THEN inflight - 1 ELSE inflight)
    PROVE  GatewayInv'
<1> PICK new : new = Fresh("over", 0)
  OBVIOUS
<1>1. BenchSound(new) /\ ~new.warming /\ Works(new) = {} /\ new.phase = "over"
  BY FreshSound, LabAssumption DEF Outside
<1>2. Works(bench[b]) = {}
  BY NoWorks DEF GatewayInv
<1>3. CountMoves(b, new)
  <2>1. CASE bench[b].warming
    BY <2>1, <1>1, <1>2 DEF CountMoves
  <2>2. CASE ~bench[b].warming
    BY <2>2, <1>1, <1>2 DEF CountMoves, SameWarmup
  <2> QED
    BY <2>1, <2>2
<1>4. BusyMoves(b, new)
  BY <1>1 DEF BusyMoves, Over, Active, InGroup
<1>5. OthersTyped
  BY LabAssumption DEF OthersTyped, Over, GatewayInv, TypeOK
<1> QED
  BY <1>1, <1>3, <1>4, <1>5, BenchStep DEF Over

\* What else a step of a benchmark leaves alone.
LEMMA OthersLeft ==
    ASSUME GatewayInv, UNCHANGED <<saved, faults>>
    PROVE  OthersTyped
BY DEF OthersTyped, GatewayInv, TypeOK

\* A step that keeps the workers and the warmup as they are.
LEMMA PhaseStep ==
    ASSUME GatewayInv, NEW b \in Benches, NEW new, BenchSound(new), Become(b, new),
           At(b, Active), new.work = bench[b].work, SameWarmup(b, new),
           UNCHANGED <<inflight, busy, run, saved, faults>>
    PROVE  GatewayInv'
<1>1. CountMoves(b, new)
  BY StillWorks DEF CountMoves
<1>2. BusyMoves(b, new)
  BY DEF BusyMoves
<1> QED
  BY <1>1, <1>2, OthersLeft, BenchStep

LEMMA BeginsKept ==
    ASSUME GatewayInv, NEW b \in Benches, AcceptBench(b) \/ BeginBench(b)
    PROVE  GatewayInv'
<1>1. BenchSound(bench[b])
  BY DEF GatewayInv
<1>2. CASE AcceptBench(b)
  <2>1. Fresh("accepted", 0).phase = "accepted" /\ 0 \in 0 .. Modes /\ ~bench[b].warming
    BY <1>1, <1>2, FreshSound, LabAssumption DEF AcceptBench, At, BenchSound, Outside
  <2>2. BusyMoves(b, Fresh("accepted", 0))
    BY <1>2 DEF AcceptBench, BusyMoves
  <2> QED
    BY <1>2, <2>1, <2>2, FreshStep, OthersLeft DEF AcceptBench, At, InGroup, Outside
<1>3. CASE BeginBench(b)
  <2>1. Fresh("warmup", 1).phase = "warmup" /\ 1 \in 0 .. Modes /\ ~bench[b].warming
    BY <1>1, <1>3, FreshSound, LabAssumption DEF BeginBench, At, BenchSound, Outside
  <2>2. BusyMoves(b, Fresh("warmup", 1))
    BY <1>3 DEF BeginBench, BusyMoves, At, Active
  <2> QED
    BY <1>3, <2>1, <2>2, FreshStep, OthersLeft DEF BeginBench, At, InGroup, Outside
<1> QED
  BY <1>2, <1>3

LEMMA WarmupKept ==
    ASSUME GatewayInv, NEW b \in Benches,
           StartWarmup(b) \/ EndWarmup(b) \/ FailWarmup(b) \/ OpenGroup(b)
    PROVE  GatewayInv'
<1>1. BenchSound(bench[b]) /\ bench[b] \in Bench /\ bench[b].phase = "warmup"
  BY DEF GatewayInv, BenchSound, StartWarmup, EndWarmup, FailWarmup, OpenGroup, At
<1>2. CASE StartWarmup(b)
  <2> PICK new : new = [bench[b] EXCEPT !.warming = TRUE]
    OBVIOUS
  <2>1. new \in Bench
    BY <1>1 DEF Bench
  <2>2. new.warming
    BY <1>1 DEF Bench
  <2>3. new = [bench[b] EXCEPT !.warming = new.warming]
    BY <2>2
  <2>4. /\ new.phase = "warmup" /\ new.work = bench[b].work /\ new.warmed = bench[b].warmed
        /\ new.next = bench[b].next /\ new.done = bench[b].done /\ new.got = bench[b].got
    BY <1>1 DEF Bench
  <2>5. Taking(new)
    BY <1>1, <2>4, StillTaking DEF BenchSound
  <2>6. BenchSound(new)
    BY <1>1, <1>2, <2>1, <2>4, <2>5 DEF BenchSound, StartWarmup, Untouched, InGroup
  <2>7. CountMoves(b, new)
    BY <1>2, <2>2, <2>4, StillWorks DEF CountMoves, StartWarmup
  <2>8. BusyMoves(b, new)
    BY <1>1, <1>2 DEF BusyMoves, StartWarmup, At, Active
  <2> QED
    BY <1>2, <2>6, <2>7, <2>8, OthersLeft, BenchStep DEF StartWarmup
<1>3. CASE EndWarmup(b)
  <2> PICK new : new = [bench[b] EXCEPT !.warming = FALSE, !.warmed = @ + 1]
    OBVIOUS
  <2>1. bench[b].warmed + 1 \in 0 .. Warmup
    BY <1>1, <1>3, LabAssumption DEF BenchSound, Bench, EndWarmup
  <2>2. new \in Bench
    BY <1>1, <2>1 DEF Bench
  <2>3. ~new.warming
    BY <1>1 DEF Bench
  <2>4. /\ new.phase = "warmup" /\ new.work = bench[b].work
        /\ new.next = bench[b].next /\ new.done = bench[b].done /\ new.got = bench[b].got
    BY <1>1 DEF Bench
  <2>5. Taking(new)
    BY <1>1, <2>4, StillTaking DEF BenchSound
  <2>6. BenchSound(new)
    BY <1>1, <2>2, <2>3, <2>4, <2>5 DEF BenchSound, Untouched, InGroup
  <2>7. CountMoves(b, new)
    BY <1>3, <2>3, <2>4, StillWorks DEF CountMoves, EndWarmup
  <2>8. BusyMoves(b, new)
    BY <1>1, <1>3 DEF BusyMoves, EndWarmup, At, Active
  <2> QED
    BY <1>3, <2>6, <2>7, <2>8, OthersLeft, BenchStep DEF EndWarmup
<1>4. CASE FailWarmup(b)
  <2>1. Fresh("over", 0).phase = "over" /\ 0 \in 0 .. Modes
    BY FreshSound, LabAssumption DEF Outside
  <2>2. BusyMoves(b, Fresh("over", 0))
    BY <1>1, <1>4, <2>1 DEF BusyMoves, FailWarmup, At, Active, InGroup
  <2>3. OthersTyped
    BY <1>4, LabAssumption DEF OthersTyped, FailWarmup, GatewayInv, TypeOK
  <2> QED
    BY <1>1, <1>4, <2>1, <2>2, <2>3, FreshStep DEF FailWarmup, InGroup, Outside
<1>5. CASE OpenGroup(b)
  <2> PICK new : new = [bench[b] EXCEPT !.phase = "waiting"]
    OBVIOUS
  <2>1. new \in Bench
    BY <1>1 DEF Bench, Active, InGroup
  <2>2. /\ new.phase = "waiting" /\ new.work = bench[b].work /\ new.warming = bench[b].warming
        /\ new.next = bench[b].next /\ new.done = bench[b].done /\ new.got = bench[b].got
    BY <1>1 DEF Bench
  <2>3. Taking(new)
    BY <1>1, <2>2, StillTaking DEF BenchSound
  <2>4. ~new.warming /\ SameWarmup(b, new)
    BY <1>5, <2>2 DEF OpenGroup, SameWarmup
  <2>5. BenchSound(new)
    BY <2>1, <2>2, <2>3, <2>4 DEF BenchSound, InGroup
  <2> QED
    BY <1>1, <1>5, <2>2, <2>4, <2>5, PhaseStep DEF OpenGroup, At, Active
<1> QED
  BY <1>2, <1>3, <1>4, <1>5

\* A worker that begins, that goes on to its next request or that finds none left.
LEMMA TakingKept ==
    ASSUME GatewayInv, NEW b \in Benches, NEW w \in Workers, StartWorker(b, w) \/ Put(b, w)
    PROVE  GatewayInv'
<1> PICK x : x = bench[b]
  OBVIOUS
<1>1. /\ BenchSound(x) /\ x \in Bench /\ x.phase \in InGroup \ {"closing"} /\ ~x.warming
      /\ At(b, Active)
  BY DEF GatewayInv, BenchSound, StartWorker, Put, At, InGroup, Active
<1> PICK own : own = {x.work[w]} \cap Indexes
  OBVIOUS
<1>2. x.work[w] # Gone
  BY LabAssumption DEF StartWorker, Put, Working, Ready, Gone, Indexes
<1> PICK y : y = IF x.next < Total
                 THEN [x EXCEPT !.work[w] = x.next, !.next = x.next + 1, !.done = x.done \cup own]
                 ELSE [x EXCEPT !.work[w] = Gone, !.done = x.done \cup own]
  OBVIOUS
<1>3. Goes(x, y, w)
  <2> USE LabAssumption DEF Indexes, Ready, Gone
  <2>1. x \in Bench
    BY <1>1
  <2>2. x.next \in 0 .. Total /\ x.work \in [Workers -> Indexes \cup {Ready, Gone}] /\ x.done \subseteq Indexes
    BY <1>1 DEF Bench
  <2>3. y \in Bench
    <3>1. own \subseteq Indexes
      OBVIOUS
    <3>2. CASE x.next < Total
      <4> PICK work, next, done : /\ work = [x.work EXCEPT ![w] = x.next]
                                  /\ next = x.next + 1 /\ done = x.done \cup own
        OBVIOUS
      <4>1. next \in 0 .. Total /\ done \in SUBSET Indexes
        BY <2>2, <3>1, <3>2
      <4>2. work \in [Workers -> Indexes \cup {Ready, Gone}]
        BY <2>2, <3>2
      <4>3. y = [x EXCEPT !.work = work, !.next = next, !.done = done]
        BY <3>2, <2>1 DEF Bench
      <4> HIDE DEF Indexes, Ready, Gone
      <4> QED
        BY <2>1, <4>1, <4>2, <4>3 DEF Bench
    <3>3. CASE ~(x.next < Total)
      BY <2>1, <2>2, <3>1, <3>3 DEF Bench
    <3> QED
      BY <3>2, <3>3
  <2>4. /\ y.phase = x.phase /\ y.warming = x.warming /\ y.warmed = x.warmed /\ y.got = x.got
        /\ y.done = x.done \cup own /\ y.mode = x.mode /\ y.fate = x.fate
    <3>1. CASE x.next < Total
      BY <2>1, <3>1 DEF Bench
    <3>2. CASE ~(x.next < Total)
      BY <2>1, <3>2 DEF Bench
    <3> QED
      BY <3>1, <3>2
  <2>5. y.next = IF x.next < Total THEN x.next + 1 ELSE x.next
    BY <2>1 DEF Bench
  <2>6. \A v \in Workers : y.work[v] = IF v # w THEN x.work[v]
                                       ELSE IF x.next < Total THEN x.next ELSE Gone
    BY <2>1, <2>2 DEF Bench
  <2> QED
    BY <2>3, <2>4, <2>5, <2>6 DEF Goes, AsWarm
<1>4. BenchSound(y) /\ y.phase = x.phase /\ AsWarm(x, y) /\ Works(y) = WorksOn(x, w)
  BY <1>1, <1>2, <1>3, TakenSound
<1>5. /\ BenchSound(y) /\ y.phase = x.phase /\ AsWarm(x, y)
      /\ Works(y) = IF x.next < Total THEN Works(x) \cup {w} ELSE Works(x) \ {w}
  BY <1>4 DEF WorksOn
<1>6. SameWarmup(b, y) /\ BusyMoves(b, y)
  <2>1. busy' = busy
    BY DEF StartWorker, Put
  <2> QED
    BY <1>1, <1>5, <2>1 DEF SameWarmup, BusyMoves, AsWarm
<1>7. CASE StartWorker(b, w)
  <2>1. w \notin Works(x)
    BY <1>7, LabAssumption DEF Works, StartWorker, Ready, Indexes
  <2>2. own = {} /\ x.done \cup own = x.done
    BY <2>1 DEF Works
  <2>3. y = Taken(b, w)
    <3>1. [x EXCEPT !.work[w] = x.next, !.next = x.next + 1, !.done = x.done]
          = [x EXCEPT !.work[w] = x.next, !.next = x.next + 1]
      BY <1>1 DEF Bench
    <3>2. [x EXCEPT !.work[w] = Gone, !.done = x.done] = [x EXCEPT !.work[w] = Gone]
      BY <1>1 DEF Bench
    <3> QED
      BY <2>2, <3>1, <3>2 DEF Taken
  <2>4. Become(b, y)
    BY <1>7, <2>3 DEF StartWorker
  <2>5. CountMoves(b, y)
    <3>1. CASE x.next < Total
      BY <3>1, <1>5, <1>6, <1>7, <2>1 DEF CountMoves, StartWorker
    <3>2. CASE ~(x.next < Total)
      BY <3>2, <1>5, <1>6, <1>7, <2>1, SMTT(20) DEF CountMoves, StartWorker
    <3> QED
      BY <3>1, <3>2
  <2> QED
    BY <1>5, <1>6, <1>7, <2>4, <2>5, OthersLeft, BenchStep DEF StartWorker
<1>8. CASE Put(b, w)
  <2>1. w \in Works(x) /\ own = {x.work[w]}
    BY <1>8 DEF Works, Put, Working
  <2>2. y = [Taken(b, w) EXCEPT !.done = @ \cup {x.work[w]}]
    <3>1. CASE x.next < Total
      BY <3>1, <1>1, <2>1 DEF Taken, Bench
    <3>2. CASE ~(x.next < Total)
      BY <3>2, <1>1, <2>1 DEF Taken, Bench
    <3> QED
      BY <3>1, <3>2
  <2>3. Become(b, y)
    BY <1>8, <2>2 DEF Put
  <2>4. CountMoves(b, y)
    <3>1. CASE x.next < Total
      <4>1. Works(y) = Works(x)
        BY <3>1, <1>5, <2>1
      <4> QED
        BY <3>1, <4>1, <1>6, <1>8 DEF CountMoves, Put
    <3>2. CASE ~(x.next < Total)
      BY <3>2, <1>5, <1>6, <1>8, <2>1 DEF CountMoves, Put
    <3> QED
      BY <3>1, <3>2
  <2> QED
    BY <1>5, <1>6, <1>8, <2>3, <2>4, OthersLeft, BenchStep DEF Put
<1> QED
  BY <1>7, <1>8

\* A worker that ends in an aborted group, or aborts it.
LEMMA EndingKept ==
    ASSUME GatewayInv, NEW b \in Benches, NEW w \in Workers, FailWorker(b, w) \/ CancelWorker(b, w)
    PROVE  GatewayInv'
<1> PICK x : x = bench[b]
  OBVIOUS
<1>1. /\ BenchSound(x) /\ x \in Bench /\ x.phase \in InGroup /\ ~x.warming
      /\ At(b, Active)
  BY DEF GatewayInv, BenchSound, FailWorker, CancelWorker, At, InGroup, Active
<1> PICK fate : fate = IF CancelWorker(b, w) THEN x.fate
                       ELSE IF At(b, {"yielding"}) THEN "running"
                       ELSE IF At(b, {"closing"}) /\ x.fate # "cancelled" THEN x.fate ELSE "error"
  OBVIOUS
<1>2. fate \in {"none", "cancelled", "error", "running"} /\ fate # "none"
  BY <1>1 DEF Bench, BenchSound, CancelWorker, At
<1> PICK y : y = Stopped(x, w, fate)
  OBVIOUS
<1>3. BenchSound(y) /\ y.phase = "closing" /\ AsWarm(x, y) /\ Works(y) = Works(x) \ {w}
  BY <1>1, <1>2, ClosedSound
<1>4. SameWarmup(b, y) /\ BusyMoves(b, y)
  <2>1. busy' = busy
    BY DEF FailWorker, CancelWorker
  <2> QED
    BY <1>1, <1>3, <2>1 DEF SameWarmup, BusyMoves, AsWarm
<1>5. CASE CancelWorker(b, w)
  <2>1. y = Ended(b, w)
    <3>1. x.phase = "closing" /\ fate = x.fate
      BY <1>5 DEF CancelWorker, At
    <3> QED
      BY <1>1, <3>1 DEF Ended, Stopped, Bench
  <2>2. Become(b, y)
    BY <1>5, <2>1 DEF CancelWorker
  <2>3. CountMoves(b, y)
    <3>1. CASE w \in Works(x)
      BY <3>1, <1>3, <1>4, <1>5 DEF CountMoves, CancelWorker, Works, Working
    <3>2. CASE w \notin Works(x)
      <4>1. Works(y) = Works(x) /\ inflight' = inflight
        BY <3>2, <1>3, <1>5 DEF CancelWorker, Works, Working
      <4> QED
        BY <4>1, <1>4 DEF CountMoves
    <3> QED
      BY <3>1, <3>2
  <2> QED
    BY <1>3, <1>4, <1>5, <2>2, <2>3, OthersLeft, BenchStep DEF CancelWorker
<1>6. CASE FailWorker(b, w) /\ ~CancelWorker(b, w)
  <2>1. y = Aborted(b, Ended(b, w), "error")
    BY <1>1, <1>6 DEF Ended, Aborted, Stopped, Bench
  <2>2. Become(b, y)
    BY <1>6, <2>1, SMTT(20) DEF FailWorker
  <2>3. CountMoves(b, y)
    BY <1>3, <1>4, <1>6 DEF CountMoves, FailWorker, Works, Working
  <2>4. OthersTyped
    BY <1>6, LabAssumption DEF OthersTyped, FailWorker, GatewayInv, TypeOK
  <2> QED
    BY <1>3, <1>4, <1>6, <2>2, <2>3, <2>4, BenchStep DEF FailWorker
<1> QED
  BY <1>5, <1>6

\* The loop over the queue and the end of the group.
LEMMA LoopKept ==
    ASSUME GatewayInv, NEW b \in Benches, Get(b) \/ Sent(b) \/ Join(b)
    PROVE  GatewayInv'
<1> PICK x : x = bench[b]
  OBVIOUS
<1>1. /\ BenchSound(x) /\ x \in Bench /\ Taking(x) /\ ~x.warming /\ At(b, Active)
      /\ x.phase \in {"waiting", "yielding", "joining"}
  BY DEF GatewayInv, BenchSound, Get, Sent, Join, At, InGroup, Active
<1>2. Cardinality(x.done) \in 0 .. Total
  BY <1>1, AllDone
<1>3. CASE Get(b)
  <2> PICK y : y = [x EXCEPT !.phase = "yielding", !.got = @ + 1]
    OBVIOUS
  <2>1. x.got + 1 \in 0 .. Total /\ x.got + 1 <= Cardinality(x.done)
    BY <1>1, <1>2, <1>3, LabAssumption DEF Bench, Get
  <2>2. y \in Bench
    BY <1>1, <2>1 DEF Bench, Active, InGroup
  <2>3. /\ y.phase = "yielding" /\ y.work = x.work /\ y.warming = x.warming
        /\ y.next = x.next /\ y.done = x.done /\ y.got = x.got + 1
    BY <1>1 DEF Bench
  <2>4. Taking(y)
    BY <1>1, <2>1, <2>3 DEF Taking
  <2>5. ~y.warming /\ SameWarmup(b, y)
    BY <1>1, <2>3 DEF SameWarmup
  <2>6. BenchSound(y)
    BY <2>2, <2>3, <2>4, <2>5 DEF BenchSound, InGroup
  <2> QED
    BY <1>1, <1>3, <2>3, <2>5, <2>6, PhaseStep DEF Get
<1>4. CASE Sent(b)
  <2> PICK phase : phase = IF x.got = Total THEN "joining" ELSE "waiting"
    OBVIOUS
  <2> PICK y : y = [x EXCEPT !.phase = phase]
    OBVIOUS
  <2>1. y \in Bench
    BY <1>1 DEF Bench, Active, InGroup
  <2>2. /\ y.phase = phase /\ y.work = x.work /\ y.warming = x.warming
        /\ y.next = x.next /\ y.done = x.done /\ y.got = x.got
    BY <1>1 DEF Bench
  <2>3. Taking(y)
    BY <1>1, <2>2, StillTaking
  <2>4. ~y.warming /\ SameWarmup(b, y)
    BY <1>1, <2>2 DEF SameWarmup
  <2>5. BenchSound(y)
    BY <2>1, <2>2, <2>3, <2>4 DEF BenchSound, InGroup
  <2> QED
    BY <1>1, <1>4, <2>2, <2>4, <2>5, PhaseStep DEF Sent
<1>5. CASE Join(b)
  <2> PICK y : y = [x EXCEPT !.phase = "comparing"]
    OBVIOUS
  <2>1. y \in Bench
    BY <1>1 DEF Bench, Active, InGroup
  <2>2. /\ y.phase = "comparing" /\ y.work = x.work /\ y.warming = x.warming
        /\ y.next = x.next /\ y.done = x.done /\ y.got = x.got
    BY <1>1 DEF Bench
  <2>3. Taking(y)
    BY <1>1, <2>2, StillTaking
  <2>4. ~y.warming /\ SameWarmup(b, y)
    BY <1>1, <2>2 DEF SameWarmup
  <2>5. y.done = Indexes /\ \A w \in Workers : y.work[w] = Gone
    BY <1>1, <1>5, <2>2, AllDone DEF BenchSound, Join, AllEnded, At
  <2>6. BenchSound(y)
    BY <2>1, <2>2, <2>3, <2>4, <2>5 DEF BenchSound, InGroup
  <2> QED
    BY <1>1, <1>5, <2>2, <2>4, <2>6, PhaseStep DEF Join
<1> QED
  BY <1>3, <1>4, <1>5

\* The end of a mode, of an aborted group and of the client.
LEMMA ClosingKept ==
    ASSUME GatewayInv, NEW b \in Benches, Compare(b) \/ Close(b) \/ DisconnectBench(b)
    PROVE  GatewayInv'
<1> PICK x : x = bench[b]
  OBVIOUS
<1>1. /\ BenchSound(x) /\ x \in Bench /\ Taking(x) /\ At(b, Active) /\ x.phase # "idle"
      /\ x.phase # "warmup" => ~x.warming
  BY DEF GatewayInv, BenchSound, Compare, Close, DisconnectBench, At, InGroup, Active
<1>2. CASE Compare(b)
  <2>1. x.phase = "comparing" /\ ~x.warming
    BY <1>1, <1>2 DEF Compare, At
  <2>2. CASE bench[b].mode < Modes /\ Become(b, Fresh("warmup", x.mode + 1))
             /\ UNCHANGED <<busy, run, saved, faults>>
    <3>1. x.mode + 1 \in 0 .. Modes
      BY <1>1, <2>2, LabAssumption DEF Bench
    <3>2. BusyMoves(b, Fresh("warmup", x.mode + 1))
      BY <1>1, <2>2 DEF BusyMoves
    <3> QED
      BY <1>2, <2>1, <2>2, <3>1, <3>2, FreshStep, OthersLeft DEF Compare, InGroup, Outside
  <2>3. CASE Over(b, "ok")
    BY <1>1, <1>2, <2>1, <2>3, OverStep DEF Compare, InGroup
  <2> QED
    BY <1>2, <2>2, <2>3 DEF Compare
<1>3. CASE Close(b)
  <2>1. x.phase = "closing" /\ ~x.warming /\ x.fate \in {"cancelled", "error", "running"}
    BY <1>1, <1>3 DEF Close, At, BenchSound, Bench
  <2>2. Works(x) = {}
    BY <1>3, LabAssumption DEF Close, AllEnded, Works, Indexes, Gone
  <2> QED
    BY <1>1, <1>3, <2>1, <2>2, OverStep DEF Close
<1>4. CASE DisconnectBench(b)
  <2>1. CASE At(b, {"accepted"}) /\ Become(b, [x EXCEPT !.phase = "dropped"])
             /\ UNCHANGED <<inflight, busy, run, saved, faults>>
    <3> PICK y : y = [x EXCEPT !.phase = "dropped"]
      OBVIOUS
    <3>1. y \in Bench
      BY <1>1 DEF Bench, Active, InGroup
    <3>2. /\ y.phase = "dropped" /\ y.work = x.work /\ y.warming = x.warming
          /\ y.next = x.next /\ y.done = x.done /\ y.got = x.got
      BY <1>1 DEF Bench
    <3>3. Taking(y)
      BY <1>1, <3>2, StillTaking
    <3>4. ~y.warming /\ SameWarmup(b, y)
      BY <1>1, <2>1, <3>2 DEF SameWarmup, At
    <3>5. BenchSound(y)
      BY <1>1, <2>1, <3>1, <3>2, <3>3, <3>4 DEF BenchSound, InGroup, Untouched, At
    <3> QED
      BY <1>1, <2>1, <3>2, <3>4, <3>5, PhaseStep
  <2>2. CASE /\ At(b, {"warmup", "comparing"})
             /\ inflight' = IF bench[b].warming THEN inflight - 1 ELSE inflight
             /\ Over(b, "cancelled")
    BY <1>1, <2>2, OverStep DEF At, InGroup
  <2>3. CASE /\ At(b, {"waiting", "yielding", "joining"})
             /\ Become(b, Aborted(b, bench[b], "cancelled"))
             /\ UNCHANGED <<inflight, busy, run, saved, faults>>
    <3> PICK fate : fate = IF At(b, {"yielding"}) THEN "running" ELSE "cancelled"
      OBVIOUS
    <3> PICK y : y = [x EXCEPT !.phase = "closing", !.fate = fate]
      OBVIOUS
    <3>1. y = Aborted(b, bench[b], "cancelled")
      BY <2>3 DEF Aborted, At
    <3>2. y \in Bench
      BY <1>1 DEF Bench, Active, InGroup
    <3>3. /\ y.phase = "closing" /\ y.work = x.work /\ y.warming = x.warming
          /\ y.next = x.next /\ y.done = x.done /\ y.got = x.got /\ y.fate = fate
      BY <1>1 DEF Bench
    <3>4. Taking(y)
      BY <1>1, <3>3, StillTaking, ZenonT(40)
    <3>5. ~y.warming /\ SameWarmup(b, y)
      BY <1>1, <2>3, <3>3 DEF SameWarmup, At
    <3>6. BenchSound(y)
      BY <3>2, <3>3, <3>4, <3>5 DEF BenchSound, InGroup
    <3> QED
      BY <1>1, <2>3, <3>1, <3>3, <3>5, <3>6, PhaseStep
  <2> QED
    BY <1>4, <2>1, <2>2, <2>3 DEF DisconnectBench
<1> QED
  BY <1>2, <1>3, <1>4

\* A run begins or ends.
LEMMA RunKept ==
    ASSUME GatewayInv, NEW r \in Runs, RunStep(r)
    PROVE  GatewayInv'
<1>1. /\ TypeOK /\ InflightIs /\ Alone
      /\ \A c \in Benches : BenchSound(bench[c])
  BY InflightSum DEF GatewayInv
<1>2. UNCHANGED <<busy, bench, saved, faults>>
  BY DEF RunStep, Accept, AcceptAndBegin, Begin, Leave, Orphan, End
<1>3. InWarmup' = InWarmup /\ InWork' = InWork
  BY <1>2 DEF InWarmup, InWork, Working
<1>4. run' \in [Runs -> RunPhases] /\ \A q \in Runs \ {r} : run'[q] = run[q]
  BY <1>1 DEF RunStep, Accept, AcceptAndBegin, Begin, Leave, Orphan, End, TypeOK, RunPhases
<1>5. \/ inflight' = inflight /\ InRun' = InRun
      \/ inflight' = inflight + 1 /\ r \notin InRun /\ InRun' = InRun \cup {r}
      \/ inflight' = inflight - 1 /\ r \in InRun /\ InRun' = InRun \ {r}
  <2>1. CASE Accept(r) \/ Leave(r) \/ Orphan(r)
    BY <2>1, <1>1 DEF Accept, Leave, Orphan, InRun, TypeOK
  <2>2. CASE AcceptAndBegin(r) \/ Begin(r)
    BY <2>2, <1>1 DEF AcceptAndBegin, Begin, InRun, TypeOK
  <2>3. CASE End(r)
    BY <2>3, <1>1 DEF End, InRun, TypeOK
  <2> QED
    BY <2>1, <2>2, <2>3 DEF RunStep
<1>6. inflight' \in Nat /\ InflightIs'
  <2> DEFINE n == Cardinality(InRun)
             n1 == Cardinality(InRun')
             m == Cardinality(InWarmup)
             k == Cardinality(InWork)
  <2>1. n \in Nat /\ m \in Nat /\ k \in Nat /\ inflight = n + m + k
    BY <1>1, Countable DEF InflightIs
  <2>2. \/ inflight' = inflight /\ n1 = n
        \/ inflight' = inflight + 1 /\ n1 = n + 1
        \/ inflight' = inflight - 1 /\ n1 = n - 1 /\ n > 0
    BY <1>5, Countable, OneMore, OneLess
  <2> HIDE DEF n, n1, m, k
  <2>3. inflight' \in Nat /\ inflight' = n1 + m + k
    BY <2>1, <2>2
  <2> QED
    BY <2>3, <1>3 DEF n1, m, k, InflightIs
<1> QED
  BY <1>1, <1>2, <1>4, <1>6
     DEF GatewayInv, TypeOK, InflightExact, InflightIs, InRun, InWarmup, InWork, Working,
         Alone, OneBenchmark, At

-----------------------------------------------------------------------------
LEMMA GatewayInit == Init => GatewayInv
<1> SUFFICES ASSUME Init
             PROVE  GatewayInv
  OBVIOUS
<1>1. \A b \in Benches : BenchSound(bench[b]) /\ bench[b].phase = "idle"
  BY FreshSound, LabAssumption DEF Init, Outside
<1>2. TypeOK
  <2>1. bench \in [Benches -> Bench]
    BY <1>1 DEF Init, BenchSound
  <2>2. inflight \in Nat /\ busy \in BOOLEAN /\ run \in [Runs -> RunPhases]
    BY DEF Init, RunPhases
  <2>3. saved \in [Benches -> {"none", "ok", "cancelled", "error", "running"}] /\ faults \in 0 .. Faults
    BY LabAssumption DEF Init
  <2> QED
    BY <2>1, <2>2, <2>3 DEF TypeOK
<1>3. Alone
  BY <1>1 DEF Alone, OneBenchmark, At, Active, InGroup
<1>4. InflightIs
  <2>1. InRun = {}
    BY DEF Init, InRun
  <2>2. InWarmup = {}
    <3>1. \A b \in Benches : ~bench[b].warming
      BY <1>1 DEF BenchSound
    <3> QED
      BY <3>1, Zenon DEF InWarmup
  <2>3. InWork = {}
    BY LabAssumption DEF Init, InWork, Working, Fresh, Ready, Indexes
  <2> QED
    BY <2>1, <2>2, <2>3, FS_EmptySet DEF Init, InflightIs
<1> QED
  BY <1>1, <1>2, <1>3, <1>4, InflightSum DEF GatewayInv

LEMMA GatewayNext == GatewayInv /\ [Next]_vars => GatewayInv'
<1> SUFFICES ASSUME GatewayInv, [Next]_vars
             PROVE  GatewayInv'
  OBVIOUS
<1>1. ASSUME NEW r \in Runs, RunStep(r)
      PROVE  GatewayInv'
  BY <1>1, RunKept
<1>2. ASSUME NEW b \in Benches, AcceptBench(b) \/ Progress(b) \/ Send(b) \/ DisconnectBench(b)
      PROVE  GatewayInv'
  <2>1. CASE AcceptBench(b) \/ BeginBench(b)
    BY <2>1, BeginsKept
  <2>2. CASE StartWarmup(b) \/ EndWarmup(b) \/ FailWarmup(b) \/ OpenGroup(b)
    BY <2>2, WarmupKept
  <2>3. ASSUME NEW w \in Workers, StartWorker(b, w) \/ Put(b, w)
        PROVE  GatewayInv'
    BY <2>3, TakingKept
  <2>4. ASSUME NEW w \in Workers, FailWorker(b, w) \/ CancelWorker(b, w)
        PROVE  GatewayInv'
    BY <2>4, EndingKept
  <2>5. CASE Get(b) \/ Sent(b) \/ Join(b)
    BY <2>5, LoopKept
  <2>6. CASE Compare(b) \/ Close(b) \/ DisconnectBench(b)
    BY <2>6, ClosingKept
  <2> QED
    BY <1>2, <2>1, <2>2, <2>3, <2>4, <2>5, <2>6 DEF Progress, Send
<1>3. CASE UNCHANGED vars
  BY <1>3 DEF vars, GatewayInv, TypeOK, InflightExact, Working, Alone, OneBenchmark, At
<1> QED
  BY <1>1, <1>2, <1>3 DEF Next

\* The types, the count and the working benchmarks keep their invariant in every state of
\* the gateway.
THEOREM GatewayInvKept == Spec => []GatewayInv
<1> QED
  BY GatewayInit, GatewayNext, PTL DEF Spec

\* For any number of clients, benchmarks, workers and requests inflight is the number of
\* requests that run, through disconnects, aborted groups and saves that raise.
THEOREM InflightKept == Spec => []InflightExact
<1>1. GatewayInv => InflightExact
  BY DEF GatewayInv
<1> QED
  BY <1>1, GatewayInvKept, PTL

\* One benchmark at a time, each index of a mode run once, and a mode is over when all
\* its indexes are done.
THEOREM BenchmarksKept == Spec => []BenchmarksSound
<1>1. GatewayInv => BenchmarksSound
  <2> SUFFICES ASSUME GatewayInv
               PROVE  BenchmarksSound
    OBVIOUS
  <2>1. ASSUME NEW b \in Benches
        PROVE  /\ \A v, w \in Workers : Working(b, w) =>
                     /\ bench[b].work[w] \notin bench[b].done
                     /\ bench[b].work[v] = bench[b].work[w] => v = w
               /\ At(b, {"joining", "comparing"}) => bench[b].done = Indexes
    <3>1. BenchSound(bench[b])
      BY DEF GatewayInv
    <3>2. Taking(bench[b])
      BY <3>1 DEF BenchSound
    <3>3. At(b, {"joining", "comparing"}) => bench[b].done = Indexes
      BY <3>1, AllDone DEF BenchSound, At
    <3> QED
      BY <3>2, <3>3 DEF Taking, Working
  <2> QED
    BY <2>1 DEF GatewayInv, Alone, BenchmarksSound, EachIndexOnce
<1> QED
  BY <1>1, GatewayInvKept, PTL

-----------------------------------------------------------------------------
(***************************************************************************)
(* An inference.  Until its record is final a client has only been told    *)
(* the start and the tokens; what follows is what its record calls for,    *)
(* in this order, as far as it was sent.                                   *)
(***************************************************************************)
Underway == Chatting({"idle", "opening", "reading", "sending"})

Body == {"start", "token"}

\* The first n frames are of the body, the others begin what closes the answer.
SpokenFrom(n) ==
    /\ \A i \in 1 .. n : frames[i] \in Body
    /\ Len(frames) > n \/ Chatting({"ending"}) => kept # Unknown
    /\ Len(frames) - n + Len(chat.owed) <= Len(Closing(chat.status))
    /\ \A i \in 1 .. Len(frames) - n : frames[n + i] = Closing(chat.status)[i]
    /\ Chatting({"ending"}) =>
          /\ chat.owed # <<>>
          /\ \A j \in 1 .. Len(chat.owed) :
                chat.owed[j] = Closing(chat.status)[Len(frames) - n + j]

Spoken == \E n \in 0 .. Len(frames) : SpokenFrom(n)

\* What was heard was passed on, but for the token that is being sent.
PassedOn ==
    /\ Chatting({"idle"}) => frames = <<>>
    /\ Chatting({"idle", "opening"}) => chat.pieces = 0 /\ TokensTold = {}
    /\ Chatting({"reading"}) /\ chat.form # "unary" => Cardinality(TokensTold) = chat.pieces
    /\ Chatting({"sending"}) => chat.form # "unary" /\ Cardinality(TokensTold) + 1 = chat.pieces

\* The record that was kept is the one the answer ended with.
KeptTrue ==
    kept # Unknown =>
        /\ kept.status = chat.status
        /\ kept.status = "ok" =>
              /\ chat.saw_finish /\ chat.pieces > 0
              /\ chat.form # "unary" => Cardinality(TokensTold) = chat.pieces

ChatInv ==
    /\ ChatTypeOK
    /\ CountsSound(chat.tokens)
    /\ Underway => /\ kept = Unknown /\ chat.owed = <<>>
                   /\ \A i \in DOMAIN frames : frames[i] \in Body
    /\ ~Underway => chat.status \in Statuses /\ Spoken
    /\ PassedOn
    /\ KeptTrue

-----------------------------------------------------------------------------
\* A part that is taken within the whole, and the rest of it.
LEMMA PartSound ==
    ASSUME NEW part0 \in Count, NEW whole \in Count, NEW share, share = Within(part0, whole),
           NEW rest, rest = Remainder(whole, share)
    PROVE  /\ share \in Count /\ rest \in Count
           /\ rest \in Nat => Known(whole, share) /\ rest + share = whole
<1> USE ChatAssumption
<1>1. share \in Count /\ (share \in Nat /\ whole \in Nat => share <= whole)
  BY DEF Within, Known, Count
<1>2. CASE share \in Nat /\ whole \in Nat
  <2>1. rest = whole - share /\ share <= whole
    BY <1>1, <1>2 DEF Remainder, Known
  <2> QED
    BY <1>2, <2>1 DEF Known, Count
<1>3. CASE ~(share \in Nat /\ whole \in Nat)
  <2>1. rest = Unknown
    BY <1>3 DEF Remainder, Known
  <2> QED
    BY <1>1, <2>1 DEF Count
<1> QED
  BY <1>2, <1>3

LEMMA SumSound ==
    ASSUME NEW a \in Count, NEW b \in Count, NEW sum, sum = IF Known(a, b) THEN a + b ELSE Unknown
    PROVE  sum \in Count /\ (sum \in Nat => Known(a, b) /\ sum = a + b)
<1>1. CASE a \in Nat /\ b \in Nat
  <2>1. sum = a + b
    BY <1>1 DEF Known
  <2> QED
    BY <1>1, <2>1 DEF Known, Count
<1>2. CASE ~(a \in Nat /\ b \in Nat)
  <2>1. sum = Unknown
    BY <1>2 DEF Known
  <2> QED
    BY <2>1, ChatAssumption DEF Count
<1> QED
  BY <1>1, <1>2

\* No count of a report is made up: the parts are within the whole.
LEMMA NormalizedSound ==
    ASSUME NEW report \in Report
    PROVE  Normalized(report) \in Tokens /\ CountsSound(Normalized(report))
<1>1. \A v : Nonnegative(v) \in Count
  BY ChatAssumption DEF Nonnegative, Count
<1> DEFINE inputs    == Nonnegative(report.prompt)
           outputs   == Nonnegative(report.completion)
           cached    == Within(Nonnegative(report.cached), inputs)
           reasoning == Within(Nonnegative(report.reasoning), outputs)
           fresh     == Remainder(inputs, cached)
           visible   == Remainder(outputs, reasoning)
           total     == IF Known(inputs, outputs) THEN inputs + outputs ELSE Unknown
<1>2. inputs \in Count /\ outputs \in Count
  BY <1>1
<1>3. /\ cached \in Count /\ fresh \in Count
      /\ fresh \in Nat => Known(inputs, cached) /\ fresh + cached = inputs
  BY <1>1, <1>2, PartSound
<1>4. /\ reasoning \in Count /\ visible \in Count
      /\ visible \in Nat => Known(outputs, reasoning) /\ visible + reasoning = outputs
  BY <1>1, <1>2, PartSound
<1>5. total \in Count /\ (total \in Nat => Known(inputs, outputs) /\ total = inputs + outputs)
  BY <1>2, SumSound
<1>6. Normalized(report) =
      [input |-> inputs, output |-> outputs, cached_input |-> cached, uncached_input |-> fresh,
       reasoning |-> reasoning, visible_output |-> visible, total |-> total]
  BY DEF Normalized
<1> HIDE DEF inputs, outputs, cached, reasoning, fresh, visible, total
<1>7. Normalized(report) \in Tokens
  BY <1>2, <1>3, <1>4, <1>5, <1>6 DEF Tokens
<1>8. CountsSound(Normalized(report))
  BY <1>3, <1>4, <1>5, <1>6 DEF CountsSound
<1> QED
  BY <1>7, <1>8

\* What closes an answer: its outcome first, once, and [DONE] last.
LEMMA ClosingShape ==
    ASSUME ChatTypeOK, NEW status \in Statuses, NEW c, c = Closing(status)
    PROVE  /\ c \in Seq(Frames) /\ Len(c) > 0 /\ \A i \in 1 .. Len(c) : c[i] \notin Body
           /\ c[1] \notin {"done", "usage"} /\ (c[1] \in {"finish", "answer"} => status = "ok")
           /\ \A i \in 2 .. Len(c) : c[i] \in {"usage", "done"} /\ c[1] \in {"finish", "error"}
           /\ \A i \in 1 .. Len(c) - 1 : c[i] # "done"
<1>1. chat.form \in Forms
  BY DEF ChatTypeOK
<1>2. CASE chat.form # "stream"
  <2> PICK frame : /\ frame = IF chat.form = "run" THEN "result"
                              ELSE IF status = "ok" THEN "answer" ELSE "refused"
    OBVIOUS
  <2>1. c = <<frame>>
    <3>1. CASE chat.form = "run"
      BY <3>1 DEF Closing
    <3>2. CASE chat.form = "unary"
      BY <3>2 DEF Closing
    <3> QED
      BY <1>1, <1>2, <3>1, <3>2 DEF Forms
  <2>2. frame \in Frames \ Body /\ frame \notin {"done", "usage", "finish"} /\ (frame = "answer" => status = "ok")
    BY DEF Frames, Body
  <2>3. Len(c) = 1 /\ c[1] = frame /\ c \in Seq(Frames)
    BY <2>1, <2>2
  <2> QED
    BY <2>2, <2>3
<1>3. CASE chat.form = "stream" /\ (status # "ok" \/ ~chat.include_usage)
  <2> PICK frame : frame = IF status = "ok" THEN "finish" ELSE "error"
    OBVIOUS
  <2>1. c = <<frame, "done">>
    BY <1>3 DEF Closing
  <2>2. frame \in Frames \ Body /\ "done" \in Frames \ Body /\ frame \notin {"done", "usage"}
        /\ frame \in {"finish", "error"} /\ (frame \in {"finish", "answer"} => status = "ok")
    BY DEF Frames, Body
  <2>3. Len(c) = 2 /\ c[1] = frame /\ c[2] = "done" /\ c \in Seq(Frames)
    BY <2>1, <2>2
  <2> QED
    BY <2>2, <2>3
<1>4. CASE chat.form = "stream" /\ status = "ok" /\ chat.include_usage
  <2>1. c = <<"finish", "usage", "done">>
    BY <1>4 DEF Closing
  <2>2. "finish" \in Frames \ Body /\ "usage" \in Frames \ Body /\ "done" \in Frames \ Body
    BY DEF Frames, Body
  <2>3. Len(c) = 3 /\ c[1] = "finish" /\ c[2] = "usage" /\ c[3] = "done" /\ c \in Seq(Frames)
    BY <2>1, <2>2
  <2>4. \A i \in 1 .. 3 : c[i] \notin Body /\ (i = 1 \/ c[i] \in {"usage", "done"}) /\ (i = 3 \/ c[i] # "done")
    <3>1. \A i \in 1 .. 3 : i = 1 \/ i = 2 \/ i = 3
      OBVIOUS
    <3> QED
      BY <3>1, <2>2, <2>3
  <2> QED
    BY <1>4, <2>3, <2>4, SMTT(20)
<1> QED
  BY <1>1, <1>2, <1>3, <1>4 DEF Forms

LEMMA ToldCountable ==
    ASSUME ChatTypeOK
    PROVE  IsFiniteSet(TokensTold) /\ Cardinality(TokensTold) \in Nat
<1>1. TokensTold \subseteq 1 .. Len(frames) /\ Len(frames) \in Nat
  BY DEF TokensTold, ChatTypeOK
<1>2. IsFiniteSet(1 .. Len(frames))
  BY <1>1, FS_Interval
<1> QED
  BY <1>1, <1>2, FS_Subset, FS_CardinalityType

\* A frame that is sent.
LEMMA FrameSent ==
    ASSUME ChatTypeOK, NEW frame \in Frames, frames' = Append(frames, frame)
    PROVE  /\ frames' \in Seq(Frames) /\ Len(frames') = Len(frames) + 1
           /\ \A i \in 1 .. Len(frames) : frames'[i] = frames[i]
           /\ frames'[Len(frames) + 1] = frame
           /\ frame # "token" => TokensTold' = TokensTold
           /\ frame = "token" => Cardinality(TokensTold)' = Cardinality(TokensTold) + 1
<1>1. frames \in Seq(Frames) /\ Len(frames) \in Nat
  BY DEF ChatTypeOK
<1>2. /\ frames' \in Seq(Frames) /\ Len(frames') = Len(frames) + 1
      /\ \A i \in 1 .. Len(frames) : frames'[i] = frames[i]
      /\ frames'[Len(frames) + 1] = frame
      /\ DOMAIN frames = 1 .. Len(frames) /\ DOMAIN frames' = 1 .. Len(frames) + 1
  BY <1>1
<1>3. frame # "token" => TokensTold' = TokensTold
  BY <1>1, <1>2 DEF TokensTold
<1>4. ASSUME frame = "token"
      PROVE  Cardinality(TokensTold)' = Cardinality(TokensTold) + 1
  <2>1. TokensTold' = TokensTold \cup {Len(frames) + 1} /\ Len(frames) + 1 \notin TokensTold
    BY <1>1, <1>2, <1>4 DEF TokensTold
  <2> QED
    BY <2>1, ToldCountable, OneMore
<1> QED
  BY <1>2, <1>3, <1>4

-----------------------------------------------------------------------------
\* What a step leaves of the request, and so of what closes its answer.
SameRequest == chat'.form = chat.form /\ (chat'.include_usage <=> chat.include_usage)

LEMMA ClosingStays ==
    ASSUME SameRequest
    PROVE  \A status \in Statuses : Closing(status)' = Closing(status)
<1> SUFFICES ASSUME NEW status \in Statuses
             PROVE  Closing(status)' = Closing(status)
  OBVIOUS
<1>1. CASE chat.form = "run"
  BY <1>1 DEF Closing, SameRequest
<1>2. CASE chat.form = "unary"
  BY <1>2 DEF Closing, SameRequest
<1>3. CASE chat.form \notin {"run", "unary"}
  <2>1. chat'.form \notin {"run", "unary"}
    BY <1>3 DEF SameRequest
  <2>2. Closing(status) = IF status # "ok" THEN <<"error", "done">>
                          ELSE IF chat.include_usage THEN <<"finish", "usage", "done">>
                          ELSE <<"finish", "done">>
    BY <1>3 DEF Closing
  <2>3. Closing(status)' = IF status # "ok" THEN <<"error", "done">>
                           ELSE IF chat'.include_usage THEN <<"finish", "usage", "done">>
                           ELSE <<"finish", "done">>
    BY <2>1 DEF Closing
  <2> QED
    BY <2>2, <2>3 DEF SameRequest
<1> QED
  BY <1>1, <1>2, <1>3

\* A step on the way to the end of the answer.
LEMMA HearingKept ==
    ASSUME ChatInv,
           BeginChat \/ Connected \/ HearUsage \/ HearFinish \/ HearContent \/ TokenSent
    PROVE  ChatInv'
<1> USE DEF Chatting
<1>1. /\ ChatTypeOK /\ kept = Unknown /\ chat.owed = <<>> /\ kept' = kept
      /\ chat.phase \in {"idle", "opening", "reading", "sending"}
      /\ \A i \in DOMAIN frames : frames[i] \in Body
  BY DEF ChatInv, Underway, BeginChat, Connected, HearUsage, HearFinish, HearContent, TokenSent
<1>2. CountsSound(chat.tokens) /\ PassedOn /\ Cardinality(TokensTold) \in Nat
  BY ToldCountable DEF ChatInv
<1>3. SUFFICES /\ ChatTypeOK' /\ CountsSound(chat'.tokens) /\ chat'.owed = <<>>
               /\ chat'.phase \in {"idle", "opening", "reading", "sending"}
               /\ \A i \in DOMAIN frames' : frames'[i] \in Body
               /\ PassedOn'
  BY <1>1 DEF ChatInv, Underway, KeptTrue, CountsSound
<1>4. CASE BeginChat
  <2>1. chat' = [chat EXCEPT !.phase = "opening"] /\ chat.phase = "idle"
    BY <1>4 DEF BeginChat
  <2>2. ChatTypeOK'
    <3>1. frames' \in Seq(Frames)
      <4> PICK frame : frame = "start"
        OBVIOUS
      <4>1. frame \in Frames /\ (frames' = <<frame>> \/ frames' = <<>>)
        BY <1>4 DEF BeginChat, Frames
      <4>2. <<frame>> \in Seq(Frames)
        BY <4>1
      <4>3. <<>> \in Seq(Frames)
        OBVIOUS
      <4> QED
        BY <4>1, <4>2, <4>3
    <3> QED
      BY <1>1, <2>1, <3>1 DEF ChatTypeOK
  <2>3. /\ chat'.phase = "opening" /\ chat'.owed = chat.owed /\ chat'.tokens = chat.tokens
        /\ chat'.pieces = chat.pieces
    BY <1>1, <2>1 DEF ChatTypeOK
  <2>4. frames' = <<"start">> \/ frames' = <<>>
    BY <1>4 DEF BeginChat
  <2>5. \A i \in DOMAIN frames' : frames'[i] = "start"
    BY <2>4
  <2>6. TokensTold' = {}
    BY <2>5 DEF TokensTold
  <2>7. PassedOn'
    BY <1>2, <2>1, <2>3, <2>6 DEF PassedOn
  <2> QED
    BY <1>1, <1>2, <2>2, <2>3, <2>5, <2>7 DEF Body
<1>5. CASE Connected
  <2>1. chat' = [chat EXCEPT !.phase = "reading"] /\ chat.phase = "opening" /\ frames' = frames
    BY <1>5 DEF Connected
  <2>2. ChatTypeOK'
    BY <1>1, <2>1 DEF ChatTypeOK
  <2>3. /\ chat'.phase = "reading" /\ chat'.owed = chat.owed /\ chat'.tokens = chat.tokens
        /\ chat'.pieces = chat.pieces
    BY <1>1, <2>1 DEF ChatTypeOK
  <2>4. TokensTold' = TokensTold
    BY <2>1 DEF TokensTold
  <2>5. PassedOn'
    BY <1>2, <2>1, <2>3, <2>4, FS_EmptySet DEF PassedOn
  <2> QED
    BY <1>1, <1>2, <2>1, <2>2, <2>3, <2>5
<1>6. CASE HearUsage
  <2> PICK report \in Report : chat' = [chat EXCEPT !.tokens = Normalized(report)]
    BY <1>6 DEF HearUsage
  <2> PICK tokens : tokens = Normalized(report)
    OBVIOUS
  <2>1. tokens \in Tokens /\ CountsSound(tokens)
    BY NormalizedSound
  <2>2. chat' = [chat EXCEPT !.tokens = tokens] /\ frames' = frames
    BY <1>6 DEF HearUsage
  <2>3. ChatTypeOK'
    BY <1>1, <2>1, <2>2 DEF ChatTypeOK
  <2>4. /\ chat'.phase = chat.phase /\ chat'.owed = chat.owed /\ chat'.tokens = tokens
        /\ chat'.pieces = chat.pieces /\ chat'.form = chat.form
    BY <1>1, <2>2 DEF ChatTypeOK
  <2>5. PassedOn'
    BY <1>2, <2>2, <2>4 DEF PassedOn, TokensTold
  <2> QED
    BY <1>1, <2>1, <2>2, <2>3, <2>4, <2>5
<1>7. CASE HearFinish
  <2> PICK flag : flag = TRUE
    OBVIOUS
  <2>1. chat' = [chat EXCEPT !.saw_finish = flag] /\ flag \in BOOLEAN /\ frames' = frames
    BY <1>7 DEF HearFinish
  <2>2. ChatTypeOK'
    BY <1>1, <2>1 DEF ChatTypeOK
  <2>3. /\ chat'.phase = chat.phase /\ chat'.owed = chat.owed /\ chat'.tokens = chat.tokens
        /\ chat'.pieces = chat.pieces /\ chat'.form = chat.form
    BY <1>1, <2>1 DEF ChatTypeOK
  <2>4. PassedOn'
    BY <1>2, <2>1, <2>3 DEF PassedOn, TokensTold
  <2> QED
    BY <1>1, <1>2, <2>1, <2>2, <2>3, <2>4
<1>8. CASE HearContent
  <2> PICK phase : phase = IF chat.form = "unary" THEN "reading" ELSE "sending"
    OBVIOUS
  <2>1. /\ chat' = [chat EXCEPT !.pieces = @ + 1, !.phase = phase] /\ frames' = frames
        /\ chat.phase = "reading" /\ chat.pieces < MaxPieces
    BY <1>8 DEF HearContent
  <2>2. chat.pieces + 1 \in 0 .. MaxPieces /\ chat.pieces \in Nat
    BY <1>1, <2>1, ChatAssumption DEF ChatTypeOK
  <2>3. ChatTypeOK'
    BY <1>1, <2>1, <2>2 DEF ChatTypeOK
  <2>4. /\ chat'.phase = phase /\ chat'.owed = chat.owed /\ chat'.tokens = chat.tokens
        /\ chat'.pieces = chat.pieces + 1 /\ chat'.form = chat.form
    BY <1>1, <2>1 DEF ChatTypeOK
  <2>5. PassedOn'
    BY <1>2, <2>1, <2>2, <2>4 DEF PassedOn, TokensTold
  <2> QED
    BY <1>1, <1>2, <2>1, <2>3, <2>4, <2>5
<1>9. CASE TokenSent
  <2>1. chat' = [chat EXCEPT !.phase = "reading"] /\ chat.phase = "sending" /\ frames' = Append(frames, "token")
    BY <1>9 DEF TokenSent
  <2>2. /\ frames' \in Seq(Frames) /\ Len(frames') = Len(frames) + 1
        /\ \A i \in 1 .. Len(frames) : frames'[i] = frames[i]
        /\ frames'[Len(frames) + 1] = "token"
        /\ Cardinality(TokensTold)' = Cardinality(TokensTold) + 1
    BY <1>1, <2>1, FrameSent DEF Frames
  <2>3. ChatTypeOK'
    BY <1>1, <2>1, <2>2 DEF ChatTypeOK
  <2>4. /\ chat'.phase = "reading" /\ chat'.owed = chat.owed /\ chat'.tokens = chat.tokens
        /\ chat'.pieces = chat.pieces /\ chat'.form = chat.form
    BY <1>1, <2>1 DEF ChatTypeOK
  <2>5. PassedOn'
    BY <1>2, <2>1, <2>2, <2>4 DEF PassedOn
  <2>6. \A i \in DOMAIN frames' : frames'[i] \in Body
    BY <1>1, <2>2 DEF ChatTypeOK, Body
  <2> QED
    BY <1>1, <1>2, <2>3, <2>4, <2>5, <2>6
<1> QED
  BY <1>4, <1>5, <1>6, <1>7, <1>8, <1>9

\* The record becomes final, and is kept or not.
LEMMA FinallyKept ==
    ASSUME ChatInv, Underway, NEW status \in Statuses, NEW owed,
           owed = Closing(status) \/ owed = <<>>, Finally(status, owed), frames' = frames,
           status = "ok" => Chatting({"reading"}) /\ chat.saw_finish /\ chat.pieces > 0
    PROVE  ChatInv'
<1>1. /\ ChatTypeOK /\ kept = Unknown /\ chat.owed = <<>> /\ CountsSound(chat.tokens) /\ PassedOn
      /\ \A i \in DOMAIN frames : frames[i] \in Body
  BY DEF ChatInv
<1>2. /\ owed \in Seq(Frames) /\ Len(owed) <= Len(Closing(status)) /\ Len(owed) \in Nat
      /\ Len(Closing(status)) \in Nat
      /\ owed # <<>> => owed = Closing(status)
  <2> PICK c : c = Closing(status)
    OBVIOUS
  <2>1. c \in Seq(Frames) /\ Len(c) \in Nat
    <3>1. c \in Seq(Frames)
      BY <1>1, ClosingShape
    <3> QED
      BY <3>1
  <2> PICK none : none = <<>>
    OBVIOUS
  <2>2. none \in Seq(Frames) /\ Len(none) = 0
    OBVIOUS
  <2>3. CASE owed = c
    BY <2>1, <2>3
  <2>4. CASE owed = none
    BY <2>1, <2>2, <2>4
  <2> QED
    BY <2>3, <2>4
<1>3. /\ ChatTypeOK' /\ SameRequest /\ chat'.status = status /\ chat'.tokens = chat.tokens
      /\ chat'.pieces = chat.pieces /\ (chat'.saw_finish <=> chat.saw_finish)
      /\ \/ kept' \in Record /\ kept'.status = status /\ chat'.owed = owed
            /\ chat'.phase = IF owed = <<>> THEN "over" ELSE "ending"
         \/ kept' = kept /\ chat'.owed = <<>> /\ chat'.phase = "over"
  <2>1. CASE /\ kept' = [status |-> status, tokens |-> chat.tokens]
             /\ chat' = [chat EXCEPT !.status = status, !.owed = owed,
                                     !.phase = IF owed = <<>> THEN "over" ELSE "ending"]
    <3> PICK phase : phase = IF owed = <<>> THEN "over" ELSE "ending"
      OBVIOUS
    <3>1. chat' = [chat EXCEPT !.status = status, !.owed = owed, !.phase = phase]
      BY <2>1
    <3>2. kept' \in Record /\ kept'.status = status
      BY <1>1, <2>1 DEF Record, ChatTypeOK
    <3>3. chat' \in [form : Forms, include_usage : BOOLEAN,
                     phase : {"idle", "opening", "reading", "sending", "ending", "over"},
                     pieces : 0 .. MaxPieces, saw_finish : BOOLEAN, tokens : Tokens,
                     status : Statuses \cup {"running"}, owed : Seq(Frames)]
      BY <1>1, <1>2, <3>1 DEF ChatTypeOK
    <3>4. /\ chat'.status = status /\ chat'.tokens = chat.tokens /\ chat'.owed = owed
          /\ chat'.pieces = chat.pieces /\ chat'.saw_finish = chat.saw_finish
          /\ chat'.form = chat.form /\ chat'.include_usage = chat.include_usage
          /\ chat'.phase = phase
      BY <1>1, <3>1 DEF ChatTypeOK
    <3> QED
      BY <1>1, <3>2, <3>3, <3>4 DEF ChatTypeOK, SameRequest
  <2>2. CASE chat' = [chat EXCEPT !.status = status, !.phase = "over"] /\ kept' = kept
    <3>1. chat' \in [form : Forms, include_usage : BOOLEAN,
                     phase : {"idle", "opening", "reading", "sending", "ending", "over"},
                     pieces : 0 .. MaxPieces, saw_finish : BOOLEAN, tokens : Tokens,
                     status : Statuses \cup {"running"}, owed : Seq(Frames)]
      BY <1>1, <2>2 DEF ChatTypeOK
    <3>2. /\ chat'.status = status /\ chat'.tokens = chat.tokens /\ chat'.owed = chat.owed
          /\ chat'.pieces = chat.pieces /\ chat'.saw_finish = chat.saw_finish
          /\ chat'.form = chat.form /\ chat'.include_usage = chat.include_usage
          /\ chat'.phase = "over"
      BY <1>1, <2>2 DEF ChatTypeOK
    <3> QED
      BY <1>1, <2>2, <3>1, <3>2 DEF ChatTypeOK, SameRequest
  <2> QED
    BY <2>1, <2>2 DEF Finally
<1>4. Closing(status)' = Closing(status)
  BY <1>3, ClosingStays
<1>5. TokensTold' = TokensTold
  BY DEF TokensTold
<1>6. ~Underway' /\ chat'.phase \in {"over", "ending"}
  BY <1>3 DEF Underway, Chatting
<1>7. Spoken'
  <2>1. SpokenFrom(Len(frames))'
    <3>1. \A i \in 1 .. Len(frames') : frames'[i] \in Body
      BY <1>1 DEF ChatTypeOK
    <3>2. Len(frames) \in Nat
      BY <1>1 DEF ChatTypeOK
    <3>3. chat'.phase = "ending" => kept' \in Record /\ chat'.owed = owed /\ owed # <<>>
      BY <1>3
    <3>4. Len(chat'.owed) <= Len(Closing(status)) /\ Len(chat'.owed) \in Nat
      BY <1>2, <1>3
    <3> QED
      BY <1>2, <1>3, <1>4, <3>1, <3>2, <3>3, <3>4, RecordAssumption DEF SpokenFrom, Chatting
  <2>2. Len(frames) \in 0 .. Len(frames')
    BY <1>1 DEF ChatTypeOK
  <2> QED
    BY <2>1, <2>2 DEF Spoken
<1>8. PassedOn'
  BY <1>6 DEF PassedOn, Chatting
<1>9. KeptTrue'
  BY <1>1, <1>3, <1>5, RecordAssumption DEF KeptTrue, PassedOn, Chatting, SameRequest
<1> QED
  BY <1>1, <1>3, <1>6, <1>7, <1>8, <1>9 DEF ChatInv, CountsSound

LEMMA EndsKept ==
    ASSUME ChatInv, UpstreamEnds \/ UpstreamFails \/ CutWhileSending \/ CutWhileWaiting
    PROVE  ChatInv'
<1>1. CASE UpstreamEnds
  <2> PICK status : /\ status = IF chat.saw_finish /\ chat.pieces > 0 THEN "ok" ELSE "error"
                    /\ Finally(status, Closing(status))
    BY <1>1 DEF UpstreamEnds
  <2>1. status \in Statuses /\ (status = "ok" => chat.saw_finish /\ chat.pieces > 0)
    BY DEF Statuses
  <2>2. Underway /\ Chatting({"reading"}) /\ frames' = frames
    BY <1>1 DEF UpstreamEnds, Underway, Chatting
  <2> QED
    BY <2>1, <2>2, FinallyKept
<1>2. CASE UpstreamFails
  <2>1. "error" \in Statuses /\ Underway /\ frames' = frames /\ Finally("error", Closing("error"))
    BY <1>2 DEF UpstreamFails, Underway, Chatting, Statuses
  <2> QED
    BY <2>1, FinallyKept
<1>3. CASE CutWhileSending \/ CutWhileWaiting
  <2>1. "cancelled" \in Statuses /\ Underway /\ frames' = frames /\ Finally("cancelled", <<>>)
    BY <1>3 DEF CutWhileSending, CutWhileWaiting, Underway, Chatting, Statuses
  <2> QED
    BY <2>1, FinallyKept
<1> QED
  BY <1>1, <1>2, <1>3

\* A frame moves from what is owed to what was sent.
LEMMA ShiftOne ==
    ASSUME NEW sent \in Int, NEW first \in Int, NEW left \in Int, NEW all \in Int,
           sent - first + left <= all
    PROVE  (sent + 1) - first + (left - 1) <= all
OBVIOUS

\* The last frames are sent, or the client goes.
LEMMA EndingSaid ==
    ASSUME ChatInv, SendOwed \/ CutWhileEnding
    PROVE  ChatInv'
<1>1. /\ ChatTypeOK /\ chat.phase = "ending" /\ CountsSound(chat.tokens) /\ kept' = kept /\ KeptTrue
      /\ chat.status \in Statuses /\ Spoken
  BY DEF ChatInv, SendOwed, CutWhileEnding, Chatting, Underway
<1> PICK n \in 0 .. Len(frames) : SpokenFrom(n)
  BY <1>1 DEF Spoken
<1> PICK c : c = Closing(chat.status)
  OBVIOUS
<1>2. /\ c \in Seq(Frames) /\ Len(c) \in Nat /\ \A i \in 1 .. Len(c) : c[i] \notin Body
  <2>1. c \in Seq(Frames) /\ \A i \in 1 .. Len(c) : c[i] \notin Body
    BY <1>1, ClosingShape
  <2> QED
    BY <2>1
<1>3. /\ \A i \in 1 .. n : frames[i] \in Body
      /\ kept # Unknown /\ chat.owed # <<>>
      /\ Len(frames) - n + Len(chat.owed) <= Len(c)
      /\ \A i \in 1 .. Len(frames) - n : frames[n + i] = c[i]
      /\ \A j \in 1 .. Len(chat.owed) : chat.owed[j] = c[Len(frames) - n + j]
  BY <1>1 DEF SpokenFrom, Chatting
<1>4. /\ frames \in Seq(Frames) /\ Len(frames) \in Nat
      /\ chat.owed \in Seq(Frames) /\ Len(chat.owed) \in Nat \ {0}
  BY <1>1, <1>3 DEF ChatTypeOK
<1>a. /\ Len(frames) \in Int /\ n \in Int /\ Len(chat.owed) \in Int /\ Len(c) \in Int
      /\ Len(frames) - n + Len(chat.owed) <= Len(c)
  BY <1>2, <1>3, <1>4
<1>5. SUFFICES /\ ChatTypeOK' /\ SameRequest /\ chat'.status = chat.status /\ chat'.tokens = chat.tokens
               /\ chat'.pieces = chat.pieces /\ (chat'.saw_finish <=> chat.saw_finish)
               /\ chat'.phase \in {"ending", "over"} /\ TokensTold' = TokensTold
               /\ Len(frames') >= n /\ (\A i \in 1 .. n : frames'[i] \in Body)
               /\ Len(frames') - n + Len(chat'.owed) <= Len(c)
               /\ (\A i \in 1 .. Len(frames') - n : frames'[n + i] = c[i])
               /\ chat'.phase = "ending" =>
                     /\ chat'.owed # <<>>
                     /\ \A j \in 1 .. Len(chat'.owed) : chat'.owed[j] = c[Len(frames') - n + j]
  <2>1. Closing(chat.status)' = c
    <3> PICK status : status = chat.status
      OBVIOUS
    <3>1. Closing(status)' = c
      BY <1>1, <1>5, ClosingStays
    <3>2. status = chat'.status
      BY <1>5
    <3> QED
      BY <3>1, <3>2 DEF Closing
  <2>2. SpokenFrom(n)'
    BY <1>1, <1>3, <1>5, <2>1 DEF SpokenFrom, Chatting
  <2>3. n \in 0 .. Len(frames')
    BY <1>4, <1>5 DEF ChatTypeOK
  <2>4. Spoken'
    BY <2>2, <2>3 DEF Spoken
  <2>5. KeptTrue'
    BY <1>1, <1>5 DEF KeptTrue, SameRequest
  <2>6. PassedOn' /\ ~Underway'
    BY <1>5 DEF PassedOn, Chatting, Underway
  <2> QED
    BY <1>1, <1>5, <2>4, <2>5, <2>6 DEF ChatInv, CountsSound
<1>6. CASE SendOwed
  <2> PICK phase : phase = IF Len(chat.owed) = 1 THEN "over" ELSE "ending"
    OBVIOUS
  <2>a. (Len(frames) + 1) - n + (Len(chat.owed) - 1) <= Len(c)
    BY <1>a, ShiftOne
  <2> PICK frame, rest : frame = Head(chat.owed) /\ rest = Tail(chat.owed)
    OBVIOUS
  <2>1. /\ frame = c[Len(frames) - n + 1] /\ frame \in Frames /\ rest \in Seq(Frames)
        /\ Len(rest) = Len(chat.owed) - 1
        /\ \A j \in 1 .. Len(rest) : rest[j] = c[Len(frames) - n + (j + 1)]
    BY <1>3, <1>4
  <2>2. chat' = [chat EXCEPT !.owed = rest, !.phase = phase] /\ frames' = Append(frames, frame)
    BY <1>6 DEF SendOwed
  <2>3. frame # "token"
    BY <1>2, <1>3, <1>4, <2>1 DEF Body
  <2>4. /\ frames' \in Seq(Frames) /\ Len(frames') = Len(frames) + 1
        /\ \A i \in 1 .. Len(frames) : frames'[i] = frames[i]
        /\ frames'[Len(frames) + 1] = frame /\ TokensTold' = TokensTold
    BY <1>1, <2>1, <2>2, <2>3, FrameSent
  <2>5. chat' \in [form : Forms, include_usage : BOOLEAN,
                   phase : {"idle", "opening", "reading", "sending", "ending", "over"},
                   pieces : 0 .. MaxPieces, saw_finish : BOOLEAN, tokens : Tokens,
                   status : Statuses \cup {"running"}, owed : Seq(Frames)]
    BY <1>1, <2>1, <2>2 DEF ChatTypeOK
  <2>6. /\ chat'.status = chat.status /\ chat'.tokens = chat.tokens /\ chat'.owed = rest
        /\ chat'.pieces = chat.pieces /\ chat'.saw_finish = chat.saw_finish
        /\ chat'.form = chat.form /\ chat'.include_usage = chat.include_usage
        /\ chat'.phase = phase
    BY <1>1, <2>2 DEF ChatTypeOK
  <2>7. /\ Len(frames') >= n /\ (\A i \in 1 .. n : frames'[i] \in Body)
        /\ Len(frames') - n + Len(rest) <= Len(c)
    <3>1. Len(frames') >= n
      BY <1>4, <2>4
    <3>2. \A i \in 1 .. n : i \in 1 .. Len(frames) /\ frames'[i] = frames[i]
      BY <1>4, <2>4
    <3>3. Len(rest) = Len(chat.owed) - 1 /\ Len(frames') = Len(frames) + 1
      BY <2>1, <2>4
    <3>4. Len(frames') - n + Len(rest) <= Len(c)
      BY <2>a, <3>3
    <3> QED
      BY <1>3, <3>1, <3>2, <3>4
  <2>8. \A i \in 1 .. Len(frames') - n : frames'[n + i] = c[i]
    <3> TAKE i \in 1 .. Len(frames') - n
    <3>1. CASE n + i <= Len(frames)
      BY <3>1, <1>3, <1>4, <2>4
    <3>2. CASE ~(n + i <= Len(frames))
      <4>1. n + i = Len(frames) + 1 /\ i = Len(frames) - n + 1
        BY <3>2, <1>4, <2>4
      <4> QED
        BY <4>1, <2>1, <2>4
    <3> QED
      BY <3>1, <3>2
  <2>9. phase = "ending" =>
           rest # <<>> /\ \A j \in 1 .. Len(rest) : rest[j] = c[Len(frames') - n + j]
    <3>1. \A j \in 1 .. Len(rest) : rest[j] = c[Len(frames') - n + j]
      <4>1. \A j \in 1 .. Len(rest) : Len(frames) - n + (j + 1) = Len(frames') - n + j
        BY <1>4, <2>1, <2>4
      <4> QED
        BY <2>1, <4>1
    <3>2. phase = "ending" => Len(chat.owed) # 1
      OBVIOUS
    <3>3. phase = "ending" => Len(rest) # 0
      BY <1>4, <2>1, <3>2
    <3> QED
      BY <2>1, <3>1, <3>3
  <2> QED
    BY <1>1, <2>4, <2>5, <2>6, <2>7, <2>8, <2>9 DEF ChatTypeOK, SameRequest
<1>7. CASE CutWhileEnding
  <2>1. chat' = [chat EXCEPT !.owed = <<>>, !.phase = "over"] /\ frames' = frames
    BY <1>7 DEF CutWhileEnding
  <2> PICK none : none = <<>>
    OBVIOUS
  <2> PICK over : over = "over"
    OBVIOUS
  <2>a. none \in Seq(Frames)
    OBVIOUS
  <2>b. chat' = [chat EXCEPT !.owed = none, !.phase = over]
    BY <2>1
  <2>2. chat' \in [form : Forms, include_usage : BOOLEAN,
                   phase : {"idle", "opening", "reading", "sending", "ending", "over"},
                   pieces : 0 .. MaxPieces, saw_finish : BOOLEAN, tokens : Tokens,
                   status : Statuses \cup {"running"}, owed : Seq(Frames)]
    BY <1>1, <2>a, <2>b DEF ChatTypeOK
  <2>3. /\ chat'.status = chat.status /\ chat'.tokens = chat.tokens /\ chat'.owed = <<>>
        /\ chat'.pieces = chat.pieces /\ chat'.saw_finish = chat.saw_finish
        /\ chat'.form = chat.form /\ chat'.include_usage = chat.include_usage
        /\ chat'.phase = "over"
    BY <1>1, <2>1 DEF ChatTypeOK
  <2>4. TokensTold' = TokensTold
    BY <2>1 DEF TokensTold
  <2>5. Len(frames) - n + Len(chat'.owed) <= Len(c)
    BY <1>2, <1>3, <1>4, <2>3
  <2> QED
    BY <1>1, <1>3, <1>4, <2>1, <2>2, <2>3, <2>4, <2>5 DEF ChatTypeOK, SameRequest
<1> QED
  BY <1>6, <1>7

\* The verdicts a client may draw follow from the order of what it was told.
LEMMA ChatInvTells == ChatInv => ChatTruthful
<1> SUFFICES ASSUME ChatInv
             PROVE  FinishEarned /\ ClosedProperly
  BY DEF ChatInv, ChatTruthful
<1>1. /\ ChatTypeOK /\ KeptTrue /\ frames \in Seq(Frames) /\ Len(frames) \in Nat
      /\ DOMAIN frames = 1 .. Len(frames)
  BY DEF ChatInv, ChatTypeOK
<1>2. CASE Underway
  <2>1. kept = Unknown /\ \A i \in DOMAIN frames : frames[i] \in {"start", "token"}
    BY <1>2 DEF ChatInv, Body
  <2> QED
    BY <2>1 DEF FinishEarned, ClosedProperly, Told, Frames
<1>3. CASE ~Underway
  <2>1. chat.status \in Statuses /\ Spoken
    BY <1>3 DEF ChatInv
  <2> PICK n \in 0 .. Len(frames) : SpokenFrom(n)
    BY <2>1 DEF Spoken
  <2> PICK c : c = Closing(chat.status)
    OBVIOUS
  <2>2. /\ c \in Seq(Frames) /\ Len(c) > 0 /\ (\A i \in 1 .. Len(c) : c[i] \notin Body)
        /\ c[1] \notin {"done", "usage"} /\ (c[1] \in {"finish", "answer"} => chat.status = "ok")
        /\ (\A i \in 2 .. Len(c) : c[i] \in {"usage", "done"} /\ c[1] \in {"finish", "error"})
        /\ (\A i \in 1 .. Len(c) - 1 : c[i] # "done")
    BY <1>1, <2>1, ClosingShape
  <2>3. Len(c) \in Nat /\ Len(chat.owed) \in Nat
    BY <1>1, <2>2 DEF ChatTypeOK
  <2>4. /\ \A i \in 1 .. n : frames[i] \in Body
        /\ Len(frames) > n => kept # Unknown
        /\ Len(frames) - n <= Len(c)
        /\ \A i \in 1 .. Len(frames) - n : frames[n + i] = c[i]
    BY <1>1, <2>3 DEF SpokenFrom
  <2>5. ASSUME NEW i \in DOMAIN frames, frames[i] \notin Body
        PROVE  i - n \in 1 .. Len(c) /\ frames[i] = c[i - n] /\ kept # Unknown /\ i > n
    <3>1. i > n
      BY <1>1, <2>4, <2>5
    <3>2. i - n \in 1 .. Len(frames) - n /\ n + (i - n) = i
      BY <1>1, <3>1
    <3> QED
      BY <1>1, <2>3, <2>4, <3>1, <3>2
  <2>6. FinishEarned
    <3>1. ASSUME NEW i \in DOMAIN frames, frames[i] \in {"finish", "answer"}
          PROVE  kept # Unknown /\ kept.status = "ok"
      <4>1. i - n \in 1 .. Len(c) /\ frames[i] = c[i - n] /\ kept # Unknown
        BY <2>5, <3>1 DEF Body
      <4>2. i - n = 1
        BY <2>2, <2>3, <3>1, <4>1
      <4> QED
        BY <1>1, <2>2, <3>1, <4>1, <4>2 DEF KeptTrue
    <3> QED
      BY <1>1, <3>1 DEF FinishEarned, Told, KeptTrue
  <2>7. ClosedProperly
    <3>1. ASSUME NEW i \in DOMAIN frames, NEW j \in DOMAIN frames,
                 frames[i] = "finish", frames[j] = "error"
          PROVE  FALSE
      <4>1. /\ i - n \in 1 .. Len(c) /\ c[i - n] = "finish"
            /\ j - n \in 1 .. Len(c) /\ c[j - n] = "error"
        BY <2>5, <3>1 DEF Body
      <4>2. i - n = 1 /\ j - n = 1
        BY <2>2, <2>3, <4>1, SMTT(20)
      <4> QED
        BY <4>1, <4>2
    <3>2. ASSUME NEW i \in DOMAIN frames, frames[i] = "done"
          PROVE  \E k \in DOMAIN frames : frames[k] \in {"finish", "error"}
      <4>1. i - n \in 1 .. Len(c) /\ c[i - n] = "done" /\ i > n
        BY <2>5, <3>2 DEF Body
      <4>2. i - n \in 2 .. Len(c)
        BY <2>2, <2>3, <4>1
      <4>3. c[1] \in {"finish", "error"} /\ n + 1 \in DOMAIN frames /\ frames[n + 1] = c[1]
        BY <1>1, <2>2, <2>4, <4>1, <4>2
      <4> QED
        BY <4>3
    <3>3. ASSUME NEW i \in DOMAIN frames, NEW j \in DOMAIN frames,
                 frames[i] \in Frames \ {"start", "token"}, i < j
          PROVE  frames[i] # "done" /\ frames[j] \in {"usage", "done"}
      <4>1. i - n \in 1 .. Len(c) /\ frames[i] = c[i - n] /\ i > n
        BY <2>5, <3>3 DEF Body
      <4>2. j - n \in 1 .. Len(frames) - n /\ n + (j - n) = j
        BY <1>1, <3>3, <4>1
      <4>3. j - n \in 2 .. Len(c) /\ frames[j] = c[j - n]
        BY <1>1, <2>3, <2>4, <3>3, <4>1, <4>2
      <4>4. i - n \in 1 .. Len(c) - 1
        BY <1>1, <2>3, <3>3, <4>1, <4>3
      <4> QED
        BY <2>2, <4>1, <4>3, <4>4
    <3> QED
      BY <3>1, <3>2, <3>3 DEF ClosedProperly, Told
  <2> QED
    BY <2>6, <2>7
<1> QED
  BY <1>2, <1>3

LEMMA ChatNextKept == ChatInv /\ [ChatNext]_chatVars => ChatInv'
<1> SUFFICES ASSUME ChatInv, [ChatNext]_chatVars
             PROVE  ChatInv'
  OBVIOUS
<1>1. CASE UNCHANGED chatVars
  BY <1>1 DEF chatVars, ChatInv, ChatTypeOK, CountsSound, Underway, Spoken, SpokenFrom, Closing,
              PassedOn, KeptTrue, TokensTold, Chatting
<1>2. CASE ChatNext
  BY <1>2, HearingKept, EndsKept, EndingSaid DEF ChatNext
<1> QED
  BY <1>1, <1>2

LEMMA ChatInitKept == ChatInit => ChatInv
<1> SUFFICES ASSUME NEW form \in Forms, NEW usage \in BOOLEAN, Ask(form, usage)
             PROVE  ChatInv
  BY DEF ChatInit
<1>1. /\ chat = [form |-> form, include_usage |-> usage, phase |-> "idle", pieces |-> 0,
                 saw_finish |-> FALSE, tokens |-> NoTokens, status |-> "running", owed |-> <<>>]
      /\ frames = <<>> /\ kept = Unknown
  BY DEF Ask
<1>2. NoTokens \in Tokens /\ CountsSound(NoTokens)
  BY ChatAssumption DEF NoTokens, Tokens, Count, CountsSound
<1>3. ChatTypeOK
  BY <1>1, <1>2, ChatAssumption DEF ChatTypeOK
<1>4. chat.phase = "idle" /\ chat.pieces = 0 /\ chat.owed = <<>> /\ chat.tokens = NoTokens
  BY <1>1
<1>5. TokensTold = {}
  BY <1>1 DEF TokensTold
<1> QED
  BY <1>1, <1>2, <1>3, <1>4, <1>5 DEF ChatInv, Underway, Chatting, PassedOn, KeptTrue

\* Whatever the provider sends and ends, whoever goes and whatever save raises, for any
\* number of pieces: no client takes a broken answer for a finished one, a stream closed
\* with [DONE] has said how it went, and the counts of a record hold together.
THEOREM ChatKept == ChatSpec => []ChatTruthful
<1> QED
  BY ChatInitKept, ChatNextKept, ChatInvTells, PTL DEF ChatSpec
-----------------------------------------------------------------------------
(***************************************************************************)
(* The store.  What holds between a table and the records whose save       *)
(* returned, of the table the connection sees and of the one on disk:      *)
(* no identifier is there twice, the records it shares with the log are    *)
(* the same and in the order of the log, and where one of the log is       *)
(* missing, the table is full and the earlier ones are missing too.        *)
(***************************************************************************)
RowOnce(table) == \A i, j \in DOMAIN table : table[i].id = table[j].id => i = j

InOrder(table, log) ==
    \A k, m \in DOMAIN log, i, j \in DOMAIN table :
        k < m /\ table[i].id = log[k].id /\ table[j].id = log[m].id => i < j

CrowdedOut(table, log) ==
    \A k \in DOMAIN log : log[k].id \notin Ids(table) =>
        /\ Len(table) >= Retention
        /\ \A m \in 1 .. k : log[m].id \notin Ids(table)

TableSound(table, log) ==
    /\ table \in Seq(Row) /\ log \in Seq(Row)
    /\ RowOnce(table)
    /\ \A i \in DOMAIN table, k \in DOMAIN log : table[i].id = log[k].id => table[i] = log[k]
    /\ InOrder(table, log)
    /\ CrowdedOut(table, log)

\* The row of a save in progress is the last one, and is not on record yet.
StoreInv ==
    /\ StoreTypeOK
    /\ TableSound(rows, stored) /\ TableSound(disk, stored)
    /\ Len(disk) <= Retention
    /\ saving # "idle" => Len(rows) > 0 /\ rows[Len(rows)].id \notin Ids(stored)
    /\ saving = "pruned" => Len(rows) <= Retention

\* A row that is inserted.
LEMMA RowAdded ==
    ASSUME NEW table, NEW log, TableSound(table, log), NEW row \in Row,
           row.id \notin Ids(table) \cup Ids(log), NEW longer, longer = Append(table, row)
    PROVE  TableSound(longer, log) /\ Len(longer) > 0 /\ longer[Len(longer)] = row
<1>1. table \in Seq(Row) /\ log \in Seq(Row) /\ Len(table) \in Nat /\ Retention \in Nat
  BY StoreAssumption DEF TableSound
<1>2. /\ longer \in Seq(Row) /\ Len(longer) = Len(table) + 1
      /\ DOMAIN longer = 1 .. Len(table) + 1 /\ DOMAIN table = 1 .. Len(table)
      /\ \A i \in 1 .. Len(table) : longer[i] = table[i]
      /\ longer[Len(table) + 1] = row
  BY <1>1
<1>3. /\ \A i \in DOMAIN table : table[i].id # row.id
      /\ \A k \in DOMAIN log : log[k].id # row.id
  BY DEF Ids
<1>4. \A i \in DOMAIN longer : 
          (i \in DOMAIN table /\ longer[i] = table[i]) \/ (i = Len(table) + 1 /\ longer[i] = row)
  BY <1>1, <1>2
<1>5. RowOnce(longer)
  BY <1>3, <1>4 DEF RowOnce, TableSound
<1>6. \A i \in DOMAIN longer, k \in DOMAIN log : longer[i].id = log[k].id =>
          i \in DOMAIN table /\ longer[i] = table[i] /\ longer[i] = log[k]
  BY <1>3, <1>4 DEF TableSound
<1>7. InOrder(longer, log)
  BY <1>6 DEF InOrder, TableSound
<1>8. \A k \in DOMAIN log : log[k].id \in Ids(longer) <=> log[k].id \in Ids(table)
  BY <1>2, <1>3, <1>4 DEF Ids
<1>9. \A k \in DOMAIN log : 1 .. k \subseteq DOMAIN log
  BY <1>1
<1>10. CrowdedOut(longer, log)
  BY <1>1, <1>2, <1>8, <1>9 DEF CrowdedOut, TableSound
<1> QED
  BY <1>1, <1>2, <1>5, <1>6, <1>7, <1>10 DEF TableSound

\* The last rows of a table that has some.
LEMMA LastOnes ==
    ASSUME NEW table \in Seq(Row), Len(table) > 0
    PROVE  \E d \in Nat, shorter \in Seq(Row) :
              /\ LastRows(table, Retention) = shorter
              /\ d < Len(table) /\ Len(shorter) = Len(table) - d
              /\ Len(shorter) <= Retention /\ (d > 0 => Len(shorter) = Retention)
              /\ \A i \in 1 .. Len(shorter) : shorter[i] = table[i + d]
<1>1. Len(table) \in Nat /\ Retention \in Nat /\ Retention > 0
  BY StoreAssumption
<1> PICK d : d = IF Len(table) > Retention THEN Len(table) - Retention ELSE 0
  OBVIOUS
<1>2. d \in Nat /\ d < Len(table) /\ Len(table) - d <= Retention
      /\ (d > 0 => Len(table) - d = Retention)
  BY <1>1
<1>3. \A i \in d + 1 .. Len(table) : table[i] \in Row
  BY <1>1, <1>2
<1> PICK shorter : shorter = SubSeq(table, d + 1, Len(table))
  OBVIOUS
<1>4. LastRows(table, Retention) = shorter
  BY DEF LastRows
<1>5. d + 1 \in Int /\ Len(table) \in Int
  BY <1>1, <1>2
<1>6. /\ shorter \in Seq(Row)
      /\ Len(shorter) = IF d + 1 <= Len(table) THEN Len(table) - (d + 1) + 1 ELSE 0
      /\ \A i \in 1 .. Len(table) - (d + 1) + 1 : shorter[i] = table[(d + 1) + i - 1]
  BY <1>3, <1>5, SubSeqProperties, SMTT(20)
<1>7. Len(table) - (d + 1) + 1 = Len(table) - d /\ d + 1 <= Len(table)
  BY <1>1, <1>2
<1>8. \A i \in 1 .. Len(table) - d : (d + 1) + i - 1 = i + d
  BY <1>1, <1>2
<1>9. Len(shorter) = Len(table) - d
  BY <1>6, <1>7
<1>10. \A i \in 1 .. Len(shorter) : shorter[i] = table[i + d]
  BY <1>6, <1>7, <1>8, <1>9, SMTT(20)
<1> QED
  BY <1>2, <1>4, <1>6, <1>9, <1>10

\* The oldest rows beyond the retention go.
LEMMA RowsPruned ==
    ASSUME NEW table, NEW log, TableSound(table, log),
           NEW d \in Nat, NEW shorter \in Seq(Row),
           d < Len(table), Len(shorter) = Len(table) - d,
           Len(shorter) <= Retention, d > 0 => Len(shorter) = Retention,
           \A i \in 1 .. Len(shorter) : shorter[i] = table[i + d]
    PROVE  /\ TableSound(shorter, log) /\ Len(shorter) > 0
           /\ shorter[Len(shorter)] = table[Len(table)]
<1>1. /\ table \in Seq(Row) /\ log \in Seq(Row) /\ Len(table) \in Nat
      /\ Retention \in Nat /\ Retention > 0
      /\ DOMAIN table = 1 .. Len(table)
  BY StoreAssumption DEF TableSound
<1>2. Len(shorter) \in Nat /\ Len(shorter) > 0
  BY <1>1
<1>3. DOMAIN shorter = 1 .. Len(shorter)
  OBVIOUS
<1>4. \A i \in DOMAIN shorter : i + d \in DOMAIN table /\ shorter[i] = table[i + d] /\ i \in Int
  <2> SUFFICES ASSUME NEW i \in 1 .. Len(shorter)
               PROVE  i + d \in 1 .. Len(table)
    BY <1>1, <1>3, SMTT(20)
  <2>1. i <= Len(table) - d /\ i \in Int /\ 1 <= i
    BY <1>2
  <2> QED
    BY <1>1, <2>1
<1>5. RowOnce(shorter)
  <2> SUFFICES ASSUME NEW i \in DOMAIN shorter, NEW j \in DOMAIN shorter,
                      shorter[i].id = shorter[j].id
               PROVE  i = j
    BY DEF RowOnce
  <2>1. i + d = j + d
    BY <1>4 DEF RowOnce, TableSound
  <2> QED
    BY <2>1, <1>2, <1>4
<1>6. \A i \in DOMAIN shorter, k \in DOMAIN log : shorter[i].id = log[k].id => shorter[i] = log[k]
  BY <1>4 DEF TableSound
<1>7. InOrder(shorter, log)
  <2> SUFFICES ASSUME NEW k \in DOMAIN log, NEW m \in DOMAIN log, NEW i \in DOMAIN shorter,
                      NEW j \in DOMAIN shorter,
                      k < m, shorter[i].id = log[k].id, shorter[j].id = log[m].id
               PROVE  i < j
    BY DEF InOrder
  <2>1. i + d < j + d
    BY <1>4, SMTT(20) DEF InOrder, TableSound
  <2> QED
    BY <2>1, <1>2, <1>4
<1>8. CrowdedOut(shorter, log)
  <2> SUFFICES ASSUME NEW k \in DOMAIN log, log[k].id \notin Ids(shorter)
               PROVE  /\ Len(shorter) >= Retention
                      /\ \A m \in 1 .. k : log[m].id \notin Ids(shorter)
    BY DEF CrowdedOut
  <2>1. DOMAIN log = 1 .. Len(log) /\ Len(log) \in Nat
    BY <1>1
  <2>2. Ids(shorter) \subseteq Ids(table)
    BY <1>4 DEF Ids
  <2>3. CASE log[k].id \notin Ids(table)
    <3>1. Len(table) >= Retention /\ \A m \in 1 .. k : log[m].id \notin Ids(table)
      BY <2>3 DEF CrowdedOut, TableSound
    <3>2. Len(shorter) = Retention
      BY <1>1, <1>3, <3>1
    <3> QED
      BY <1>1, <2>2, <3>1, <3>2
  <2>4. CASE log[k].id \in Ids(table)
    <3> PICK p \in DOMAIN table : table[p].id = log[k].id
      BY <2>4 DEF Ids
    <3>1. ~(p > d)
      <4> SUFFICES ASSUME p > d
                   PROVE  FALSE
        OBVIOUS
      <4>1. p - d \in DOMAIN shorter /\ (p - d) + d = p
        BY <1>1, <1>2, <1>4
      <4>2. shorter[p - d].id = log[k].id
        BY <1>4, <4>1
      <4> QED
        BY <4>1, <4>2 DEF Ids
    <3>2. Len(shorter) = Retention
      BY <1>1, <1>2, <1>3, <3>1
    <3>3. ASSUME NEW m \in 1 .. k, log[m].id \in Ids(shorter)
          PROVE  FALSE
      <4> PICK i \in DOMAIN shorter : shorter[i].id = log[m].id
        BY <3>3 DEF Ids
      <4>1. i + d \in DOMAIN table /\ table[i + d].id = log[m].id /\ i + d > d
        BY <1>1, <1>2, <1>4, SMTT(20)
      <4>2. m \in DOMAIN log /\ m # k /\ m < k
        BY <2>1, <3>3
      <4>3. i + d < p
        BY <4>1, <4>2 DEF InOrder, TableSound
      <4> QED
        BY <1>1, <1>2, <3>1, <4>1, <4>3
    <3> QED
      BY <1>1, <3>2, <3>3
  <2> QED
    BY <2>3, <2>4
<1>9. shorter[Len(shorter)] = table[Len(table)]
  <2>1. Len(shorter) \in DOMAIN shorter /\ Len(shorter) + d = Len(table)
    BY <1>1, <1>2, <1>3, <1>4
  <2> QED
    BY <1>4, <2>1
<1> QED
  BY <1>1, <1>2, <1>3, <1>5, <1>6, <1>7, <1>8, <1>9 DEF TableSound

\* The last row goes on record.
LEMMA RowStored ==
    ASSUME NEW table, NEW log, TableSound(table, log), Len(table) > 0,
           table[Len(table)].id \notin Ids(log),
           NEW longer, longer = Append(log, table[Len(table)])
    PROVE  TableSound(table, longer) /\ longer \in Seq(Row)
<1>1. /\ table \in Seq(Row) /\ log \in Seq(Row) /\ Len(table) \in Nat /\ Len(log) \in Nat
      /\ DOMAIN table = 1 .. Len(table) /\ DOMAIN log = 1 .. Len(log)
  BY DEF TableSound
<1> PICK row : row = table[Len(table)]
  OBVIOUS
<1>2. row \in Row /\ Len(table) \in DOMAIN table /\ row = table[Len(table)]
  BY <1>1
<1>3. /\ longer \in Seq(Row) /\ DOMAIN longer = 1 .. Len(log) + 1
      /\ \A k \in 1 .. Len(log) : longer[k] = log[k]
      /\ longer[Len(log) + 1] = row
  BY <1>1, <1>2
<1>4. \A k \in DOMAIN longer :
          (k \in DOMAIN log /\ longer[k] = log[k]) \/ (k = Len(log) + 1 /\ longer[k] = row)
  BY <1>1, <1>3
<1>5. \A k \in DOMAIN log : log[k].id # row.id
  BY <1>2 DEF Ids
<1>6. RowOnce(table)
  BY DEF TableSound
<1>7. \A i \in DOMAIN table : table[i].id = row.id => i = Len(table)
  BY <1>2, <1>6 DEF RowOnce
<1>8. \A i \in DOMAIN table, k \in DOMAIN longer : table[i].id = longer[k].id => table[i] = longer[k]
  BY <1>2, <1>4, <1>7 DEF TableSound
<1>9. InOrder(table, longer)
  <2> SUFFICES ASSUME NEW k \in DOMAIN longer, NEW m \in DOMAIN longer, NEW i \in DOMAIN table,
                      NEW j \in DOMAIN table,
                      k < m, table[i].id = longer[k].id, table[j].id = longer[m].id
               PROVE  i < j
    BY DEF InOrder
  <2>1. k \in DOMAIN log /\ longer[k] = log[k]
    BY <1>1, <1>3, <1>4
  <2>2. CASE m \in DOMAIN log
    BY <1>1, <1>3, <2>1, <2>2 DEF InOrder, TableSound
  <2>3. CASE m \notin DOMAIN log
    <3>1. j = Len(table)
      BY <1>4, <1>7, <2>3
    <3>2. i # Len(table)
      BY <1>2, <1>5, <2>1
    <3> QED
      BY <1>1, <3>1, <3>2
  <2> QED
    BY <2>2, <2>3
<1>10. CrowdedOut(table, longer)
  <2> SUFFICES ASSUME NEW k \in DOMAIN longer, longer[k].id \notin Ids(table)
               PROVE  /\ Len(table) >= Retention
                      /\ \A m \in 1 .. k : longer[m].id \notin Ids(table)
    BY DEF CrowdedOut
  <2>1. row.id \in Ids(table)
    BY <1>2 DEF Ids
  <2>2. k \in DOMAIN log /\ longer[k] = log[k]
    BY <1>4, <2>1
  <2>3. \A m \in 1 .. k : m \in DOMAIN log /\ longer[m] = log[m]
    BY <1>1, <1>3, <2>2
  <2> QED
    BY <2>2, <2>3 DEF CrowdedOut, TableSound
<1> QED
  BY <1>1, <1>3, <1>6, <1>8, <1>9, <1>10 DEF TableSound

LEMMA StoreInitSound == StoreInit => StoreInv
<1> SUFFICES ASSUME StoreInit
             PROVE  StoreInv
  OBVIOUS
<1> PICK none : none = <<>>
  OBVIOUS
<1>1. none \in Seq(Row) /\ DOMAIN none = {} /\ Len(none) = 0
  OBVIOUS
<1>2. rows = none /\ disk = none /\ stored = none /\ saving = "idle" /\ breaks = 0
  BY DEF StoreInit
<1>3. StoreTypeOK
  BY <1>1, <1>2, StoreAssumption DEF StoreTypeOK
<1>4. TableSound(none, none)
  BY <1>1 DEF TableSound, RowOnce, InOrder, CrowdedOut
<1> QED
  BY <1>1, <1>2, <1>3, <1>4, StoreAssumption DEF StoreInv

LEMMA StoreNextSound == StoreInv /\ [StoreNext]_storeVars => StoreInv'
<1> SUFFICES ASSUME StoreInv, [StoreNext]_storeVars
             PROVE  StoreInv'
  OBVIOUS
<1>1. /\ StoreTypeOK /\ TableSound(rows, stored) /\ TableSound(disk, stored) /\ Len(disk) <= Retention
      /\ saving # "idle" => Len(rows) > 0 /\ rows[Len(rows)].id \notin Ids(stored)
      /\ saving = "pruned" => Len(rows) <= Retention
      /\ {Retention, Shown, Breaks} \subseteq Nat
  BY StoreAssumption DEF StoreInv
<1>2. CASE BeginSave
  <2>1. \E row \in Row : row.id \notin Ids(rows) \cup Ids(stored) /\ rows' = Append(rows, row)
    <3> PICK kind \in Kinds :
           rows' = Append(rows, [id |-> CHOOSE id \in Unused : TRUE, kind |-> kind])
      BY <1>2 DEF BeginSave
    <3> PICK id : id = CHOOSE one \in Unused : TRUE
      OBVIOUS
    <3>1. id \in Unused /\ rows' = Append(rows, [id |-> id, kind |-> kind])
      BY <1>2 DEF BeginSave
    <3> QED
      BY <3>1 DEF Unused, Row
  <2>2. PICK row \in Row : row.id \notin Ids(rows) \cup Ids(stored) /\ rows' = Append(rows, row)
    BY <2>1
  <2>4. /\ TableSound(rows', stored) /\ Len(rows') > 0 /\ rows'[Len(rows')] = row
    BY <1>1, <2>2, RowAdded
  <2>5. saving' = "inserted" /\ disk' = disk /\ stored' = stored /\ breaks' = breaks
    BY <1>2 DEF BeginSave
  <2>6. StoreTypeOK'
    BY <1>1, <2>4, <2>5 DEF StoreTypeOK, TableSound
  <2> QED
    BY <1>1, <2>2, <2>4, <2>5, <2>6 DEF StoreInv
<1>3. CASE Prune
  <2>1. /\ rows' = LastRows(rows, Retention) /\ saving = "inserted" /\ saving' = "pruned"
        /\ disk' = disk /\ stored' = stored /\ breaks' = breaks
    BY <1>3 DEF Prune
  <2>a. PICK d \in Nat, shorter \in Seq(Row) :
         /\ rows' = shorter
         /\ d < Len(rows) /\ Len(shorter) = Len(rows) - d
         /\ Len(shorter) <= Retention /\ (d > 0 => Len(shorter) = Retention)
         /\ \A i \in 1 .. Len(shorter) : shorter[i] = rows[i + d]
    BY <1>1, <2>1, LastOnes DEF StoreTypeOK
  <2>2. /\ TableSound(rows', stored) /\ Len(rows') > 0 /\ Len(rows') <= Retention
        /\ rows'[Len(rows')] = rows[Len(rows)]
    BY <1>1, <2>a, RowsPruned
  <2>3. StoreTypeOK'
    BY <1>1, <2>1, <2>2 DEF StoreTypeOK, TableSound
  <2> QED
    BY <1>1, <2>1, <2>2, <2>3 DEF StoreInv
<1>4. CASE Commit
  <2>1. /\ stored' = Append(stored, rows[Len(rows)]) /\ saving = "pruned" /\ saving' = "idle"
        /\ disk' = rows /\ rows' = rows /\ breaks' = breaks
    BY <1>4 DEF Commit
  <2>2. TableSound(rows, stored') /\ stored' \in Seq(Row)
    BY <1>1, <2>1, RowStored
  <2>3. StoreTypeOK'
    BY <1>1, <2>1, <2>2 DEF StoreTypeOK
  <2> QED
    BY <1>1, <2>1, <2>2, <2>3 DEF StoreInv
<1>5. CASE Broken \/ Reopen
  <2>1. /\ rows' \in {rows, disk} /\ saving' = "idle" /\ disk' = disk /\ stored' = stored
        /\ breaks' = breaks + 1 /\ breaks < Breaks
    BY <1>5 DEF Broken, Reopen
  <2>2. StoreTypeOK'
    BY <1>1, <2>1 DEF StoreTypeOK
  <2>3. TableSound(rows', stored')
    BY <1>1, <2>1
  <2> QED
    BY <1>1, <2>1, <2>2, <2>3 DEF StoreInv
<1>6. CASE UNCHANGED storeVars
  BY <1>1, <1>6 DEF storeVars, StoreInv, StoreTypeOK
<1> QED
  BY <1>2, <1>3, <1>4, <1>5, <1>6 DEF StoreNext

LEMMA FirstOne ==
    ASSUME NEW T, T \subseteq Nat, T # {}
    PROVE  \E i \in T : \A j \in T : i <= j
<1>1. \E i \in T : \A j \in T : ~(j < i)
  <2> PICK less : less = OpToRel(<, Nat)
    OBVIOUS
  <2>1. IsWellFoundedOn(less, Nat)
    BY NatLessThanWellFounded
  <2>2. \E i \in T : \A j \in T : <<j, i>> \notin less
    BY <2>1, WFMin
  <2>3. \A i, j \in Nat : j < i => <<j, i>> \in less
    BY DEF OpToRel
  <2> QED
    BY <2>2, <2>3
<1> QED
  BY <1>1

\* A listing starts after the row that leaves less than its limit behind it.
LEMMA ListedBounded ==
    ASSUME StoreTypeOK, NEW kind
    PROVE  Cardinality(Listed(kind)) <= Shown
<1>1. /\ rows \in Seq(Row) /\ Len(rows) \in Nat /\ DOMAIN rows = 1 .. Len(rows)
      /\ IsFiniteSet(1 .. Len(rows)) /\ Shown \in Nat
  BY StoreAssumption, FS_Interval DEF StoreTypeOK
<1>2. Listed(kind) \subseteq 1 .. Len(rows) /\ IsFiniteSet(Listed(kind))
  <2>1. Listed(kind) \subseteq 1 .. Len(rows)
    BY <1>1 DEF Listed
  <2> QED
    BY <1>1, <2>1, FS_Subset
<1>3. CASE Listed(kind) = {}
  BY <1>1, <1>3, FS_EmptySet
<1>4. CASE Listed(kind) # {}
  <2> PICK i \in Listed(kind) : \A j \in Listed(kind) : i <= j
    BY <1>2, <1>4, FirstOne
  <2>1. i \in 1 .. Len(rows) /\ Cardinality(Newer(i, kind)) < Shown
    BY <1>1 DEF Listed
  <2>2. Newer(i, kind) \subseteq 1 .. Len(rows) /\ IsFiniteSet(Newer(i, kind))
    <3>1. Newer(i, kind) \subseteq 1 .. Len(rows)
      BY <1>1 DEF Newer
    <3> QED
      BY <1>1, <3>1, FS_Subset
  <2>3. Listed(kind) \ {i} \subseteq Newer(i, kind)
    <3> SUFFICES ASSUME NEW j \in Listed(kind), j # i
                 PROVE  j \in Newer(i, kind)
      OBVIOUS
    <3>1. j \in 1 .. Len(rows) /\ i <= j
      BY <1>2
    <3>2. j \in DOMAIN rows /\ rows[j].kind = kind
      BY DEF Listed
    <3>3. j > i
      BY <1>1, <2>1, <3>1
    <3> QED
      BY <3>2, <3>3 DEF Newer
  <2>4. /\ Cardinality(Listed(kind) \ {i}) <= Cardinality(Newer(i, kind))
        /\ Cardinality(Newer(i, kind)) \in Nat
    BY <2>2, <2>3, FS_Subset, FS_CardinalityType
  <2>5. Cardinality(Listed(kind) \ {i}) = Cardinality(Listed(kind)) - 1
        /\ Cardinality(Listed(kind)) \in Nat
    BY <1>2, FS_RemoveElement, FS_CardinalityType
  <2> QED
    BY <1>1, <2>1, <2>4, <2>5
<1> QED
  BY <1>3, <1>4

LEMMA StoreInvKeeps == StoreInv => KeptUntilCrowded
<1> SUFFICES ASSUME StoreInv
             PROVE  KeptUntilCrowded
  OBVIOUS
<1>1. /\ StoreTypeOK /\ TableSound(rows, stored) /\ TableSound(disk, stored)
      /\ Len(disk) <= Retention /\ Len(disk) \in Nat /\ Retention \in Nat
      /\ stored \in Seq(Row) /\ Len(stored) \in Nat
      /\ rows \in Seq(Row) /\ Len(rows) \in Nat /\ DOMAIN rows = 1 .. Len(rows)
  BY StoreAssumption DEF StoreInv, StoreTypeOK
<1>4. IsFiniteSet(1 .. Len(rows))
  BY <1>1, FS_Interval
<1>2. RecordsKept
  <2> SUFFICES ASSUME NEW k \in DOMAIN stored, stored[k].id \notin Ids(disk)
               PROVE  /\ Len(disk) = Retention
                      /\ Ids(disk) \cap Ids(SubSeq(stored, 1, k)) = {}
    BY <1>1 DEF RecordsKept
  <2>1. Len(disk) >= Retention /\ \A m \in 1 .. k : stored[m].id \notin Ids(disk)
    BY <1>1 DEF TableSound, CrowdedOut
  <2>2. k \in 1 .. Len(stored)
    BY <1>1
  <2> PICK first : first = SubSeq(stored, 1, k)
    OBVIOUS
  <2>3. /\ first \in Seq(Row) /\ Len(first) = k
        /\ \A i \in 1 .. k : first[i] = stored[i]
    <3>1. \A i \in 1 .. k : stored[i] \in Row
      BY <1>1, <2>2
    <3>2. /\ first \in Seq(Row) /\ Len(first) = IF 1 <= k THEN k - 1 + 1 ELSE 0
          /\ \A i \in 1 .. k - 1 + 1 : first[i] = stored[1 + i - 1]
      BY <2>2, <3>1, SubSeqProperties
    <3>3. k - 1 + 1 = k /\ 1 <= k /\ \A i \in 1 .. k : 1 + i - 1 = i
      BY <2>2
    <3> QED
      BY <3>2, <3>3
  <2>4. DOMAIN first = 1 .. k
    BY <2>2, <2>3
  <2>5. Ids(disk) \cap Ids(first) = {}
    BY <2>1, <2>3, <2>4 DEF Ids
  <2> QED
    BY <1>1, <2>1, <2>5
<1>3. ListingNewest
  <2> SUFFICES ASSUME NEW kind \in Kinds, NEW k \in DOMAIN stored, NEW m \in DOMAIN stored,
                      NEW i \in Listed(kind), NEW j \in DOMAIN rows,
                      k < m, stored[k].id = rows[i].id,
                      stored[m].kind = kind, stored[m].id = rows[j].id
               PROVE  i < j /\ j \in Listed(kind)
    BY <1>1, ListedBounded DEF ListingNewest
  <2>1. i \in DOMAIN rows /\ Cardinality(Newer(i, kind)) < Shown
    BY DEF Listed
  <2>2. i < j
    BY <1>1, <2>1 DEF TableSound, InOrder
  <2>3. rows[j].kind = kind
    BY <1>1 DEF TableSound
  <2>4. Newer(j, kind) \subseteq Newer(i, kind)
    <3>1. \A p \in DOMAIN rows : p > j => p > i
      BY <1>1, <2>1, <2>2
    <3> QED
      BY <3>1 DEF Newer
  <2>5. IsFiniteSet(Newer(i, kind))
    <3>1. Newer(i, kind) \subseteq 1 .. Len(rows)
      BY <1>1 DEF Newer
    <3> QED
      BY <1>4, <3>1, FS_Subset
  <2>6. /\ Cardinality(Newer(j, kind)) <= Cardinality(Newer(i, kind))
        /\ Cardinality(Newer(j, kind)) \in Nat /\ Cardinality(Newer(i, kind)) \in Nat
    BY <2>4, <2>5, FS_Subset, FS_CardinalityType
  <2> QED
    BY <2>1, <2>2, <2>3, <2>6, StoreAssumption DEF Listed
<1> QED
  BY <1>1, <1>2, <1>3 DEF KeptUntilCrowded

\* A record that was saved is on disk until as many newer ones are as the store keeps,
\* whatever statement fails and whenever the process dies, and a listing shows the
\* newest of its kind, for any retention and any limit.
THEOREM StoreKept == StoreSpec => []KeptUntilCrowded
<1> QED
  BY StoreInitSound, StoreNextSound, StoreInvKeeps, PTL DEF StoreSpec

-----------------------------------------------------------------------------
(***************************************************************************)
(* FlattenSeq.  Its recursive function exists, by induction on the number  *)
(* of parts: the least number for which it did not would have one below.   *)
(***************************************************************************)
Flattening(parts, n, f) ==
    f = [i \in 1 .. n |-> IF i = 1 THEN parts[i] ELSE f[i - 1] \o parts[i]]

\* The function exists, for any parts.
LEMMA FlatteningExists ==
    ASSUME NEW parts, NEW n \in Nat
    PROVE  \E f : Flattening(parts, n, f)
<1> DEFINE Bad == {k \in Nat : ~\E f : Flattening(parts, k, f)}
<1> SUFFICES ASSUME Bad # {} PROVE FALSE
  OBVIOUS
<1>1. PICK k \in Bad : \A l \in Bad : k <= l
  <2>1. Bad \subseteq Nat
    OBVIOUS
  <2> HIDE DEF Bad
  <2> QED
    BY <2>1, Least
<1>2. k \in Nat /\ ~\E f : Flattening(parts, k, f)
  BY <1>1
<1>3. CASE k = 0
  <2>1. Flattening(parts, 0, <<>>)
    BY DEF Flattening
  <2> QED
    BY <1>2, <1>3, <2>1
<1>4. CASE k # 0
  <2>1. k - 1 \in Nat /\ ~(k <= k - 1)
    BY <1>2, <1>4
  <2>2. PICK f : Flattening(parts, k - 1, f)
    BY <1>1, <2>1
  <2> DEFINE g == [i \in 1 .. k |-> IF i = 1 THEN parts[i] ELSE f[i - 1] \o parts[i]]
  <2>3. \A i \in 1 .. k - 1 : f[i] = IF i = 1 THEN parts[i] ELSE f[i - 1] \o parts[i]
    BY <2>2 DEF Flattening
  <2>4. \A i \in 1 .. k - 1 : i \in 1 .. k /\ f[i] = g[i]
    BY <1>2, <2>3
  <2>5. \A i \in 1 .. k : i # 1 => i - 1 \in 1 .. k - 1
    BY <1>2
  <2>6. g = [i \in 1 .. k |-> IF i = 1 THEN parts[i] ELSE g[i - 1] \o parts[i]]
    BY <2>4, <2>5
  <2>7. Flattening(parts, k, g)
    BY <2>6 DEF Flattening
  <2> QED
    BY <1>2, <2>7
<1> QED
  BY <1>3, <1>4

\* off[k] symbols are those of the first k parts, and each part is where they end.
Layout(parts, whole, off) ==
    /\ off \in [0 .. Len(parts) -> Nat]
    /\ off[0] = 0 /\ off[Len(parts)] = Len(whole)
    /\ \A k \in 1 .. Len(parts) :
          /\ off[k] = off[k - 1] + Len(parts[k])
          /\ \A j \in 1 .. Len(parts[k]) : whole[off[k - 1] + j] = parts[k][j]

\* Its values are sequences of the symbols of the parts.
LEMMA FlattenedTyped ==
    ASSUME NEW S, NEW parts \in Seq(Seq(S)), NEW f, Flattening(parts, Len(parts), f)
    PROVE  \A i \in 1 .. Len(parts) : f[i] \in Seq(S)
<1> DEFINE n == Len(parts)
           Bad == {i \in 1 .. n : f[i] \notin Seq(S)}
<1>1. n \in Nat /\ \A i \in 1 .. n : parts[i] \in Seq(S)
  BY LenProperties, ElementOfSeq
<1>2. \A i \in 1 .. n : f[i] = IF i = 1 THEN parts[i] ELSE f[i - 1] \o parts[i]
  BY DEF Flattening
<1> HIDE DEF n
<1> SUFFICES ASSUME Bad # {} PROVE FALSE
  BY DEF n
<1>3. PICK m \in Bad : \A l \in Bad : m <= l
  <2>1. Bad \subseteq Nat
    BY <1>1
  <2> HIDE DEF Bad
  <2> QED
    BY <2>1, Least
<1>4. m \in 1 .. n /\ f[m] \notin Seq(S)
  BY <1>3
<1>5. m # 1
  BY <1>1, <1>2, <1>4
<1>6. m - 1 \in 1 .. n /\ ~(m <= m - 1)
  BY <1>1, <1>4, <1>5
<1>7. f[m - 1] \in Seq(S)
  BY <1>3, <1>6
<1>8. f[m - 1] \o parts[m] \in Seq(S)
  BY <1>1, <1>4, <1>7, ConcatProperties
<1> QED
  BY <1>2, <1>4, <1>5, <1>8

\* Where a part ends.
PartEnd(f, k) == IF k = 0 THEN 0 ELSE Len(f[k])

\* The function adds each part behind the ones before it.
LEMMA FlattenedPlaces ==
    ASSUME NEW S, NEW parts \in Seq(Seq(S)), NEW f, Flattening(parts, Len(parts), f)
    PROVE  \A m \in 1 .. Len(parts), k \in 1 .. Len(parts) : k <= m =>
               /\ PartEnd(f, k) = PartEnd(f, k - 1) + Len(parts[k]) /\ PartEnd(f, k) <= PartEnd(f, m)
               /\ \A j \in 1 .. Len(parts[k]) : f[m][PartEnd(f, k - 1) + j] = parts[k][j]
<1> DEFINE n == Len(parts)
           Good(m) == \A k \in 1 .. n : k <= m =>
                         /\ PartEnd(f, k) <= PartEnd(f, m)
                         /\ \A j \in 1 .. Len(parts[k]) : f[m][PartEnd(f, k - 1) + j] = parts[k][j]
           Bad == {m \in 1 .. n : ~Good(m)}
<1>1. n \in Nat /\ \A i \in 1 .. n : parts[i] \in Seq(S) /\ Len(parts[i]) \in Nat
  BY LenProperties, ElementOfSeq
<1>2. \A i \in 1 .. n : f[i] = IF i = 1 THEN parts[i] ELSE f[i - 1] \o parts[i]
  BY DEF Flattening
<1>3. \A i \in 1 .. n : f[i] \in Seq(S) /\ Len(f[i]) \in Nat
  BY FlattenedTyped, LenProperties
<1> HIDE DEF n
<1>4. PartEnd(f, 0) = 0 /\ \A k \in 1 .. n : PartEnd(f, k) = Len(f[k]) /\ PartEnd(f, k) \in Nat /\ PartEnd(f, k - 1) \in Nat
  <2>1. PartEnd(f, 0) = 0 /\ \A k \in 1 .. n : PartEnd(f, k) = Len(f[k]) /\ PartEnd(f, k) \in Nat
    BY <1>1, <1>3 DEF n, PartEnd
  <2>2. \A k \in 1 .. n : k = 1 \/ k - 1 \in 1 .. n
    BY <1>1
  <2> QED
    BY <2>1, <2>2
<1>5. ASSUME NEW m \in 1 .. n, m # 1
      PROVE  /\ m - 1 \in 1 .. n /\ f[m] = f[m - 1] \o parts[m]
             /\ PartEnd(f, m) = PartEnd(f, m - 1) + Len(parts[m])
             /\ \A i \in 1 .. PartEnd(f, m - 1) + Len(parts[m]) :
                   f[m][i] = IF i <= PartEnd(f, m - 1) THEN f[m - 1][i] ELSE parts[m][i - PartEnd(f, m - 1)]
  <2>1. m - 1 \in 1 .. n /\ f[m] = f[m - 1] \o parts[m]
    <3>1. m - 1 \in 1 .. n
      BY ONLY <1>1, <1>5
    <3> QED
      BY ONLY <1>2, <1>5, <3>1
  <2>2. f[m - 1] \in Seq(S) /\ parts[m] \in Seq(S) /\ PartEnd(f, m - 1) = Len(f[m - 1]) /\ PartEnd(f, m) = Len(f[m])
    BY <1>1, <1>3, <1>4, <2>1
  <2>3. /\ Len(f[m - 1] \o parts[m]) = Len(f[m - 1]) + Len(parts[m])
        /\ \A i \in 1 .. Len(f[m - 1]) + Len(parts[m]) :
              (f[m - 1] \o parts[m])[i] =
                 IF i <= Len(f[m - 1]) THEN f[m - 1][i] ELSE parts[m][i - Len(f[m - 1])]
    <3>1. PICK a, b : a = f[m - 1] /\ b = parts[m]
      OBVIOUS
    <3>2. a \in Seq(S) /\ b \in Seq(S)
      BY <2>2, <3>1
    <3>3. /\ Len(a \o b) = Len(a) + Len(b)
          /\ \A i \in 1 .. Len(a) + Len(b) :
                (a \o b)[i] = IF i <= Len(a) THEN a[i] ELSE b[i - Len(a)]
      BY ONLY <3>2, ConcatProperties
    <3> QED
      BY ONLY <3>1, <3>3, Zenon
  <2> QED
    BY ONLY <2>1, <2>2, <2>3
<1>6. \A k \in 1 .. n : PartEnd(f, k) = PartEnd(f, k - 1) + Len(parts[k])
  <2> SUFFICES ASSUME NEW k \in 1 .. n PROVE PartEnd(f, k) = PartEnd(f, k - 1) + Len(parts[k])
    OBVIOUS
  <2>1. CASE k = 1
    BY <1>1, <1>2, <1>4, <2>1
  <2>2. CASE k # 1
    BY <1>5, <2>2
  <2> QED
    BY <2>1, <2>2
<1>7. Bad = {}
  <2> SUFFICES ASSUME Bad # {} PROVE FALSE
    OBVIOUS
  <2>1. PICK m \in Bad : \A l \in Bad : m <= l
    <3>1. Bad \subseteq Nat
      BY <1>1
    <3> HIDE DEF Bad
    <3> QED
      BY <3>1, Least
  <2>2. m \in 1 .. n /\ ~Good(m)
    BY <2>1
  <2> HIDE DEF Bad
  <2>3. ASSUME NEW k \in 1 .. n, k <= m
        PROVE  /\ PartEnd(f, k) <= PartEnd(f, m)
               /\ \A j \in 1 .. Len(parts[k]) : f[m][PartEnd(f, k - 1) + j] = parts[k][j]
    <3>1. /\ PartEnd(f, m) \in Nat /\ PartEnd(f, m - 1) \in Nat /\ PartEnd(f, k) \in Nat /\ PartEnd(f, k - 1) \in Nat
          /\ Len(parts[m]) \in Nat /\ Len(parts[k]) \in Nat
          /\ PartEnd(f, m) = PartEnd(f, m - 1) + Len(parts[m])
      BY <1>1, <1>4, <1>6, <2>2
    <3>2. CASE k = m /\ m = 1
      <4>1. f[1] = parts[1] /\ PartEnd(f, 0) = 0
        BY <1>2, <1>4, <2>2, <3>2
      <4> QED
        BY <3>1, <3>2, <4>1
    <3>3. CASE k = m /\ m # 1
      <4>1. \A j \in 1 .. Len(parts[m]) :
                /\ PartEnd(f, m - 1) + j \in 1 .. PartEnd(f, m - 1) + Len(parts[m])
                /\ ~(PartEnd(f, m - 1) + j <= PartEnd(f, m - 1)) /\ (PartEnd(f, m - 1) + j) - PartEnd(f, m - 1) = j
        <5>1. PICK o \in Nat, l \in Nat : o = PartEnd(f, m - 1) /\ l = Len(parts[m])
          BY <3>1
        <5>2. \A j \in 1 .. l : o + j \in 1 .. o + l /\ ~(o + j <= o) /\ (o + j) - o = j
          BY ONLY <5>1
        <5> QED
          BY ONLY <5>1, <5>2, Zenon
      <4>2. \A i \in 1 .. PartEnd(f, m - 1) + Len(parts[m]) :
                ~(i <= PartEnd(f, m - 1)) => f[m][i] = parts[m][i - PartEnd(f, m - 1)]
        BY <1>5, <2>2, <3>3
      <4>3. \A j \in 1 .. Len(parts[m]) : f[m][PartEnd(f, m - 1) + j] = parts[m][j]
        BY ONLY <4>1, <4>2
      <4> QED
        BY ONLY <3>1, <3>3, <4>3
    <3>4. CASE k # m
      <4>1. m # 1 /\ m - 1 \in 1 .. n /\ k <= m - 1 /\ ~(m <= m - 1)
        BY ONLY <1>1, <2>2, <2>3, <3>4
      <4>2. Good(m - 1)
        <5>1. m - 1 \notin Bad
          BY <2>1, <4>1
        <5> HIDE DEF Good
        <5> QED
          BY <4>1, <5>1 DEF Bad
      <4>3. /\ PartEnd(f, k) <= PartEnd(f, m - 1)
            /\ \A j \in 1 .. Len(parts[k]) : f[m - 1][PartEnd(f, k - 1) + j] = parts[k][j]
        BY ONLY <4>1, <4>2
      <4>4. PartEnd(f, k) = PartEnd(f, k - 1) + Len(parts[k])
        BY <1>6
      <4>5. \A j \in 1 .. Len(parts[k]) :
                /\ PartEnd(f, k - 1) + j \in 1 .. PartEnd(f, m - 1) + Len(parts[m])
                /\ PartEnd(f, k - 1) + j <= PartEnd(f, m - 1)
        <5>1. PICK o \in Nat, p \in Nat, q \in Nat, l \in Nat, k1 \in Nat :
                  /\ o = PartEnd(f, m - 1) /\ p = PartEnd(f, k - 1) /\ q = PartEnd(f, k)
                  /\ l = Len(parts[m]) /\ k1 = Len(parts[k])
          BY <3>1
        <5>2. q = p + k1 /\ q <= o
          BY <4>3, <4>4, <5>1
        <5>3. ASSUME NEW j \in 1 .. k1 PROVE p + j \in 1 .. o + l /\ p + j <= o
          <6>1. j \in Nat /\ 1 <= j /\ j <= k1
            BY ONLY <5>1
          <6> QED
            BY ONLY <5>2, <6>1
        <5> QED
          BY ONLY <5>1, <5>3, Zenon
      <4>6. \A i \in 1 .. PartEnd(f, m - 1) + Len(parts[m]) :
                i <= PartEnd(f, m - 1) => f[m][i] = f[m - 1][i]
        BY <1>5, <2>2, <4>1
      <4>7. PartEnd(f, k) <= PartEnd(f, m)
        BY ONLY <3>1, <4>3, <4>1
      <4> QED
        BY ONLY <4>3, <4>5, <4>6, <4>7
    <3> QED
      BY ONLY <3>2, <3>3, <3>4
  <2>4. Good(m)
    BY <2>3
  <2> QED
    BY <2>2, <2>4
<1>8. \A m \in 1 .. n : Good(m)
  <2> HIDE DEF Good
  <2> QED
    BY <1>7
<1> QED
  BY <1>6, <1>8 DEF n

\* What is flattened has a layout.
LEMMA FlattenLayout ==
    ASSUME NEW S, NEW parts \in Seq(Seq(S))
    PROVE  FlattenSeq(parts) \in Seq(S) /\ \E off : Layout(parts, FlattenSeq(parts), off)
<1> DEFINE n == Len(parts)
<1>1. n \in Nat /\ DOMAIN parts = 1 .. n
  BY LenProperties
<1>2. CASE n = 0
  <2>1. parts = <<>> /\ FlattenSeq(parts) = <<>>
    BY <1>2, EmptySeq DEF FlattenSeq
  <2>2. <<>> \in Seq(S) /\ Len(<<>>) = 0
    BY EmptySeq
  <2>3. Layout(<<>>, <<>>, [k \in 0 .. 0 |-> 0])
    BY <2>2 DEF Layout
  <2> QED
    BY <2>1, <2>2, <2>3
<1>3. CASE n # 0
  <2> DEFINE f == CHOOSE g : Flattening(parts, n, g)
             off == [k \in 0 .. n |-> PartEnd(f, k)]
  <2>1. Flattening(parts, n, f)
    BY <1>1, FlatteningExists
  <2>2. FlattenSeq(parts) = f[n]
    BY <1>3 DEF FlattenSeq, Flattening
  <2> HIDE DEF f
  <2>3. \A k \in 1 .. n : f[k] \in Seq(S) /\ Len(f[k]) \in Nat
    BY <2>1, FlattenedTyped, LenProperties
  <2>4. off \in [0 .. n -> Nat] /\ off[0] = 0 /\ off[n] = Len(f[n])
    BY <1>1, <1>3, <2>3 DEF PartEnd
  <2>5. /\ n \in 1 .. n
        /\ \A k \in 1 .. n :
              /\ off[k] = off[k - 1] + Len(parts[k])
              /\ \A j \in 1 .. Len(parts[k]) : f[n][off[k - 1] + j] = parts[k][j]
    <3>1. n \in 1 .. n /\ \A k \in 1 .. n : k <= n
      BY <1>1, <1>3
    <3>2. \A k \in 1 .. n :
             /\ PartEnd(f, k) = PartEnd(f, k - 1) + Len(parts[k])
             /\ \A j \in 1 .. Len(parts[k]) : f[n][PartEnd(f, k - 1) + j] = parts[k][j]
      <4>1. Flattening(parts, Len(parts), f)
        BY <2>1
      <4>2. \A m \in 1 .. Len(parts), k \in 1 .. Len(parts) : k <= m =>
               /\ PartEnd(f, k) = PartEnd(f, k - 1) + Len(parts[k]) /\ PartEnd(f, k) <= PartEnd(f, m)
               /\ \A j \in 1 .. Len(parts[k]) : f[m][PartEnd(f, k - 1) + j] = parts[k][j]
        BY ONLY <4>1, FlattenedPlaces
      <4> QED
        BY ONLY <3>1, <4>2
    <3>3. \A k \in 1 .. n : off[k] = PartEnd(f, k) /\ off[k - 1] = PartEnd(f, k - 1)
      BY <1>1
    <3> HIDE DEF off
    <3> QED
      BY <3>1, <3>2, <3>3
  <2> HIDE DEF off
  <2>6. Layout(parts, f[n], off)
    BY <2>4, <2>5 DEF Layout
  <2> QED
    BY <1>1, <2>2, <2>3, <2>5, <2>6
<1> QED
  BY <1>2, <1>3

-----------------------------------------------------------------------------
(***************************************************************************)
(* A stream.  off[k] is where its k-th line ends, and w the width of the   *)
(* end of a line; what is missing is missing there.                        *)
(***************************************************************************)
\* The ends of the lines rise, by the width of a line end at least.
LEMMA Rising ==
    ASSUME NEW n \in Nat, NEW off \in [0 .. n -> Nat], \A k \in 1 .. n : off[k - 1] <= off[k]
    PROVE  \A m \in 0 .. n, l \in 0 .. n : l <= m => off[l] <= off[m]
<1> DEFINE Bad == {m \in 0 .. n : \E l \in 0 .. n : l <= m /\ ~(off[l] <= off[m])}
<1> SUFFICES ASSUME Bad # {} PROVE FALSE
  OBVIOUS
<1>1. PICK m \in Bad : \A l \in Bad : m <= l
  <2>1. Bad \subseteq Nat
    OBVIOUS
  <2> HIDE DEF Bad
  <2> QED
    BY <2>1, Least
<1>2. m \in 0 .. n /\ \E l \in 0 .. n : l <= m /\ ~(off[l] <= off[m])
  BY <1>1
<1>3. PICK l \in 0 .. n : l <= m /\ ~(off[l] <= off[m])
  BY <1>2
<1>4. m \in Nat /\ m <= n /\ l \in Nat /\ off[l] \in Nat /\ off[m] \in Nat
  BY <1>2, <1>3
<1>5. m # l
  BY <1>3, <1>4
<1>6. m - 1 \in 0 .. n /\ l <= m - 1 /\ ~(m <= m - 1) /\ m \in 1 .. n
  BY ONLY <1>3, <1>4, <1>5
<1>7. m - 1 \notin Bad
  BY <1>1, <1>6
<1>8. off[l] <= off[m - 1]
  BY <1>6, <1>7
<1>9. off[m - 1] <= off[m] /\ off[m - 1] \in Nat
  BY <1>6
<1> QED
  BY ONLY <1>3, <1>4, <1>8, <1>9

\* Each symbol is between the ends of two lines that follow each other.
LEMMA Between ==
    ASSUME NEW n \in Nat, NEW off \in [0 .. n -> Nat], NEW p \in Nat,
           off[0] < p, p <= off[n]
    PROVE  \E k \in 1 .. n : off[k - 1] < p /\ p <= off[k]
<1> DEFINE T == {k \in 0 .. n : p <= off[k]}
<1>1. PICK k \in T : \A l \in T : k <= l
  <2>1. T \subseteq Nat /\ n \in T
    OBVIOUS
  <2> HIDE DEF T
  <2> QED
    BY <2>1, Least
<1>2. k \in 0 .. n /\ p <= off[k]
  BY <1>1
<1>3. k # 0
  <2>1. off[0] \in Nat
    OBVIOUS
  <2> QED
    BY <1>2, <2>1
<1>4. k \in 1 .. n /\ k - 1 \in 0 .. n /\ ~(k <= k - 1)
  BY <1>2, <1>3
<1>5. k - 1 \notin T /\ off[k - 1] \in Nat
  BY <1>1, <1>4
<1>6. ~(p <= off[k - 1])
  BY <1>4, <1>5
<1>7. off[k - 1] < p
  BY ONLY <1>5, <1>6, p \in Nat
<1> QED
  BY <1>2, <1>4, <1>7

Texts   == Contents \cup {"part"}
Symbols == (Texts \ {"blank"}) \cup {"CR", "LF"}

\* The bytes of a line.
Bytes(text, ending) == (IF text = "blank" THEN <<>> ELSE <<text>>) \o ending

\* A line end is LF or CR LF.
LEMMA EndingOf ==
    ASSUME NEW ending \in Endings
    PROVE  /\ ending \in Seq(Symbols)
           /\ \/ Len(ending) = 1 /\ ending[1] = "LF"
              \/ Len(ending) = 2 /\ ending[1] = "CR" /\ ending[2] = "LF"
<1>1. "LF" \in Symbols /\ "CR" \in Symbols
  BY DEF Symbols
<1>2. CASE ending = <<"LF">>
  <2>1. <<"LF">> \in Seq(Symbols) /\ Len(<<"LF">>) = 1 /\ <<"LF">>[1] = "LF"
    BY <1>1
  <2> QED
    BY <1>2, <2>1
<1>3. CASE ending = <<"CR", "LF">>
  <2>1. /\ <<"CR", "LF">> \in Seq(Symbols) /\ Len(<<"CR", "LF">>) = 2
        /\ <<"CR", "LF">>[1] = "CR" /\ <<"CR", "LF">>[2] = "LF"
    BY <1>1
  <2> QED
    BY <1>3, <2>1
<1> QED
  BY <1>2, <1>3 DEF Endings

\* The bytes of a line: its text, unless it is blank, and its end.
LEMMA BytesOf ==
    ASSUME NEW text \in Texts, NEW ending \in Endings
    PROVE  /\ Bytes(text, ending) \in Seq(Symbols)
           /\ Len(Bytes(text, ending)) = IF text = "blank" THEN Len(ending) ELSE Len(ending) + 1
           /\ text # "blank" => Bytes(text, ending)[1] = text
           /\ Bytes(text, ending)[Len(Bytes(text, ending))] = "LF"
           /\ Len(ending) = 2 => Bytes(text, ending)[Len(Bytes(text, ending)) - 1] = "CR"
<1>1. /\ ending \in Seq(Symbols)
      /\ \/ Len(ending) = 1 /\ ending[1] = "LF"
         \/ Len(ending) = 2 /\ ending[1] = "CR" /\ ending[2] = "LF"
  BY EndingOf
<1>2. CASE text = "blank"
  <2>1. Bytes(text, ending) = ending
    BY <1>1, <1>2, ConcatEmptySeq DEF Bytes
  <2> QED
    BY <1>1, <1>2, <2>1
<1>3. CASE text # "blank"
  <2>1. PICK one : one = <<text>>
    OBVIOUS
  <2>2. one \in Seq(Symbols) /\ Len(one) = 1 /\ one[1] = text
    BY <1>3, <2>1 DEF Symbols
  <2>3. Bytes(text, ending) = one \o ending
    BY <1>3, <2>1 DEF Bytes
  <2>4. PICK all : all = one \o ending
    OBVIOUS
  <2>5. /\ all \in Seq(Symbols) /\ Len(all) = Len(one) + Len(ending)
        /\ \A i \in 1 .. Len(one) + Len(ending) :
              all[i] = IF i <= Len(one) THEN one[i] ELSE ending[i - Len(one)]
    BY ONLY <1>1, <2>2, <2>4, ConcatProperties
  <2>6. PICK e \in Nat : e = Len(ending) /\ e \in {1, 2}
    BY <1>1
  <2>7. Len(all) = e + 1 /\ \A i \in 1 .. e + 1 : all[i] = IF i <= 1 THEN one[i] ELSE ending[i - 1]
    BY ONLY <2>2, <2>5, <2>6
  <2>8. all[1] = text
    BY ONLY <2>2, <2>6, <2>7
  <2>9. all[e + 1] = ending[e]
    <3>1. e + 1 \in 1 .. e + 1 /\ ~(e + 1 <= 1) /\ (e + 1) - 1 = e
      BY <2>6
    <3> QED
      BY ONLY <2>7, <3>1
  <2>10. e = 2 => all[e] = ending[1]
    <3>1. e = 2 => e \in 1 .. e + 1 /\ ~(e <= 1) /\ e - 1 = 1
      OBVIOUS
    <3> QED
      BY ONLY <2>7, <3>1
  <2>11. (e + 1) - 1 = e
    BY ONLY <2>6
  <2> QED
    BY ONLY <1>1, <1>3, <2>3, <2>4, <2>5, <2>6, <2>7, <2>8, <2>9, <2>10, <2>11, SMTT(20)
<1> QED
  BY <1>2, <1>3

Gap(k, w) == IF lines[k] = "blank" THEN w ELSE w + 1

Laid(off, w) ==
    /\ w \in {1, 2}
    /\ lines \in Seq(Texts) /\ wire \in Seq(Symbols) /\ missing \in 0 .. w
    /\ missing > 0 => Len(lines) > 0
    /\ off \in [0 .. Len(lines) -> Nat]
    /\ off[0] = 0 /\ off[Len(lines)] = Len(wire) + missing
    /\ \A k \in 1 .. Len(lines) :
          /\ off[k] = off[k - 1] + Gap(k, w)
          /\ lines[k] # "blank" => wire[off[k - 1] + 1] = lines[k]
          /\ off[k] <= Len(wire) => wire[off[k]] = "LF"
          /\ w = 2 /\ off[k] - 1 <= Len(wire) => wire[off[k] - 1] = "CR"

\* What is cut off is part of the last line end.
LEMMA CutLaid ==
    ASSUME NEW ls \in Seq(Texts), NEW ending \in Endings,
           NEW n \in Nat, NEW w \in Nat, NEW cut \in 0 .. w, n = Len(ls), w = Len(ending),
           cut > 0 => n > 0,
           NEW parts, n = Len(parts), \A i \in 1 .. n : parts[i] = Bytes(ls[i], ending),
           NEW all \in Seq(Symbols), NEW off, Layout(parts, all, off),
           lines = ls, missing = cut, wire = SubSeq(all, 1, Len(all) - cut)
    PROVE  Laid(off, w)
<1>1. DOMAIN ls = 1 .. n /\ \A i \in 1 .. n : ls[i] \in Texts
  BY LenProperties, ElementOfSeq
<1>2. w \in {1, 2}
  BY EndingOf
<1>3. \A i \in 1 .. n :
         /\ parts[i] \in Seq(Symbols)
         /\ Len(parts[i]) = IF ls[i] = "blank" THEN w ELSE w + 1
         /\ ls[i] # "blank" => parts[i][1] = ls[i]
         /\ parts[i][Len(parts[i])] = "LF"
         /\ w = 2 => parts[i][Len(parts[i]) - 1] = "CR"
  <2> SUFFICES ASSUME NEW i \in 1 .. n
               PROVE  /\ parts[i] \in Seq(Symbols)
                      /\ Len(parts[i]) = IF ls[i] = "blank" THEN w ELSE w + 1
                      /\ ls[i] # "blank" => parts[i][1] = ls[i]
                      /\ parts[i][Len(parts[i])] = "LF"
                      /\ w = 2 => parts[i][Len(parts[i]) - 1] = "CR"
    OBVIOUS
  <2>1. ls[i] \in Texts /\ parts[i] = Bytes(ls[i], ending)
    BY <1>1
  <2>2. PICK text \in Texts : text = ls[i]
    BY ONLY <2>1
  <2>3. PICK p : p = parts[i] /\ p = Bytes(text, ending)
    BY ONLY <2>1, <2>2
  <2>4. /\ p \in Seq(Symbols)
        /\ Len(p) = IF text = "blank" THEN w ELSE w + 1
        /\ text # "blank" => p[1] = text
        /\ p[Len(p)] = "LF"
        /\ w = 2 => p[Len(p) - 1] = "CR"
    <3>1. /\ Bytes(text, ending) \in Seq(Symbols)
          /\ Len(Bytes(text, ending)) = IF text = "blank" THEN Len(ending) ELSE Len(ending) + 1
          /\ text # "blank" => Bytes(text, ending)[1] = text
          /\ Bytes(text, ending)[Len(Bytes(text, ending))] = "LF"
          /\ Len(ending) = 2 => Bytes(text, ending)[Len(Bytes(text, ending)) - 1] = "CR"
      BY ONLY text \in Texts, ending \in Endings, BytesOf
    <3> QED
      BY ONLY <2>3, <3>1, w = Len(ending)
  <2> QED
    BY ONLY <2>2, <2>3, <2>4
<1>4. PICK size \in Nat : size = Len(all) /\ \A i \in 1 .. size : all[i] \in Symbols
  BY LenProperties, ElementOfSeq
<1>5. /\ off \in [0 .. n -> Nat] /\ off[0] = 0 /\ off[n] = size
      /\ \A k \in 1 .. n :
            /\ off[k] = off[k - 1] + Len(parts[k])
            /\ \A j \in 1 .. Len(parts[k]) : all[off[k - 1] + j] = parts[k][j]
  BY <1>4 DEF Layout
<1>6. \A k \in 1 .. n : /\ off[k] \in Nat /\ off[k - 1] \in Nat
                        /\ off[k] = off[k - 1] + IF ls[k] = "blank" THEN w ELSE w + 1
  <2>1. \A k \in 1 .. n : k \in 0 .. n /\ k - 1 \in 0 .. n
    BY ONLY n \in Nat
  <2> QED
    <3> SUFFICES ASSUME NEW k \in 1 .. n
                 PROVE  /\ off[k] \in Nat /\ off[k - 1] \in Nat
                        /\ off[k] = off[k - 1] + IF ls[k] = "blank" THEN w ELSE w + 1
      OBVIOUS
    <3>1. off[k] \in Nat /\ off[k - 1] \in Nat
      BY ONLY <1>5, <2>1
    <3>2. Len(parts[k]) = (IF ls[k] = "blank" THEN w ELSE w + 1) /\ off[k] = off[k - 1] + Len(parts[k])
      BY ONLY <1>3, <1>5
    <3> QED
      BY ONLY <3>1, <3>2
<1>7. \A k \in 1 .. n : off[k - 1] <= off[k] /\ off[k] >= w
  <2> SUFFICES ASSUME NEW k \in 1 .. n PROVE off[k - 1] <= off[k] /\ off[k] >= w
    OBVIOUS
  <2>1. PICK a \in Nat, b \in Nat : a = off[k - 1] /\ b = off[k]
    BY ONLY <1>6
  <2>2. b = a + IF ls[k] = "blank" THEN w ELSE w + 1
    BY ONLY <1>6, <2>1
  <2>3. a <= b /\ b >= w
    BY ONLY <1>2, <2>2, a \in Nat
  <2> QED
    BY ONLY <2>1, <2>3
<1>8. \A m \in 0 .. n, l \in 0 .. n : l <= m => off[l] <= off[m]
  BY ONLY <1>5, <1>7, n \in Nat, Rising
<1>9. cut <= size
  <2>1. CASE cut = 0
    BY <1>4, <2>1
  <2>2. CASE cut # 0
    <3>1. n \in 1 .. n
      BY <1>2, <2>2
    <3> QED
      BY ONLY <1>2, <1>5, <1>7, <3>1, cut \in 0 .. w
  <2> QED
    BY <2>1, <2>2
<1>10. PICK len \in Nat : len = size - cut
  BY <1>2, <1>9
<1>11. /\ wire \in Seq(Symbols) /\ Len(wire) = len
       /\ \A i \in 1 .. len : wire[i] = all[i]
  <2>1. 1 \in Int /\ len \in Int /\ \A i \in 1 .. len : all[i] \in Symbols
    BY <1>2, <1>4, <1>10
  <2>2. wire = SubSeq(all, 1, len)
    BY <1>4, <1>10
  <2>3. /\ wire \in Seq(Symbols) /\ Len(wire) = (IF 1 <= len THEN len - 1 + 1 ELSE 0)
        /\ \A i \in 1 .. len - 1 + 1 : wire[i] = all[1 + i - 1]
    BY ONLY <2>1, <2>2, SubSeqProperties
  <2>4. len - 1 + 1 = len /\ \A i \in 1 .. len : 1 + i - 1 = i
    BY ONLY <1>10
  <2> QED
    BY ONLY <1>10, <2>3, <2>4
<1>12. ASSUME NEW k \in 1 .. n
       PROVE  /\ off[k] = off[k - 1] + Gap(k, w)
              /\ lines[k] # "blank" => wire[off[k - 1] + 1] = lines[k]
              /\ off[k] <= len => wire[off[k]] = "LF"
              /\ w = 2 /\ off[k] - 1 <= len => wire[off[k] - 1] = "CR"
  <2>1. PICK a \in Nat, b \in Nat, l \in Nat :
            /\ a = off[k - 1] /\ b = off[k] /\ l = Len(parts[k])
            /\ b = a + l /\ l = (IF ls[k] = "blank" THEN w ELSE w + 1)
    <3>1. off[k - 1] \in Nat /\ off[k] \in Nat
      BY ONLY <1>6
    <3>2. Len(parts[k]) = (IF ls[k] = "blank" THEN w ELSE w + 1) /\ off[k] = off[k - 1] + Len(parts[k])
      BY ONLY <1>3, <1>5
    <3>3. Len(parts[k]) \in Nat
      BY ONLY <3>2, <1>2
    <3> QED
      BY ONLY <3>1, <3>2, <3>3
  <2>2. off[k] = off[k - 1] + Gap(k, w)
    BY <2>1 DEF Gap
  <2>3. \A j \in 1 .. l : a + j <= len => wire[a + j] = parts[k][j]
    <3>1. \A j \in 1 .. l : a + j <= len => a + j \in 1 .. len
      BY ONLY <2>1, <1>10, SMTT(20)
    <3> QED
      BY ONLY <1>5, <1>11, <2>1, <3>1
  <2>4. b - w <= len
    <3>1. k \in 0 .. n /\ n \in 0 .. n /\ k <= n
      OBVIOUS
    <3>2. b <= size
      BY ONLY <1>5, <1>8, <2>1, <3>1
    <3> QED
      BY ONLY <1>2, <1>4, <1>10, <2>1, <3>2, cut \in 0 .. w
  <2>5. lines[k] # "blank" => wire[off[k - 1] + 1] = lines[k]
    <3> SUFFICES ASSUME ls[k] # "blank" PROVE wire[a + 1] = ls[k]
      BY <2>1
    <3>1. 1 \in 1 .. l /\ a + 1 <= len
      BY ONLY <1>2, <1>10, <2>1, <2>4, ls[k] # "blank", SMTT(20)
    <3> QED
      BY <1>3, <2>3, <3>1
  <2>6. off[k] <= len => wire[off[k]] = "LF"
    <3>1. l \in 1 .. l /\ a + l = b
      BY ONLY <2>1, <1>2
    <3>2. parts[k][l] = "LF"
      BY ONLY <1>3, <2>1
    <3>3. b <= len => wire[b] = "LF"
      BY ONLY <2>3, <3>1, <3>2
    <3> QED
      BY ONLY <2>1, <3>3
  <2>7. w = 2 /\ off[k] - 1 <= len => wire[off[k] - 1] = "CR"
    <3> SUFFICES ASSUME w = 2, b - 1 <= len PROVE wire[b - 1] = "CR"
      BY <2>1
    <3>1. l - 1 \in 1 .. l /\ a + (l - 1) = b - 1
      BY ONLY <2>1, w = 2
    <3>2. wire[b - 1] = parts[k][l - 1]
      BY ONLY <2>3, <3>1, b - 1 <= len
    <3> QED
      BY <1>3, <2>1, <3>2
  <2> QED
    BY <2>2, <2>5, <2>6, <2>7
<1>13. missing > 0 => Len(lines) > 0
  OBVIOUS
<1>14. off[Len(lines)] = Len(wire) + missing
  BY ONLY <1>2, <1>4, <1>5, <1>10, <1>11, cut \in 0 .. w, n = Len(ls), lines = ls, missing = cut
<1> QED
  BY <1>2, <1>5, <1>11, <1>12, <1>13, <1>14 DEF Laid

\* What arrives of a stream is laid out so.
LEMMA WrittenLaid ==
    ASSUME NEW ls \in Seq(Texts), NEW ending \in Endings, NEW cut \in 0 .. Len(ending),
           cut > 0 => ls # <<>>, NEW who, Arriving(ls, ending, cut, who)
    PROVE  \E off, w : Laid(off, w)
<1>1. PICK n \in Nat, w \in Nat : n = Len(ls) /\ w = Len(ending) /\ DOMAIN ls = 1 .. n
  BY EndingOf, LenProperties
<1>2. PICK parts : parts = [i \in 1 .. n |-> Bytes(ls[i], ending)]
  OBVIOUS
<1>3. parts \in Seq(Seq(Symbols)) /\ Len(parts) = n /\ \A i \in 1 .. n : parts[i] = Bytes(ls[i], ending)
  <2>1. \A i \in 1 .. n : Bytes(ls[i], ending) \in Seq(Symbols)
    BY <1>1, ElementOfSeq, BytesOf
  <2>2. parts \in [1 .. n -> Seq(Symbols)]
    BY <1>2, <2>1
  <2> QED
    BY ONLY <1>2, <2>2, n \in Nat
<1>4. PICK all : all = Written(ls, ending)
  OBVIOUS
<1>5. all = FlattenSeq(parts)
  BY <1>1, <1>2, <1>4 DEF Written, Bytes
<1>6. PICK off : all \in Seq(Symbols) /\ Layout(parts, all, off)
  BY ONLY <1>3, <1>5, FlattenLayout
<1>7. lines = ls /\ missing = cut /\ wire = SubSeq(all, 1, Len(all) - cut)
  BY <1>4 DEF Arriving
<1>8. cut > 0 => n > 0
  BY <1>1, EmptySeq
<1>9. cut \in 0 .. w
  BY <1>1
<1> QED
  BY ONLY ls \in Seq(Texts), ending \in Endings, <1>1, <1>3, <1>6, <1>7, <1>8, <1>9, CutLaid

\* The lines that are whole in what arrives are all but the last one, whose end may be missing.
LEMMA Laying ==
    ASSUME NEW off, NEW w, Laid(off, w)
    PROVE  /\ Len(lines) \in Nat /\ Len(wire) \in Nat
           /\ \A k \in 0 .. Len(lines) : off[k] \in Nat
           /\ \A k \in 1 .. Len(lines) :
                 /\ lines[k] = "blank" => off[k] = off[k - 1] + w
                 /\ lines[k] # "blank" => off[k] = off[k - 1] + w + 1 /\ off[k - 1] + 1 <= Len(wire)
           /\ \A l, m \in 0 .. Len(lines) : l < m => off[l] + w <= off[m]
           /\ \A k \in 0 .. Len(lines) - 1 : off[k] <= Len(wire)
           /\ off[Len(lines)] <= Len(wire) <=> missing = 0
<1>1. /\ w \in {1, 2} /\ missing \in 0 .. w
      /\ off \in [0 .. Len(lines) -> Nat]
      /\ off[0] = 0 /\ off[Len(lines)] = Len(wire) + missing
      /\ \A k \in 1 .. Len(lines) : off[k] = off[k - 1] + Gap(k, w)
  BY DEF Laid
<1>2. PICK n \in Nat, len \in Nat : n = Len(lines) /\ len = Len(wire)
  BY LenProperties DEF Laid
<1>3. \A k \in 1 .. n : k \in 0 .. n /\ k - 1 \in 0 .. n
  BY ONLY n \in Nat
<1>4. \A k \in 0 .. n : off[k] \in Nat
  BY ONLY <1>1, <1>2
<1>5. \A k \in 1 .. n : /\ lines[k] = "blank" => off[k] = off[k - 1] + w
                        /\ lines[k] # "blank" => off[k] = off[k - 1] + (w + 1)
  BY ONLY <1>1, <1>2 DEF Gap
<1>6. \A k \in 1 .. n : off[k - 1] + w <= off[k] /\ off[k - 1] <= off[k]
  <2> SUFFICES ASSUME NEW k \in 1 .. n PROVE off[k - 1] + w <= off[k] /\ off[k - 1] <= off[k]
    OBVIOUS
  <2>1. PICK a \in Nat, b \in Nat : a = off[k - 1] /\ b = off[k]
    BY ONLY <1>3, <1>4, k \in 1 .. n
  <2>2. b = a + w \/ b = a + (w + 1)
    BY ONLY <1>5, <2>1
  <2>3. a + w <= b /\ a <= b
    BY ONLY <1>1, <2>2, a \in Nat
  <2> QED
    BY ONLY <2>1, <2>3
<1>7. \A m \in 0 .. n, l \in 0 .. n : l <= m => off[l] <= off[m]
  BY ONLY <1>1, <1>2, <1>6, Rising
<1>8. ASSUME NEW l \in 0 .. n, NEW m \in 0 .. n, l < m PROVE off[l] + w <= off[m]
  <2>1. m \in 1 .. n /\ m - 1 \in 0 .. n /\ l <= m - 1
    BY ONLY <1>2, l < m
  <2>2. off[l] <= off[m - 1] /\ off[m - 1] + w <= off[m]
    BY ONLY <1>6, <1>7, <2>1
  <2>3. off[l] \in Nat /\ off[m - 1] \in Nat /\ off[m] \in Nat
    BY ONLY <1>4, <2>1
  <2> QED
    BY ONLY <1>1, <2>2, <2>3
<1>9. ASSUME NEW k \in 0 .. n - 1 PROVE off[k] <= len
  <2>1. k \in 0 .. n /\ n \in 0 .. n /\ k < n
    BY ONLY <1>2
  <2>2. off[k] + w <= off[n] /\ off[k] \in Nat /\ off[n] = len + missing
    BY ONLY <1>1, <1>2, <1>4, <1>8, <2>1
  <2> QED
    BY ONLY <1>1, <1>2, <2>2
<1>10. ASSUME NEW k \in 1 .. n, lines[k] # "blank" PROVE off[k - 1] + 1 <= len
  <2>1. off[k] = off[k - 1] + (w + 1) /\ off[k - 1] \in Nat /\ off[k] \in Nat
    BY ONLY <1>3, <1>4, <1>5, <1>10
  <2>2. off[k] <= off[n] /\ off[n] = len + missing
    <3>1. k \in 0 .. n /\ n \in 0 .. n /\ k <= n
      BY ONLY <1>2
    <3> QED
      BY ONLY <1>1, <1>2, <1>7, <3>1
  <2> QED
    BY ONLY <1>1, <1>2, <2>1, <2>2
<1>11. off[n] <= len <=> missing = 0
  BY ONLY <1>1, <1>2
<1>12. \A k \in 1 .. n : off[k - 1] + (w + 1) = off[k - 1] + w + 1
  BY ONLY <1>1, <1>3, <1>4
<1> QED
  BY ONLY <1>2, <1>4, <1>5, <1>8, <1>9, <1>10, <1>11, <1>12

\* What a symbol is for: the text of a line, or part of the end of a line.
LEMMA Places ==
    ASSUME NEW off, NEW w, Laid(off, w), NEW p \in 1 .. Len(wire)
    PROVE  \E k \in 1 .. Len(lines) :
              /\ off[k - 1] < p /\ p <= off[k]
              /\ \/ p = off[k - 1] + 1 /\ lines[k] # "blank" /\ wire[p] = lines[k] /\ p + w = off[k]
                 \/ p = off[k] /\ wire[p] = "LF"
                 \/ w = 2 /\ p + 1 = off[k] /\ wire[p] = "CR"
<1>1. PICK n \in Nat, len \in Nat : n = Len(lines) /\ len = Len(wire)
  BY Laying
<1>2. /\ w \in {1, 2} /\ missing \in 0 .. w
      /\ off \in [0 .. n -> Nat] /\ off[0] = 0 /\ off[n] = len + missing
      /\ \A k \in 1 .. n :
            /\ lines[k] # "blank" => wire[off[k - 1] + 1] = lines[k]
            /\ off[k] <= len => wire[off[k]] = "LF"
            /\ w = 2 /\ off[k] - 1 <= len => wire[off[k] - 1] = "CR"
  BY <1>1 DEF Laid
<1>3. p \in Nat /\ off[0] < p /\ p <= off[n] /\ p <= len
  BY ONLY <1>1, <1>2, p \in 1 .. Len(wire)
<1>4. PICK k \in 1 .. n : off[k - 1] < p /\ p <= off[k]
  BY ONLY <1>1, <1>2, <1>3, Between
<1>5. PICK a \in Nat, b \in Nat : a = off[k - 1] /\ b = off[k]
  BY <1>1, Laying, SMTT(20)
<1>6. /\ lines[k] = "blank" => b = a + w
      /\ lines[k] # "blank" => b = a + w + 1
  BY <1>1, <1>5, Laying
<1>7. \/ p = b
      \/ w = 2 /\ p + 1 = b
      \/ lines[k] # "blank" /\ p = a + 1 /\ p + w = b
  <2>1. a < p /\ p <= b
    BY ONLY <1>4, <1>5
  <2>2. CASE lines[k] = "blank"
    <3>1. b = a + w
      BY ONLY <1>6, <2>2
    <3> QED
      BY ONLY <1>2, <2>1, <3>1, a \in Nat, p \in 1 .. Len(wire)
  <2>3. CASE lines[k] # "blank"
    <3>1. b = a + w + 1
      BY ONLY <1>6, <2>3
    <3>2. p \in Nat
      BY ONLY <1>3
    <3> QED
      BY ONLY <1>2, <2>1, <2>3, <3>1, <3>2, a \in Nat
  <2> QED
    BY ONLY <2>2, <2>3
<1>8. p = b => wire[p] = "LF"
  BY ONLY <1>2, <1>3, <1>5
<1>9. w = 2 /\ p + 1 = b => wire[p] = "CR"
  <2> SUFFICES ASSUME w = 2, p + 1 = b PROVE wire[p] = "CR"
    OBVIOUS
  <2>1. b - 1 = p
    BY ONLY <1>3, <1>5, p + 1 = b
  <2> QED
    BY ONLY <1>2, <1>3, <1>5, <2>1, w = 2
<1>10. lines[k] # "blank" /\ p = a + 1 => wire[p] = lines[k]
  BY ONLY <1>2, <1>5
<1> QED
  BY ONLY <1>1, <1>4, <1>5, <1>7, <1>8, <1>9, <1>10

\* The text of a line is behind the end of the one before.
LEMMA TextOf ==
    ASSUME NEW off, NEW w, Laid(off, w), NEW k \in 1 .. Len(lines)
    PROVE  /\ lines[k] \in Texts
           /\ lines[k] # "LF" /\ lines[k] # "CR"
           /\ lines[k] # "blank" => wire[off[k - 1] + 1] = lines[k]
           /\ off[k] <= Len(wire) => wire[off[k]] = "LF"
           /\ w = 2 /\ off[k] - 1 <= Len(wire) => wire[off[k] - 1] = "CR"
<1>1. lines[k] \in Texts
  BY ElementOfSeq DEF Laid
<1> QED
  BY <1>1 DEF Laid, Texts, Contents

\* What the lab reads of the next line: its text, and the end of it that has arrived.
LEMMA LineRead ==
    ASSUME NEW off, NEW w, Laid(off, w), NEW k \in 0 .. Len(lines),
           at = off[k], at < Len(wire)
    PROVE  /\ k + 1 \in 1 .. Len(lines)
           /\ NextLine.content = lines[k + 1]
           /\ \/ NextLine.next = off[k + 1] /\ off[k + 1] <= Len(wire)
              \/ k + 1 = Len(lines) /\ NextLine.next = Len(wire)
<1>1. PICK n \in Nat, len \in Nat : n = Len(lines) /\ len = Len(wire)
  BY Laying
<1>2. w \in {1, 2} /\ missing \in 0 .. w /\ off[n] = len + missing
  BY <1>1 DEF Laid
<1>3. k # n \/ missing = 0
  BY ONLY <1>1, <1>2, at = off[k], at < Len(wire)
<1>4. k # n
  BY ONLY <1>1, <1>2, <1>3, at = off[k], at < Len(wire)
<1>5. PICK m \in 1 .. n : m = k + 1 /\ m - 1 = k
  BY ONLY <1>1, <1>4, k \in 0 .. Len(lines)
<1>6. PICK a \in Nat, b \in Nat : a = off[k] /\ b = off[m]
  BY <1>1, <1>5, Laying
<1>7. /\ lines[m] = "blank" => b = a + w
      /\ lines[m] # "blank" => b = a + w + 1
      /\ b <= len \/ m = n
  <2>1. m = n \/ m \in 0 .. n - 1
    BY ONLY <1>1, <1>5
  <2> QED
    BY <1>1, <1>5, <1>6, <2>1, Laying
<1>8. /\ lines[m] # "LF" /\ lines[m] # "CR"
      /\ lines[m] # "blank" => wire[a + 1] = lines[m]
      /\ b <= len => wire[b] = "LF"
      /\ w = 2 /\ b - 1 <= len => wire[b - 1] = "CR"
  BY <1>1, <1>5, <1>6, TextOf
<1> DEFINE content == IF IsBreak(wire[at + 1]) THEN "blank" ELSE wire[at + 1]
           after   == at + (IF content = "blank" THEN 0 ELSE 1)
           width   == IF after + 2 <= Len(wire) /\ wire[after + 1] = "CR" /\ wire[after + 2] = "LF"
                      THEN 2 ELSE IF after < Len(wire) THEN 1 ELSE 0
<1>9. NextLine = [content |-> content, next |-> after + width]
  BY DEF NextLine
<1>10. at = a /\ a < len
  BY ONLY <1>1, <1>6, at = off[k], at < Len(wire)
<1>11. content = lines[m]
  <2>1. CASE lines[m] = "blank"
    <3>1. CASE w = 1
      BY ONLY <1>7, <1>8, <1>10, <2>1, <3>1, <1>1, a \in Nat DEF IsBreak
    <3>2. CASE w = 2
      <4>1. b - 1 = a + 1 /\ b - 1 <= len
        BY ONLY <1>7, <1>10, <2>1, <3>2, <1>1, a \in Nat
      <4> QED
        BY ONLY <1>8, <1>10, <2>1, <3>2, <4>1 DEF IsBreak
    <3> QED
      BY ONLY <1>2, <3>1, <3>2
  <2>2. CASE lines[m] # "blank"
    BY ONLY <1>8, <1>10, <2>2 DEF IsBreak
  <2> QED
    BY ONLY <2>1, <2>2
<1>12. after = IF lines[m] = "blank" THEN a ELSE a + 1
  BY ONLY <1>10, <1>11, a \in Nat
<1> HIDE DEF content, after
<1>13. PICK c \in Nat : c = after /\ b = c + w /\ c <= len
  BY ONLY <1>1, <1>2, <1>7, <1>10, <1>12, a \in Nat
<1>14. CASE b <= len
  <2>1. CASE w = 1
    <3>1. b = c + 1 /\ wire[c + 1] = "LF" /\ c < len
      BY ONLY <1>1, <1>8, <1>13, <1>14, <2>1
    <3>2. width = 1
      BY ONLY <1>1, <1>13, <3>1
    <3> HIDE DEF width
    <3> QED
      BY ONLY <1>1, <1>5, <1>6, <1>9, <1>11, <1>13, <1>14, <3>1, <3>2
  <2>2. CASE w = 2
    <3>1. b = c + 2 /\ b - 1 = c + 1 /\ b - 1 <= len /\ c + 2 <= len
      BY ONLY <1>1, <1>6, <1>13, <1>14, <2>2
    <3>2. wire[c + 1] = "CR" /\ wire[c + 2] = "LF"
      BY ONLY <1>8, <1>14, <2>2, <3>1
    <3>3. width = 2
      BY ONLY <1>1, <1>13, <3>1, <3>2
    <3> HIDE DEF width
    <3> QED
      BY ONLY <1>1, <1>5, <1>6, <1>9, <1>11, <1>13, <1>14, <3>1, <3>3
  <2> QED
    BY ONLY <1>2, <2>1, <2>2
<1>15. CASE ~(b <= len)
  <2>1. m = n
    BY ONLY <1>7, <1>15
  <2>2. c + width = len
    <3>1. width = IF c < len THEN 1 ELSE 0
      <4>1. ~(c + 2 <= len)
        BY ONLY <1>1, <1>2, <1>13, <1>15
      <4> QED
        BY ONLY <1>1, <1>13, <4>1
    <3> HIDE DEF width
    <3> QED
      BY ONLY <1>1, <1>2, <1>13, <1>15, <3>1
  <2> HIDE DEF width
  <2> QED
    BY ONLY <1>1, <1>5, <1>9, <1>11, <1>13, <2>1, <2>2
<1> QED
  BY ONLY <1>14, <1>15

-----------------------------------------------------------------------------
(***************************************************************************)
(* The blocks of some lines.                                               *)
(***************************************************************************)
\* The last blank line before a line.
LEMMA Greatest ==
    ASSUME NEW m \in Nat, NEW T, T \subseteq 0 .. m, T # {}
    PROVE  \E i \in T : \A j \in T : j <= i
<1> DEFINE U == {d \in Nat : d <= m /\ m - d \in T}
<1>1. U \subseteq Nat /\ U # {}
  <2>1. PICK t \in T : TRUE
    OBVIOUS
  <2>2. t \in Nat /\ t <= m
    BY <2>1
  <2>3. m - t \in Nat /\ m - t <= m /\ m - (m - t) = t
    BY ONLY <2>2, m \in Nat
  <2> QED
    BY <2>1, <2>3
<1>2. PICK d \in U : \A e \in U : d <= e
  <2> HIDE DEF U
  <2> QED
    BY <1>1, Least
<1>3. d \in Nat /\ d <= m /\ m - d \in T
  BY <1>2
<1>4. ASSUME NEW j \in T PROVE j <= m - d
  <2>1. j \in Nat /\ j <= m
    OBVIOUS
  <2>2. m - j \in Nat /\ m - j <= m /\ m - (m - j) = j
    BY ONLY <2>1, m \in Nat
  <2>3. d <= m - j
    BY <1>2, <2>2
  <2> QED
    BY ONLY <1>3, <2>1, <2>3, m \in Nat
<1> QED
  BY <1>3, <1>4

\* The last blank line before a line is before it, and none is between.
LEMMA PriorBlankIs ==
    ASSUME NEW ls, NEW i \in Nat, i > 0
    PROVE  /\ PriorBlank(ls, i) \in 0 .. i - 1
           /\ PriorBlank(ls, i) = 0 \/ ls[PriorBlank(ls, i)] = "blank"
           /\ \A j \in 1 .. i - 1 : ls[j] = "blank" => j <= PriorBlank(ls, i)
<1> DEFINE blanks == {j \in 1 .. i - 1 : ls[j] = "blank"}
           prior == CHOOSE j \in blanks : \A k \in blanks : k <= j
<1>1. PriorBlank(ls, i) = IF blanks = {} THEN 0 ELSE prior
  BY DEF PriorBlank
<1>2. CASE blanks = {}
  <2>1. PriorBlank(ls, i) = 0
    BY <1>1, <1>2
  <2>2. \A j \in 1 .. i - 1 : ls[j] # "blank"
    BY <1>2
  <2>3. 0 \in 0 .. i - 1
    OBVIOUS
  <2> QED
    BY ONLY <2>1, <2>2, <2>3
<1>3. CASE blanks # {}
  <2>1. \E j \in blanks : \A k \in blanks : k <= j
    <3>1. i - 1 \in Nat /\ blanks \subseteq 0 .. i - 1
      OBVIOUS
    <3> HIDE DEF blanks
    <3> QED
      BY ONLY <1>3, <3>1, Greatest
  <2>2. prior \in blanks /\ \A k \in blanks : k <= prior
    <3> HIDE DEF blanks
    <3> QED
      BY <2>1
  <2>3. PriorBlank(ls, i) = prior
    BY <1>1, <1>3
  <2> HIDE DEF prior
  <2> QED
    BY <2>2, <2>3
<1> QED
  BY <1>2, <1>3

\* No data is before the first line.
LEMMA DataFirst ==
    ASSUME NEW ls
    PROVE  DataBefore(ls, 1) = {}
<1>1. PICK q \in 0 .. 1 - 1 : q = PriorBlank(ls, 1)
  <2>1. 1 \in Nat /\ 1 > 0
    OBVIOUS
  <2> QED
    BY ONLY <2>1, PriorBlankIs
<1>2. DataBefore(ls, 1) = {j \in q + 1 .. 1 - 1 : IsData(ls[j])}
  BY <1>1 DEF DataBefore
<1>3. q + 1 .. 1 - 1 = {}
  OBVIOUS
<1> QED
  BY ONLY <1>2, <1>3

\* The lines of data before line i since a line b that is blank: between them only the
\* line after b may be blank.
LEMMA DataSince ==
    ASSUME NEW ls, NEW b \in Nat, NEW i \in Nat, b < i, b = 0 \/ ls[b] = "blank",
           \A j \in b + 2 .. i - 1 : ls[j] # "blank"
    PROVE  DataBefore(ls, i) = {j \in b + 1 .. i - 1 : IsData(ls[j])}
<1>1. PICK q \in 0 .. i - 1 :
          /\ q = PriorBlank(ls, i)
          /\ q = 0 \/ ls[q] = "blank"
          /\ \A j \in 1 .. i - 1 : ls[j] = "blank" => j <= q
  BY PriorBlankIs
<1>2. b <= q
  <2>1. b = 0 \/ b \in 1 .. i - 1
    BY ONLY b \in Nat, i \in Nat, b < i
  <2> QED
    BY ONLY <1>1, <2>1, b = 0 \/ ls[b] = "blank", i \in Nat, b \in Nat
<1>3. q = b \/ (q = b + 1 /\ ls[b + 1] = "blank")
  <2>1. CASE q = 0
    BY ONLY <1>2, <2>1, b \in Nat
  <2>2. CASE q # 0
    <3>1. ~(q \in b + 2 .. i - 1)
      BY ONLY <1>1, <2>2, \A j \in b + 2 .. i - 1 : ls[j] # "blank"
    <3>2. q = b \/ q = b + 1
      BY ONLY <1>2, <3>1, b \in Nat, i \in Nat, q \in 0 .. i - 1
    <3> QED
      BY ONLY <1>1, <2>2, <3>2
  <2> QED
    BY ONLY <2>1, <2>2
<1>4. DataBefore(ls, i) = {j \in q + 1 .. i - 1 : IsData(ls[j])}
  BY <1>1 DEF DataBefore
<1>5. CASE q = b
  BY ONLY <1>4, <1>5
<1>6. CASE q = b + 1 /\ ls[b + 1] = "blank"
  <2>1. ~IsData(ls[b + 1])
    BY ONLY <1>6 DEF IsData
  <2>2. \A j : j \in b + 1 .. i - 1 /\ IsData(ls[j]) <=> j \in q + 1 .. i - 1 /\ IsData(ls[j])
    <3>1. ASSUME NEW j, IsData(ls[j]) PROVE j \in b + 1 .. i - 1 <=> j \in q + 1 .. i - 1
      <4>1. j # b + 1
        BY ONLY <2>1, <3>1
      <4> QED
        BY ONLY <4>1, <1>6, b \in Nat, i \in Nat
    <3> QED
      BY ONLY <3>1
  <2> QED
    BY ONLY <1>4, <2>2
<1> QED
  BY ONLY <1>3, <1>5, <1>6

\* A line later: one more line of data, or none when the line was blank.
LEMMA DataNext ==
    ASSUME NEW ls, NEW i \in Nat, i > 0
    PROVE  /\ ls[i] = "blank" => DataBefore(ls, i + 1) = {}
           /\ ls[i] # "blank" => DataBefore(ls, i + 1) =
                 DataBefore(ls, i) \cup (IF IsData(ls[i]) THEN {i} ELSE {})
<1>1. CASE ls[i] = "blank"
  <2>1. i < i + 1 /\ i + 1 \in Nat /\ \A j \in i + 2 .. (i + 1) - 1 : ls[j] # "blank"
    OBVIOUS
  <2>2. DataBefore(ls, i + 1) = {j \in i + 1 .. (i + 1) - 1 : IsData(ls[j])}
    BY ONLY <1>1, <2>1, i \in Nat, DataSince
  <2>3. i + 1 .. (i + 1) - 1 = {}
    OBVIOUS
  <2> QED
    BY ONLY <1>1, <2>2, <2>3
<1>2. CASE ls[i] # "blank"
  <2>1. PICK q \in 0 .. i - 1 :
            /\ q = PriorBlank(ls, i)
            /\ q = 0 \/ ls[q] = "blank"
            /\ \A j \in 1 .. i - 1 : ls[j] = "blank" => j <= q
    BY PriorBlankIs
  <2>2. q \in Nat /\ q < i /\ q < i + 1 /\ i + 1 \in Nat
    BY ONLY i \in Nat, <2>1
  <2>3. \A j \in q + 2 .. (i + 1) - 1 : ls[j] # "blank"
    <3> SUFFICES ASSUME NEW j \in q + 2 .. (i + 1) - 1, ls[j] = "blank" PROVE FALSE
      OBVIOUS
    <3>1. j \in Nat /\ (j = i \/ j \in 1 .. i - 1) /\ ~(j <= q)
      BY ONLY i \in Nat, <2>2, j \in q + 2 .. (i + 1) - 1
    <3> QED
      BY <1>2, <2>1, <3>1
  <2>4. DataBefore(ls, i + 1) = {j \in q + 1 .. (i + 1) - 1 : IsData(ls[j])}
    BY ONLY <2>1, <2>2, <2>3, DataSince
  <2>5. DataBefore(ls, i) = {j \in q + 1 .. i - 1 : IsData(ls[j])}
    BY <2>1 DEF DataBefore
  <2>6. q + 1 .. (i + 1) - 1 = (q + 1 .. i - 1) \cup {i}
    BY ONLY i \in Nat, <2>2
  <2> QED
    BY ONLY <1>2, <2>4, <2>5, <2>6
<1> QED
  BY ONLY <1>1, <1>2

\* Part of a sequence, element by element.
LEMMA Slice ==
    ASSUME NEW S, NEW s \in Seq(S), NEW a \in Nat, NEW e \in Nat, a <= e, e <= Len(s)
    PROVE  /\ SubSeq(s, a + 1, e) \in Seq(S) /\ Len(SubSeq(s, a + 1, e)) = e - a
           /\ \A i \in 1 .. e - a : SubSeq(s, a + 1, e)[i] = s[a + i]
<1>1. Len(s) \in Nat /\ \A i \in 1 .. Len(s) : s[i] \in S
  BY LenProperties, ElementOfSeq
<1>2. a + 1 \in Int /\ e \in Int /\ \A i \in a + 1 .. e : s[i] \in S
  BY <1>1
<1>3. PICK t : t = SubSeq(s, a + 1, e)
  OBVIOUS
<1>4. /\ t \in Seq(S) /\ Len(t) = IF a + 1 <= e THEN e - (a + 1) + 1 ELSE 0
      /\ \A i \in 1 .. e - (a + 1) + 1 : t[i] = s[a + 1 + i - 1]
  BY ONLY <1>2, <1>3, SubSeqProperties
<1>5. e - (a + 1) + 1 = e - a /\ \A i \in 1 .. e - a : a + 1 + i - 1 = a + i
  OBVIOUS
<1>6. Len(t) = e - a
  BY ONLY <1>4, <1>5, a \in Nat, e \in Nat, a <= e
<1> QED
  BY ONLY <1>3, <1>4, <1>5, <1>6

\* The shorter of two beginnings is the beginning of the other.
LEMMA SlicePrefix ==
    ASSUME NEW S, NEW s \in Seq(S), NEW c \in Nat, NEW e \in Nat, c <= e, e <= Len(s)
    PROVE  IsPrefix(SubSeq(s, 1, c), SubSeq(s, 1, e))
<1>1. PICK len \in Nat : len = Len(s)
  BY LenProperties
<1>2. PICK t : t = SubSeq(s, 1, c)
  OBVIOUS
<1>3. PICK u : u = SubSeq(s, 1, e)
  OBVIOUS
<1>4. t \in Seq(S) /\ Len(t) = c /\ \A i \in 1 .. c : t[i] = s[i]
  <2>1. 0 + 1 = 1 /\ c - 0 = c /\ 0 <= c /\ c <= Len(s) /\ 0 \in Nat /\ \A i \in 1 .. c : 0 + i = i
    BY <1>1
  <2> QED
    BY ONLY <1>2, <2>1, s \in Seq(S), c \in Nat, Slice
<1>5. u \in Seq(S) /\ Len(u) = e /\ \A i \in 1 .. e : u[i] = s[i]
  <2>1. 0 + 1 = 1 /\ e - 0 = e /\ 0 <= e /\ e <= Len(s) /\ 0 \in Nat /\ \A i \in 1 .. e : 0 + i = i
    BY <1>1
  <2> QED
    BY ONLY <1>3, <2>1, s \in Seq(S), e \in Nat, Slice
<1>6. PICK v : v = SubSeq(u, 1, c)
  OBVIOUS
<1>7. v \in Seq(S) /\ Len(v) = c /\ \A i \in 1 .. c : v[i] = u[i]
  <2>1. 0 + 1 = 1 /\ c - 0 = c /\ 0 <= c /\ c <= Len(u) /\ 0 \in Nat /\ \A i \in 1 .. c : 0 + i = i
    BY ONLY <1>5, c <= e, c \in Nat
  <2> QED
    BY ONLY <1>5, <1>6, <2>1, c \in Nat, Slice
<1>8. \A i \in 1 .. c : i \in 1 .. e
  BY ONLY c \in Nat, e \in Nat, c <= e
<1>9. v = t
  BY ONLY <1>4, <1>5, <1>7, <1>8, SeqEqual
<1>10. SubSeq(t, 1, Len(t)) = t
  BY ONLY <1>4, SubSeqFull
<1> QED
  BY ONLY <1>2, <1>3, <1>4, <1>5, <1>6, <1>9, <1>10, c <= e DEF IsPrefix

\* No position between: as many up to one as up to the other.
LEMMA UptoSame ==
    ASSUME NEW I, NEW b \in Nat, NEW i \in Nat, b <= i, I \subseteq Nat,
           \A j \in I : ~(b < j /\ j <= i)
    PROVE  Upto(I, i) = Upto(I, b)
<1>1. \A j \in I : j <= i <=> j <= b
  OBVIOUS
<1> QED
  BY <1>1 DEF Upto

\* The next position is one more.
LEMMA UptoNext ==
    ASSUME NEW len \in Nat, NEW I, I \subseteq 1 .. len, NEW b \in Nat, NEW i \in I, b < i,
           \A j \in I : ~(b < j /\ j < i)
    PROVE  Cardinality(Upto(I, b)) \in Nat /\ Cardinality(Upto(I, i)) = Cardinality(Upto(I, b)) + 1
<1>1. IsFiniteSet(Upto(I, b))
  <2>1. IsFiniteSet(1 .. len)
    BY FS_Interval
  <2>2. Upto(I, b) \in SUBSET (1 .. len)
    BY DEF Upto
  <2> QED
    BY <2>1, <2>2, FS_Subset
<1>2. i \notin Upto(I, b)
  BY DEF Upto
<1>3. Upto(I, i) = Upto(I, b) \cup {i}
  <2>1. \A j \in I : j <= i <=> j <= b \/ j = i
    OBVIOUS
  <2> QED
    BY <2>1 DEF Upto
<1> QED
  BY <1>1, <1>2, <1>3, FS_AddElement, FS_CardinalityType

\* All positions are up to the last.
LEMMA UptoAll ==
    ASSUME NEW len \in Nat, NEW I, I \subseteq 1 .. len, NEW b \in Nat, \A j \in I : j <= b
    PROVE  Upto(I, b) = I
BY DEF Upto

\* No position is up to 0.
LEMMA UptoNone ==
    ASSUME NEW len \in Nat, NEW I, I \subseteq 1 .. len
    PROVE  Cardinality(Upto(I, 0)) = 0
<1>1. \A j \in I : ~(j <= 0)
  OBVIOUS
<1>2. Upto(I, 0) = {}
  BY <1>1 DEF Upto
<1> QED
  BY <1>2, FS_EmptySet

\* Of all positions so many at most are up to one.
LEMMA UptoCount ==
    ASSUME NEW len \in Nat, NEW I, I \subseteq 1 .. len, NEW b \in Nat
    PROVE  /\ Cardinality(I) \in Nat /\ Cardinality(Upto(I, b)) \in Nat
           /\ Cardinality(Upto(I, b)) <= Cardinality(I)
<1>1. IsFiniteSet(I)
  <2>1. IsFiniteSet(1 .. len) /\ I \in SUBSET (1 .. len)
    BY FS_Interval
  <2> QED
    BY <2>1, FS_Subset
<1>2. Upto(I, b) \in SUBSET I
  BY DEF Upto
<1> QED
  BY <1>1, <1>2, FS_Subset, FS_CardinalityType

\* The blocks of some lines: one for each line that closes one, and it has data.
LEMMA BlocksAre ==
    ASSUME NEW S, NEW ls \in Seq(S)
    PROVE  /\ Len(ls) \in Nat /\ Closers(ls) \subseteq 1 .. Len(ls)
           /\ Cardinality(Closers(ls)) \in Nat
           /\ Blocks(ls) \in Seq(Seq(S)) /\ Len(Blocks(ls)) = Cardinality(Closers(ls))
           /\ \A i \in Closers(ls) :
                 /\ Cardinality(Upto(Closers(ls), i)) \in 1 .. Cardinality(Closers(ls))
                 /\ Blocks(ls)[Cardinality(Upto(Closers(ls), i))] = RowsAt(ls, DataBefore(ls, i))
                 /\ DataBefore(ls, i) \subseteq DOMAIN ls
                 /\ RowsAt(ls, DataBefore(ls, i)) # <<>>
<1>1. PICK n \in Nat : n = Len(ls) /\ DOMAIN ls = 1 .. n
  BY LenProperties
<1>2. PICK I : I = Closers(ls)
  OBVIOUS
<1>3. I \subseteq 1 .. n /\ \A i \in I : DataBefore(ls, i) # {}
  BY <1>1, <1>2 DEF Closers
<1>4. PICK size \in Nat : size = Cardinality(I)
  BY <1>3, NthPosition
<1>5. \A m \in 1 .. size : Nth(I, m) \in I
  BY <1>3, <1>4, NthPosition
<1>6. ASSUME NEW i \in I
      PROVE  /\ Cardinality(Upto(I, i)) \in 1 .. size /\ Nth(I, Cardinality(Upto(I, i))) = i
             /\ DataBefore(ls, i) \subseteq DOMAIN ls
  <2>1. Cardinality(Upto(I, i)) \in 1 .. size /\ Nth(I, Cardinality(Upto(I, i))) = i
    BY ONLY <1>3, <1>4, <1>6, n \in Nat, NthOf
  <2>2. PICK q \in Nat : q = PriorBlank(ls, i)
    <3>1. i \in Nat /\ i > 0
      BY <1>3
    <3> QED
      BY <3>1, PriorBlankIs
  <2>3. DataBefore(ls, i) = {j \in q + 1 .. i - 1 : IsData(ls[j])}
    BY <2>2 DEF DataBefore
  <2>4. i \in 1 .. n
    BY <1>3
  <2>5. q + 1 .. i - 1 \subseteq 1 .. n
    BY ONLY <2>2, <2>4, n \in Nat
  <2> QED
    BY <1>1, <2>1, <2>3, <2>5
<1>7. ASSUME NEW i \in I PROVE RowsAt(ls, DataBefore(ls, i)) \in Seq(S) /\ RowsAt(ls, DataBefore(ls, i)) # <<>>
  BY <1>3, <1>6, RowsAtPart, RowsOfNone
<1>8. Blocks(ls) = [m \in 1 .. size |-> RowsAt(ls, DataBefore(ls, Nth(I, m)))]
  BY <1>2, <1>4 DEF Blocks
<1>9. Blocks(ls) \in Seq(Seq(S)) /\ Len(Blocks(ls)) = size
  <2>1. Blocks(ls) \in [1 .. size -> Seq(S)]
    BY <1>5, <1>7, <1>8
  <2> QED
    BY ONLY <1>8, <2>1, size \in Nat
<1>10. \A i \in I : Blocks(ls)[Cardinality(Upto(I, i))] = RowsAt(ls, DataBefore(ls, i))
  BY ONLY <1>6, <1>8
<1> QED
  BY ONLY <1>1, <1>2, <1>3, <1>4, <1>6, <1>7, <1>9, <1>10

\* What the first blocks say once they are events, and the next one is none or there is none.
LEMMA EventsFrom ==
    ASSUME NEW S, NEW ls, Blocks(ls) \in Seq(S),
           NEW c \in Nat, c <= Len(Blocks(ls)), \A i \in 1 .. c : Parses(Blocks(ls)[i])
    PROVE  /\ IsPrefix(SubSeq(Blocks(ls), 1, c), Events(ls))
           /\ c = Len(Blocks(ls)) =>
                 Events(ls) = SubSeq(Blocks(ls), 1, c) /\ Stop(ls) = <<>>
           /\ c < Len(Blocks(ls)) /\ ~Parses(Blocks(ls)[c + 1]) =>
                 Events(ls) = SubSeq(Blocks(ls), 1, c) /\ Stop(ls) = Blocks(ls)[c + 1]
<1>1. PICK B \in Seq(S) : B = Blocks(ls)
  OBVIOUS
<1>2. PICK size \in Nat : size = Len(B) /\ DOMAIN B = 1 .. size
  BY LenProperties
<1> DEFINE ends == {i \in 1 .. size : ~Parses(B[i])}
           first == CHOOSE i \in ends : \A j \in ends : i <= j
<1>3. Events(ls) = IF ends = {} THEN B ELSE SubSeq(B, 1, first - 1)
  BY ONLY <1>1, <1>2 DEF Events
<1>4. \E e \in Nat : /\ Events(ls) = SubSeq(B, 1, e) /\ c <= e /\ e <= size
                     /\ e = size \/ ~Parses(B[e + 1])
                     /\ \A i \in 1 .. e : Parses(B[i])
  <2>1. CASE ends = {}
    <3>1. Events(ls) = SubSeq(B, 1, size)
      BY ONLY <1>2, <1>3, <2>1, B \in Seq(S), SubSeqFull
    <3>2. \A i \in 1 .. size : Parses(B[i])
      BY <2>1
    <3> QED
      BY ONLY <1>1, <1>2, <3>1, <3>2, c <= Len(Blocks(ls))
  <2>2. CASE ends # {}
    <3>1. first \in ends /\ \A j \in ends : first <= j
      <4>1. \E i \in ends : \A j \in ends : i <= j
        <5>1. ends \subseteq Nat
          OBVIOUS
        <5> HIDE DEF ends
        <5> QED
          BY ONLY <2>2, <5>1, Least
      <4> HIDE DEF ends
      <4> QED
        BY <4>1
    <3>2. Events(ls) = SubSeq(B, 1, first - 1)
      BY <1>3, <2>2
    <3> HIDE DEF first
    <3>3. PICK m \in 1 .. size : m = first /\ ~Parses(B[m])
      BY <3>1
    <3>4. \A i \in 1 .. size : ~Parses(B[i]) => m <= i
      BY <3>1, <3>3
    <3>5. PICK e \in Nat : e = m - 1 /\ e + 1 = m /\ e <= size
      BY ONLY size \in Nat, m \in 1 .. size
    <3>6. \A i \in 1 .. e : i \in 1 .. size /\ ~(m <= i)
      BY ONLY size \in Nat, m \in 1 .. size, <3>5
    <3>7. \A i \in 1 .. e : Parses(B[i])
      BY ONLY <3>4, <3>6
    <3>8. c <= e
      <4>1. ~(m \in 1 .. c)
        BY ONLY <1>1, <3>3, \A i \in 1 .. c : Parses(Blocks(ls)[i])
      <4> QED
        BY ONLY <3>5, <4>1, c \in Nat, m \in 1 .. size
    <3> QED
      BY ONLY <3>2, <3>3, <3>5, <3>7, <3>8
  <2> QED
    BY ONLY <2>1, <2>2
<1> HIDE DEF ends, first
<1>5. PICK e \in Nat : /\ Events(ls) = SubSeq(B, 1, e) /\ c <= e /\ e <= size
                       /\ e = size \/ ~Parses(B[e + 1])
                       /\ \A i \in 1 .. e : Parses(B[i])
  BY ONLY <1>4
<1>6. IsPrefix(SubSeq(B, 1, c), SubSeq(B, 1, e))
  BY ONLY <1>2, <1>5, B \in Seq(S), c \in Nat, SlicePrefix
<1>7. Len(Events(ls)) = e
  <2>1. 0 + 1 = 1 /\ e - 0 = e /\ 0 <= e /\ 0 \in Nat
    OBVIOUS
  <2> QED
    BY ONLY <1>2, <1>5, <2>1, B \in Seq(S), Slice
<1>8. Stop(ls) = IF e + 1 \in 1 .. size THEN B[e + 1] ELSE <<>>
  BY ONLY <1>1, <1>2, <1>7 DEF Stop
<1>9. CASE c = size
  <2>1. e = c /\ ~(e + 1 \in 1 .. size)
    BY ONLY <1>5, <1>9, c \in Nat, size \in Nat
  <2> QED
    BY ONLY <1>1, <1>2, <1>5, <1>6, <1>8, <1>9, <2>1, size \in Nat
<1>10. CASE c < size /\ ~Parses(B[c + 1])
  <2>1. ~(c + 1 \in 1 .. e)
    BY ONLY <1>5, <1>10
  <2>2. e = c /\ e + 1 \in 1 .. size
    BY ONLY <1>5, <1>10, <2>1, c \in Nat, size \in Nat
  <2> QED
    BY ONLY <1>1, <1>2, <1>5, <1>6, <1>8, <1>10, <2>2, size \in Nat, c \in Nat
<1>11. CASE ~(c = size) /\ ~(c < size /\ ~Parses(B[c + 1]))
  BY ONLY <1>1, <1>2, <1>5, <1>6, <1>11
<1> QED
  BY ONLY <1>9, <1>10, <1>11

\* What is yielded once the lines up to k are read.
Yielded(evs, ls, k) ==
    /\ evs = SubSeq(Blocks(ls), 1, Cardinality(Upto(Closers(ls), k)))
    /\ \A i \in 1 .. Cardinality(Upto(Closers(ls), k)) : Parses(Blocks(ls)[i])

\* A reader that is done with those lines.
Final(evs, out, ls) ==
    /\ evs = Events(ls)
    /\ out = IF Stop(ls) \in {<<>>, <<"[DONE]">>} THEN "ended" ELSE "raised"

\* What is yielded is the beginning of the events.
LEMMA YieldedPrefix ==
    ASSUME NEW S, NEW ls \in Seq(S), NEW k \in Nat, NEW evs, Yielded(evs, ls, k)
    PROVE  IsPrefix(evs, Events(ls))
<1>1. PICK c \in Nat : c = Cardinality(Upto(Closers(ls), k)) /\ c <= Len(Blocks(ls))
  BY BlocksAre, UptoCount
<1>2. Blocks(ls) \in Seq(Seq(S))
  BY BlocksAre
<1>3. evs = SubSeq(Blocks(ls), 1, c) /\ \A i \in 1 .. c : Parses(Blocks(ls)[i])
  BY <1>1 DEF Yielded
<1> QED
  BY ONLY <1>1, <1>2, <1>3, EventsFrom

\* Nothing is yielded before the first line.
LEMMA YieldedNone ==
    ASSUME NEW S, NEW ls \in Seq(S)
    PROVE  Yielded(<<>>, ls, 0)
<1>1. Cardinality(Upto(Closers(ls), 0)) = 0
  BY BlocksAre, UptoNone
<1>2. SubSeq(Blocks(ls), 1, 0) = <<>>
  BY SubSeqEmpty
<1> QED
  BY <1>1, <1>2 DEF Yielded

\* No line between closes a block.
LEMMA YieldedSame ==
    ASSUME NEW S, NEW ls \in Seq(S), NEW b \in Nat, NEW i \in Nat, b <= i,
           \A j \in Closers(ls) : ~(b < j /\ j <= i), NEW evs, Yielded(evs, ls, b)
    PROVE  Yielded(evs, ls, i)
<1>1. Closers(ls) \subseteq Nat
  <2>1. Len(ls) \in Nat /\ Closers(ls) \subseteq 1 .. Len(ls)
    BY BlocksAre
  <2> QED
    BY <2>1
<1>2. Upto(Closers(ls), i) = Upto(Closers(ls), b)
  BY <1>1, UptoSame
<1> QED
  BY <1>2 DEF Yielded

\* No line after closes a block: all the events are yielded.
LEMMA YieldedAll ==
    ASSUME NEW S, NEW ls \in Seq(S), NEW b \in Nat, \A j \in Closers(ls) : j <= b,
           NEW evs, Yielded(evs, ls, b)
    PROVE  evs = Events(ls) /\ Stop(ls) = <<>>
<1>1. Upto(Closers(ls), b) = Closers(ls)
  BY BlocksAre, UptoAll
<1>2. /\ Blocks(ls) \in Seq(Seq(S)) /\ Len(Blocks(ls)) = Cardinality(Closers(ls))
      /\ Cardinality(Closers(ls)) \in Nat
  BY BlocksAre
<1>3. PICK c \in Nat : c = Cardinality(Closers(ls)) /\ c = Len(Blocks(ls)) /\ c <= Len(Blocks(ls))
  BY <1>2
<1>4. evs = SubSeq(Blocks(ls), 1, c) /\ \A i \in 1 .. c : Parses(Blocks(ls)[i])
  BY ONLY <1>1, <1>3, Yielded(evs, ls, b) DEF Yielded
<1> QED
  BY ONLY <1>2, <1>3, <1>4, EventsFrom

\* [DONE] is no value, and not nothing.
LEMMA DoneIsNoValue == ~Parses(<<"[DONE]">>) /\ <<"[DONE]">> # <<>>
<1>1. <<"[DONE]">>[1] # <<"one">>[1] /\ <<"[DONE]">>[1] # <<"two">>[1]
  OBVIOUS
<1>2. <<"[DONE]">> # <<"one">> /\ <<"[DONE]">> # <<"two">>
  BY <1>1, Zenon
<1>3. <<"[DONE]">> # <<>>
  <2>1. Len(<<"[DONE]">>) = 1 /\ Len(<<>>) = 0
    OBVIOUS
  <2> QED
    BY <2>1
<1> QED
  BY <1>2, <1>3 DEF Parses

\* The next line that closes a block.
LEMMA Dispatched ==
    ASSUME NEW S, NEW ls \in Seq(S), NEW b \in Nat, NEW i \in Closers(ls), b < i,
           \A j \in Closers(ls) : ~(b < j /\ j < i), NEW evs, Yielded(evs, ls, b),
           NEW data, data = RowsAt(ls, DataBefore(ls, i))
    PROVE  /\ data # <<>>
           /\ Parses(data) => Yielded(Append(evs, data), ls, i)
           /\ ~Parses(data) => evs = Events(ls) /\ Stop(ls) = data
<1>1. PICK len \in Nat : len = Len(ls) /\ Closers(ls) \subseteq 1 .. len
  BY BlocksAre
<1>2. PICK c \in Nat : c = Cardinality(Upto(Closers(ls), b)) /\ Cardinality(Upto(Closers(ls), i)) = c + 1
  BY ONLY <1>1, b \in Nat, i \in Closers(ls), b < i, \A j \in Closers(ls) : ~(b < j /\ j < i), UptoNext
<1>3. PICK B \in Seq(Seq(S)) : B = Blocks(ls)
  BY BlocksAre
<1>4. c + 1 \in 1 .. Len(B) /\ Len(B) \in Nat /\ B[c + 1] = data /\ data # <<>>
  <2>1. /\ Cardinality(Upto(Closers(ls), i)) \in 1 .. Cardinality(Closers(ls))
        /\ Blocks(ls)[Cardinality(Upto(Closers(ls), i))] = RowsAt(ls, DataBefore(ls, i))
        /\ RowsAt(ls, DataBefore(ls, i)) # <<>>
        /\ Len(Blocks(ls)) = Cardinality(Closers(ls))
        /\ Cardinality(Closers(ls)) \in Nat
    BY BlocksAre
  <2> QED
    BY ONLY <1>2, <1>3, <2>1, data = RowsAt(ls, DataBefore(ls, i))
<1>5. evs = SubSeq(B, 1, c) /\ \A n \in 1 .. c : Parses(B[n])
  BY ONLY <1>2, <1>3, Yielded(evs, ls, b) DEF Yielded
<1>6. ASSUME Parses(data) PROVE Yielded(Append(evs, data), ls, i)
  <2>1. evs \in Seq(Seq(S)) /\ data \in Seq(S)
    <3>1. 0 + 1 = 1 /\ 0 <= c /\ c <= Len(B) /\ 0 \in Nat
      BY ONLY <1>4, c \in Nat
    <3>2. evs \in Seq(Seq(S))
      BY ONLY <1>5, <3>1, B \in Seq(Seq(S)), c \in Nat, Slice
    <3> QED
      BY ONLY <1>4, <3>2, B \in Seq(Seq(S)), ElementOfSeq
  <2>2. Append(evs, data) = evs \o <<B[c + 1]>>
    BY ONLY <1>4, <2>1, AppendIsConcat
  <2>3. SubSeq(B, 1, c + 1) = SubSeq(B, 1, c) \o <<B[c + 1]>>
    <3>1. PICK d \in 1 .. Len(B) : d = c + 1 /\ d - 1 = c
      BY ONLY <1>4, c \in Nat
    <3>2. 1 \in 1 .. Len(B) /\ d \in 1 .. Len(B)
      BY ONLY <1>4, <3>1
    <3>3. SubSeq(B, 1, d) = SubSeq(B, 1, d - 1) \o <<B[d]>>
      BY ONLY <3>2, B \in Seq(Seq(S)), SubSeqRecursiveSecond
    <3> QED
      BY ONLY <3>1, <3>3
  <2>4. \A n \in 1 .. c + 1 : Parses(B[n])
    <3>1. \A n \in 1 .. c + 1 : n = c + 1 \/ n \in 1 .. c
      BY ONLY c \in Nat
    <3> QED
      BY ONLY <1>4, <1>5, <1>6, <3>1
  <2> QED
    BY ONLY <1>2, <1>3, <1>5, <2>2, <2>3, <2>4 DEF Yielded
<1>7. ASSUME ~Parses(data) PROVE evs = Events(ls) /\ Stop(ls) = data
  <2>1. c <= Len(B) /\ c < Len(B)
    BY ONLY <1>4, c \in Nat
  <2>2. /\ Blocks(ls) \in Seq(Seq(S)) /\ c <= Len(Blocks(ls)) /\ c < Len(Blocks(ls))
        /\ \A n \in 1 .. c : Parses(Blocks(ls)[n])
        /\ ~Parses(Blocks(ls)[c + 1])
    BY ONLY <1>3, <1>4, <1>5, <1>7, <2>1
  <2>3. Events(ls) = SubSeq(Blocks(ls), 1, c) /\ Stop(ls) = Blocks(ls)[c + 1]
    BY ONLY <2>2, c \in Nat, EventsFrom
  <2> QED
    BY ONLY <1>3, <1>4, <1>5, <2>3
<1> QED
  BY ONLY <1>4, <1>6, <1>7

-----------------------------------------------------------------------------
(***************************************************************************)
(* The invariant.                                                          *)
(***************************************************************************)
\* The lab has read the first k lines, and holds the data since the last blank one.
LabReads(off) ==
    \E k \in 0 .. Len(lines) :
        /\ at = off[k] \/ (k = Len(lines) /\ at = Len(wire))
        /\ held = RowsAt(Closed, DataBefore(Closed, k + 1))
        /\ Yielded(events, Closed, k)

\* The assistant has taken the blocks up to a blank line b, and holds the bytes since.
AssistantReads(off) ==
    \E b \in 0 .. Len(lines) :
        /\ b = 0 \/ lines[b] = "blank"
        /\ off[b] <= at
        /\ held = SubSeq(wire, off[b] + 1, at)
        /\ Yielded(events, Closed, b)

Reads(off) ==
    /\ outcome = "reading"
    /\ IF reader = "lab" THEN LabReads(off) ELSE AssistantReads(off)

Done ==
    \/ outcome \in {"ended", "raised"} /\ events = Events(Closed) /\ outcome = Verdict
    \/ outcome = "refused" /\ IsPrefix(events, Events(Closed))

FramingInv ==
    /\ reader \in {"lab", "assistant"}
    /\ at \in 0 .. Len(wire)
    /\ \E off, w : Laid(off, w) /\ (Reads(off) \/ Done)

\* The lines a reader can know of: all and a blank one for the lab, and for the
\* assistant those whose end has arrived.
LEMMA ClosedIs ==
    ASSUME NEW off, NEW w, Laid(off, w)
    PROVE  /\ reader = "lab" =>
                 /\ Closed \in Seq(Texts) /\ Len(Closed) = Len(lines) + 1
                 /\ \A k \in 1 .. Len(lines) : Closed[k] = lines[k]
                 /\ Closed[Len(lines) + 1] = "blank"
           /\ reader # "lab" =>
                 /\ Closed \in Seq(Texts) /\ Len(Closed) \in 0 .. Len(lines)
                 /\ \A k \in 0 .. Len(lines) : off[k] <= Len(wire) <=> k <= Len(Closed)
                 /\ \A k \in 1 .. Len(Closed) : Closed[k] = lines[k]
<1>1. lines \in Seq(Texts) /\ Len(lines) \in Nat /\ "blank" \in Texts
  BY LenProperties DEF Laid, Texts, Contents
<1>2. PICK n \in Nat, len \in Nat : n = Len(lines) /\ len = Len(wire)
  BY Laying
<1>3. ASSUME reader = "lab"
      PROVE  /\ Closed \in Seq(Texts) /\ Len(Closed) = Len(lines) + 1
             /\ \A k \in 1 .. Len(lines) : Closed[k] = lines[k]
             /\ Closed[Len(lines) + 1] = "blank"
  <2>1. Closed = Append(lines, "blank")
    BY <1>3 DEF Closed
  <2> QED
    BY ONLY <1>1, <2>1, AppendProperties
<1>4. ASSUME reader # "lab"
      PROVE  /\ Closed \in Seq(Texts) /\ Len(Closed) \in 0 .. Len(lines)
             /\ \A k \in 0 .. Len(lines) : off[k] <= Len(wire) <=> k <= Len(Closed)
             /\ \A k \in 1 .. Len(Closed) : Closed[k] = lines[k]
  <2>1. missing \in Nat /\ (missing > 0 => n > 0)
    BY <1>2 DEF Laid
  <2>2. /\ \A k \in 0 .. n - 1 : off[k] <= len
        /\ off[n] <= len <=> missing = 0
    BY ONLY <1>2, Laid(off, w), Laying
  <2>3. CASE missing > 0
    <3>1. Closed = SubSeq(lines, 1, n - 1)
      BY ONLY <1>2, <1>4, <2>3 DEF Closed
    <3>2. PICK e \in Nat : e = n - 1 /\ e <= Len(lines) /\ e + 1 = n
      BY ONLY <1>2, <2>1, <2>3
    <3>3. Closed \in Seq(Texts) /\ Len(Closed) = e /\ \A k \in 1 .. e : Closed[k] = lines[k]
      <4>1. 0 + 1 = 1 /\ e - 0 = e /\ 0 <= e /\ 0 \in Nat /\ \A k \in 1 .. e : 0 + k = k
        OBVIOUS
      <4> QED
        BY ONLY <1>1, <3>1, <3>2, <4>1, Slice
    <3>4. \A k \in 0 .. n : off[k] <= len <=> k <= e
      <4>1. \A k \in 0 .. n : (k = n /\ ~(k <= e)) \/ (k \in 0 .. n - 1 /\ k <= e)
        BY ONLY <3>2, n \in Nat
      <4>2. missing # 0
        BY ONLY <2>3, <2>1
      <4> QED
        BY ONLY <2>2, <4>1, <4>2
    <3>5. e \in 0 .. n
      BY ONLY <3>2, n \in Nat
    <3> QED
      BY ONLY <1>2, <3>3, <3>4, <3>5
  <2>4. CASE missing = 0
    <3>1. Closed = lines
      BY ONLY <1>4, <2>4 DEF Closed
    <3>2. \A k \in 0 .. n : k <= n /\ (k = n \/ k \in 0 .. n - 1)
      BY ONLY n \in Nat
    <3>3. n \in 0 .. n
      BY ONLY n \in Nat
    <3> QED
      BY ONLY <1>1, <1>2, <2>2, <2>4, <3>1, <3>2, <3>3
  <2> QED
    BY ONLY <2>1, <2>3, <2>4
<1> QED
  BY ONLY <1>3, <1>4

\* It holds when a stream begins, whatever its lines, its ending and its cut.
LEMMA FramingBegun ==
    ASSUME NEW ls \in Seq(Texts), NEW ending \in Endings, NEW cut \in 0 .. Len(ending),
           cut > 0 => ls # <<>>, NEW who \in {"lab", "assistant"}, Arriving(ls, ending, cut, who)
    PROVE  FramingInv
<1>1. PICK off, w : Laid(off, w)
  BY WrittenLaid
<1>2. reader = who /\ at = 0 /\ held = <<>> /\ events = <<>> /\ outcome = "reading"
  BY DEF Arriving
<1>3. Closed \in Seq(Texts)
  BY <1>1, ClosedIs
<1>4. Yielded(events, Closed, 0)
  BY ONLY <1>2, <1>3, YieldedNone
<1>5. PICK n \in Nat, len \in Nat : n = Len(lines) /\ len = Len(wire) /\ 0 \in 0 .. Len(lines)
  BY <1>1, Laying
<1>6. off[0] = 0
  BY <1>1 DEF Laid
<1>7. held = RowsAt(Closed, DataBefore(Closed, 0 + 1))
  <2>1. 0 + 1 = 1
    OBVIOUS
  <2>2. DataBefore(Closed, 0 + 1) = {}
    BY ONLY <2>1, DataFirst
  <2> QED
    BY ONLY <1>2, <1>3, <2>2, RowsOfNone
<1>8. held = SubSeq(wire, off[0] + 1, at)
  <2>1. SubSeq(wire, 1, 0) = <<>>
    BY SubSeqEmpty
  <2> QED
    BY <1>2, <1>6, <2>1
<1>9. LabReads(off)
  BY ONLY <1>2, <1>4, <1>5, <1>6, <1>7 DEF LabReads
<1>10. AssistantReads(off)
  <2>1. off[0] <= at
    BY ONLY <1>2, <1>6
  <2> QED
    BY ONLY <1>4, <1>5, <1>8, <2>1 DEF AssistantReads
<1>11. at \in 0 .. Len(wire)
  BY ONLY <1>2, <1>5
<1> QED
  BY <1>1, <1>2, <1>9, <1>10, <1>11 DEF FramingInv, Reads

\* The invariant holds at first.
LEMMA FramingBegins == FramingInit => FramingInv
<1> SUFFICES ASSUME FramingInit PROVE FramingInv
  OBVIOUS
<1>1. PICK who \in {"lab", "assistant"}, ls \in Whole, ending \in Endings :
          \/ Arriving(ls, ending, 0, who)
          \/ \E cut \in 1 .. Len(ending) : ls # <<>> /\ Arriving(ls, ending, cut, who)
          \/ Arriving(Append(ls, "part"), ending, Len(ending), who)
  BY DEF FramingInit
<1>2. ls \in Seq(Texts) /\ "part" \in Texts
  <2>1. PICK n \in 0 .. MaxLines : ls \in [1 .. n -> Contents]
    BY DEF Whole
  <2>2. n \in Nat /\ ls \in [1 .. n -> Texts]
    <3>1. MaxLines \in Nat
      BY FramingAssumption
    <3>2. Contents \subseteq Texts
      BY DEF Texts
    <3> QED
      BY ONLY <2>1, <3>1, <3>2
  <2> QED
    BY ONLY <2>2 DEF Texts
<1>3. Len(ending) \in Nat /\ Len(ending) \in 0 .. Len(ending) /\ 0 \in 0 .. Len(ending)
  BY EndingOf
<1>4. CASE Arriving(ls, ending, 0, who)
  <2>1. 0 > 0 => ls # <<>>
    OBVIOUS
  <2> QED
    BY ONLY <1>1, <1>2, <1>3, <1>4, <2>1, FramingBegun
<1>5. CASE \E cut \in 1 .. Len(ending) : ls # <<>> /\ Arriving(ls, ending, cut, who)
  <2>1. PICK cut \in 1 .. Len(ending) : ls # <<>> /\ Arriving(ls, ending, cut, who)
    BY <1>5
  <2>2. cut \in 0 .. Len(ending)
    BY <1>3
  <2> QED
    BY ONLY <1>1, <1>2, <2>1, <2>2, FramingBegun
<1>6. CASE Arriving(Append(ls, "part"), ending, Len(ending), who)
  <2>1. Append(ls, "part") \in Seq(Texts) /\ Append(ls, "part") # <<>>
    BY ONLY <1>2, AppendProperties
  <2> QED
    BY ONLY <1>1, <1>3, <1>6, <2>1, FramingBegun
<1> QED
  BY <1>1, <1>4, <1>5, <1>6

-----------------------------------------------------------------------------
(***************************************************************************)
(* The lab.                                                                *)
(***************************************************************************)
\* The next line is the next one of what the stream says, and the data held is before it.
LEMMA LabHolds ==
    ASSUME NEW off, NEW w, Laid(off, w), reader = "lab", NEW k \in 0 .. Len(lines),
           held = RowsAt(Closed, DataBefore(Closed, k + 1))
    PROVE  /\ held = <<>> <=> DataBefore(Closed, k + 1) = {}
           /\ k + 1 \in Closers(Closed) <=> Closed[k + 1] = "blank" /\ held # <<>>
           /\ DataBefore(Closed, k + 1) \subseteq 1 .. k
<1>1. PICK n \in Nat : n = Len(lines) /\ n + 1 = Len(Closed) /\ DOMAIN Closed = 1 .. n + 1
  BY Laying, ClosedIs, LenProperties
<1>2. Closed \in Seq(Texts)
  BY ClosedIs
<1>3. k + 1 \in Nat /\ k + 1 > 0 /\ (k + 1) - 1 = k /\ 1 .. k \subseteq 1 .. n + 1 /\ k + 1 \in 1 .. n + 1
  BY ONLY <1>1, k \in 0 .. Len(lines)
<1>4. PICK q \in 0 .. (k + 1) - 1 : q = PriorBlank(Closed, k + 1)
  BY ONLY <1>3, PriorBlankIs
<1>5. DataBefore(Closed, k + 1) = {j \in q + 1 .. (k + 1) - 1 : IsData(Closed[j])}
  BY <1>4 DEF DataBefore
<1>6. q + 1 .. (k + 1) - 1 \subseteq 1 .. k
  BY ONLY <1>3, <1>4, k \in 0 .. Len(lines)
<1>7. DataBefore(Closed, k + 1) \subseteq 1 .. k
  BY ONLY <1>5, <1>6
<1>8. held = <<>> <=> DataBefore(Closed, k + 1) = {}
  BY ONLY <1>1, <1>2, <1>3, <1>7, RowsOfNone, held = RowsAt(Closed, DataBefore(Closed, k + 1))
<1>9. k + 1 \in Closers(Closed) <=> Closed[k + 1] = "blank" /\ DataBefore(Closed, k + 1) # {}
  BY ONLY <1>1, <1>3 DEF Closers
<1> QED
  BY ONLY <1>7, <1>8, <1>9

\* One line read: the lab is one line further, or done.
LEMMA LineStep ==
    ASSUME NEW off, NEW w, Laid(off, w), reader = "lab", LabReads(off), Line
    PROVE  /\ at' \in 0 .. Len(wire)
           /\ \/ /\ outcome' = "reading"
                 /\ \E k \in 0 .. Len(lines) :
                       /\ at' = off[k] \/ (k = Len(lines) /\ at' = Len(wire))
                       /\ held' = RowsAt(Closed, DataBefore(Closed, k + 1))
                       /\ Yielded(events', Closed, k)
              \/ Final(events', outcome', Closed)
<1>1. PICK n \in Nat, len \in Nat : n = Len(lines) /\ len = Len(wire)
  BY Laying
<1>2. PICK k \in 0 .. n : /\ at = off[k] \/ (k = n /\ at = len)
                          /\ held = RowsAt(Closed, DataBefore(Closed, k + 1))
                          /\ Yielded(events, Closed, k)
  BY <1>1 DEF LabReads
<1>3. at < len /\ at = off[k]
  BY <1>1, <1>2 DEF Line
<1>4. PICK m \in 1 .. n :
          /\ m = k + 1
          /\ NextLine.content = lines[m]
          /\ NextLine.next = off[m] \/ (m = n /\ NextLine.next = len)
          /\ NextLine.next \in 0 .. len
  <2>1. /\ k + 1 \in 1 .. Len(lines)
        /\ NextLine.content = lines[k + 1]
        /\ \/ NextLine.next = off[k + 1] /\ off[k + 1] <= Len(wire)
           \/ k + 1 = Len(lines) /\ NextLine.next = Len(wire)
    BY ONLY <1>1, <1>2, <1>3, Laid(off, w), LineRead
  <2>2. off[k + 1] \in Nat
    BY <1>1, <2>1, Laying
  <2> QED
    BY ONLY <1>1, <2>1, <2>2
<1>5. at' = NextLine.next /\ outcome = "reading"
  BY DEF Line, Reading
<1>6. at' \in 0 .. len /\ (at' = off[m] \/ (m = n /\ at' = len))
  BY ONLY <1>4, <1>5
<1>7. Closed \in Seq(Texts) /\ Closed[m] = lines[m] /\ DOMAIN Closed = 1 .. n + 1
  <2>1. Closed \in Seq(Texts) /\ Len(Closed) = n + 1 /\ Closed[m] = lines[m]
    BY <1>1, ClosedIs
  <2> QED
    BY <2>1, LenProperties
<1>8. /\ held = <<>> <=> DataBefore(Closed, m) = {}
      /\ m \in Closers(Closed) <=> Closed[m] = "blank" /\ held # <<>>
      /\ DataBefore(Closed, m) \subseteq 1 .. k
  BY ONLY <1>1, <1>2, <1>4, Laid(off, w), reader = "lab", LabHolds
<1>9. Closers(Closed) \subseteq Nat
  BY <1>7 DEF Closers
<1>10. m \in Nat /\ m > 0 /\ m + 1 \in Nat /\ k \in Nat /\ k < m /\ k <= m /\ m \in 0 .. n /\ m \in 1 .. n + 1
  BY ONLY <1>1, <1>2, <1>4
<1>11. ASSUME held' = RowsAt(Closed, DataBefore(Closed, m + 1)), Yielded(events', Closed, m), outcome' = "reading"
       PROVE  /\ outcome' = "reading"
              /\ \E j \in 0 .. Len(lines) :
                    /\ at' = off[j] \/ (j = Len(lines) /\ at' = Len(wire))
                    /\ held' = RowsAt(Closed, DataBefore(Closed, j + 1))
                    /\ Yielded(events', Closed, j)
  BY ONLY <1>1, <1>6, <1>10, <1>11
<1>12. CASE lines[m] = "blank" /\ held # <<>>
  <2>1. Dispatch(held) /\ held' = <<>>
    BY <1>4, <1>12 DEF Line
  <2>2. m \in Closers(Closed) /\ \A j \in Closers(Closed) : ~(k < j /\ j < m)
    BY ONLY <1>1, <1>2, <1>4, <1>7, <1>8, <1>9, <1>12
  <2>3. held = RowsAt(Closed, DataBefore(Closed, m))
    BY ONLY <1>2, <1>4
  <2>4. /\ Parses(held) => Yielded(Append(events, held), Closed, m)
        /\ ~Parses(held) => events = Events(Closed) /\ Stop(Closed) = held
    BY ONLY <1>2, <1>7, <1>10, <2>2, <2>3, Dispatched
  <2>5. held' = RowsAt(Closed, DataBefore(Closed, m + 1))
    <3>1. DataBefore(Closed, m + 1) = {}
      BY ONLY <1>7, <1>10, <1>12, DataNext
    <3> QED
      BY ONLY <1>7, <2>1, <3>1, RowsOfNone
  <2>6. CASE Parses(held)
    <3>1. outcome' = "reading" /\ events' = Append(events, held)
      <4>1. held # <<"[DONE]">>
        BY ONLY <2>6, DoneIsNoValue
      <4> QED
        BY ONLY <2>1, <2>6, <4>1 DEF Dispatch
    <3> QED
      BY ONLY <1>1, <1>6, <1>11, <2>4, <2>5, <2>6, <3>1
  <2>7. CASE ~Parses(held)
    <3>1. events' = events /\ outcome' = IF held = <<"[DONE]">> THEN "ended" ELSE "raised"
      BY ONLY <2>1, <2>7 DEF Dispatch
    <3>2. Final(events', outcome', Closed)
      BY ONLY <1>12, <2>4, <2>7, <3>1 DEF Final
    <3> QED
      BY ONLY <1>1, <1>6, <3>2
  <2> QED
    BY ONLY <2>6, <2>7
<1>13. CASE ~(lines[m] = "blank" /\ held # <<>>)
  <2>1. /\ held' = IF IsData(lines[m]) THEN Append(held, lines[m]) ELSE held
        /\ events' = events /\ outcome' = "reading"
    BY <1>4, <1>5, <1>13 DEF Line
  <2>2. \A j \in Closers(Closed) : ~(k < j /\ j <= m)
    BY ONLY <1>1, <1>2, <1>4, <1>7, <1>8, <1>9, <1>13
  <2>3. Yielded(events', Closed, m)
    BY ONLY <1>2, <1>7, <1>10, <2>1, <2>2, YieldedSame
  <2>4. held' = RowsAt(Closed, DataBefore(Closed, m + 1))
    <3>1. held = RowsAt(Closed, DataBefore(Closed, m))
      BY ONLY <1>2, <1>4
    <3>2. CASE lines[m] = "blank"
      <4>1. DataBefore(Closed, m + 1) = {}
        BY ONLY <1>7, <1>10, <3>2, DataNext
      <4>2. held' = held /\ held = <<>>
        <5>1. ~IsData("blank")
          BY DEF IsData
        <5> QED
          BY ONLY <1>13, <2>1, <3>2, <5>1
      <4> QED
        BY ONLY <1>7, <4>1, <4>2, RowsOfNone
    <3>3. CASE lines[m] # "blank" /\ IsData(lines[m])
      <4>1. DataBefore(Closed, m + 1) = DataBefore(Closed, m) \cup {m}
        BY ONLY <1>7, <1>10, <3>3, DataNext
      <4>2. m \in DOMAIN Closed /\ DataBefore(Closed, m) \subseteq DOMAIN Closed /\ \A i \in DataBefore(Closed, m) : i < m
        BY ONLY <1>1, <1>2, <1>4, <1>7, <1>8
      <4>3. RowsAt(Closed, DataBefore(Closed, m) \cup {m}) = Append(RowsAt(Closed, DataBefore(Closed, m)), Closed[m])
        BY ONLY <1>7, <4>2, RowsMore
      <4> QED
        BY ONLY <1>7, <2>1, <3>1, <3>3, <4>1, <4>3
    <3>4. CASE lines[m] # "blank" /\ ~IsData(lines[m])
      <4>1. DataBefore(Closed, m + 1) = DataBefore(Closed, m)
        <5>1. DataBefore(Closed, m + 1) = DataBefore(Closed, m) \cup {}
          BY ONLY <1>7, <1>10, <3>4, DataNext
        <5> QED
          BY ONLY <5>1
      <4> QED
        BY ONLY <2>1, <3>1, <3>4, <4>1
    <3> QED
      BY ONLY <3>2, <3>3, <3>4
  <2> QED
    BY ONLY <1>1, <1>6, <1>11, <2>1, <2>3, <2>4
<1> QED
  BY ONLY <1>12, <1>13

\* At the end of the stream no line closes a block but the next one.
LEMMA EndOfLinesStep ==
    ASSUME NEW off, NEW w, Laid(off, w), reader = "lab", LabReads(off), EndOfLines
    PROVE  Final(events', outcome', Closed)
<1>1. PICK n \in Nat, len \in Nat : n = Len(lines) /\ len = Len(wire)
  BY Laying
<1>2. PICK k \in 0 .. n : /\ at = off[k] \/ (k = n /\ at = len)
                          /\ held = RowsAt(Closed, DataBefore(Closed, k + 1))
                          /\ Yielded(events, Closed, k)
  BY <1>1 DEF LabReads
<1>3. /\ Closed \in Seq(Texts) /\ DOMAIN Closed = 1 .. n + 1 /\ Closed[n + 1] = "blank"
      /\ \A j \in 1 .. n : Closed[j] = lines[j]
  <2>1. Closed \in Seq(Texts) /\ Len(Closed) = n + 1
    BY <1>1, ClosedIs
  <2> QED
    BY <1>1, <2>1, ClosedIs, LenProperties
<1>4. /\ at = len
      /\ outcome' = IF held \in {<<>>, <<"[DONE]">>} \/ Parses(held) THEN "ended" ELSE "raised"
      /\ events' = IF Parses(held) THEN Append(events, held) ELSE events
  BY <1>1 DEF EndOfLines
<1>5. k = n \/ (k = n - 1 /\ lines[n] = "blank")
  <2> SUFFICES ASSUME k # n PROVE k = n - 1 /\ lines[n] = "blank"
    OBVIOUS
  <2>1. k + 1 \in 1 .. n /\ k < n /\ (k + 1) - 1 = k /\ k \in 0 .. n /\ n \in 0 .. n /\ off[k] = len
    BY ONLY <1>1, <1>2, <1>4, k # n
  <2>2. PICK m \in 1 .. n : m = k + 1 /\ m - 1 = k
    BY ONLY <2>1
  <2>3. /\ off[k] \in Nat /\ off[m] \in Nat
        /\ lines[m] # "blank" => off[k] + 1 <= len
        /\ \A j \in 0 .. n - 1 : off[j] <= len
        /\ m < n => off[k] + w <= off[m]
    <3>1. off[k] \in Nat /\ off[m] \in Nat
      BY <1>1, <2>1, <2>2, Laying
    <3>2. lines[m] # "blank" => off[m - 1] + 1 <= len
      BY <1>1, <2>2, Laying
    <3>3. \A j \in 0 .. n - 1 : off[j] <= len
      BY <1>1, Laying
    <3>4. \A i, j \in 0 .. n : i < j => off[i] + w <= off[j]
      BY <1>1, Laying
    <3>5. k < m /\ m \in 0 .. n /\ k \in 0 .. n
      BY ONLY <2>1, <2>2
    <3> QED
      BY ONLY <2>2, <3>1, <3>2, <3>3, <3>4, <3>5
  <2>4. w \in {1, 2}
    BY DEF Laid
  <2>5. lines[m] = "blank"
    BY ONLY <2>1, <2>3
  <2>6. ~(m < n)
    <3> SUFFICES ASSUME m < n PROVE FALSE
      OBVIOUS
    <3>1. m \in 0 .. n - 1
      BY ONLY <2>2, m < n
    <3>2. off[m] <= len /\ len + w <= off[m]
      BY ONLY <2>1, <2>3, <3>1, m < n
    <3> QED
      BY ONLY <1>1, <2>3, <2>4, <3>2
  <2>7. m = n
    BY ONLY <1>1, <2>2, <2>6
  <2> QED
    BY ONLY <1>1, <2>2, <2>5, <2>7
<1>6. PICK m \in 1 .. n + 1 : m = k + 1 /\ m - 1 = k
  BY ONLY <1>1, <1>2
<1>7. Closed[m] = "blank"
  <2>1. CASE k = n
    BY ONLY <1>3, <1>6, <2>1
  <2>2. CASE k = n - 1 /\ lines[n] = "blank"
    <3>1. m = n /\ n \in 1 .. n
      BY ONLY <1>1, <1>2, <1>6, <2>2
    <3> QED
      BY ONLY <1>3, <2>2, <3>1
  <2> QED
    BY ONLY <1>5, <2>1, <2>2
<1>8. /\ held = <<>> <=> DataBefore(Closed, m) = {}
      /\ m \in Closers(Closed) <=> Closed[m] = "blank" /\ held # <<>>
  BY ONLY <1>1, <1>2, <1>6, Laid(off, w), reader = "lab", LabHolds
<1>9. \A j \in Closers(Closed) : j \in Nat /\ j <= m
  <2> SUFFICES ASSUME NEW j \in Closers(Closed) PROVE j \in Nat /\ j <= m
    OBVIOUS
  <2>1. j \in 1 .. n + 1 /\ DataBefore(Closed, j) # {}
    BY ONLY <1>3, j \in Closers(Closed) DEF Closers
  <2>2. j # m + 1
    <3> SUFFICES ASSUME j = m + 1 PROVE FALSE
      OBVIOUS
    <3>1. DataBefore(Closed, m + 1) = {}
      <4>1. m \in Nat /\ m > 0
        BY ONLY <1>1, <1>6
      <4> QED
        BY ONLY <1>7, <4>1, DataNext
    <3> QED
      BY ONLY <2>1, <3>1, j = m + 1
  <2>3. m = n + 1 \/ m = n
    BY ONLY <1>1, <1>5, <1>6
  <2> QED
    BY ONLY <1>1, <2>1, <2>2, <2>3
<1>10. k \in Nat /\ m \in Nat /\ k < m /\ \A j \in Closers(Closed) : j <= k \/ j = m
  BY ONLY <1>1, <1>2, <1>6, <1>9
<1>11. CASE held = <<>>
  <2>1. \A j \in Closers(Closed) : j <= k
    BY ONLY <1>8, <1>10, <1>11
  <2>2. events = Events(Closed) /\ Stop(Closed) = <<>>
    BY ONLY <1>2, <1>3, <1>10, <2>1, YieldedAll
  <2>3. ~Parses(<<>>)
    <3>1. <<>> # <<"one">> /\ <<>> # <<"two">>
      <4>1. Len(<<>>) = 0 /\ Len(<<"one">>) = 1 /\ Len(<<"two">>) = 1
        OBVIOUS
      <4> QED
        BY <4>1
    <3> QED
      BY <3>1 DEF Parses
  <2> QED
    BY ONLY <1>4, <1>11, <2>2, <2>3 DEF Final
<1>12. CASE held # <<>>
  <2>1. m \in Closers(Closed) /\ \A j \in Closers(Closed) : ~(k < j /\ j < m)
    BY ONLY <1>7, <1>8, <1>9, <1>10, <1>12
  <2>2. held = RowsAt(Closed, DataBefore(Closed, m))
    BY ONLY <1>2, <1>6
  <2>3. /\ Parses(held) => Yielded(Append(events, held), Closed, m)
        /\ ~Parses(held) => events = Events(Closed) /\ Stop(Closed) = held
    BY ONLY <1>2, <1>3, <1>10, <2>1, <2>2, Dispatched
  <2>4. CASE Parses(held)
    <3>1. Append(events, held) = Events(Closed) /\ Stop(Closed) = <<>>
      <4>1. \A j \in Closers(Closed) : j <= m
        BY ONLY <1>9
      <4> QED
        BY ONLY <1>3, <1>10, <2>3, <2>4, <4>1, YieldedAll
    <3> QED
      BY ONLY <1>4, <2>4, <3>1 DEF Final
  <2>5. CASE ~Parses(held)
    BY ONLY <1>4, <1>12, <2>3, <2>5 DEF Final
  <2> QED
    BY ONLY <2>4, <2>5
<1> QED
  BY ONLY <1>11, <1>12

-----------------------------------------------------------------------------
(***************************************************************************)
(* The assistant.  A separator is the end of a line and the blank line     *)
(* after it.                                                               *)
(***************************************************************************)
Match(sep, i) ==
    /\ i + Len(sep) - 1 <= Len(held)
    /\ \A x \in 1 .. Len(sep) : held[i + x - 1] = sep[x]

\* A separator is at a place when its symbols are there.
LEMMA PrefixAt ==
    ASSUME NEW sep \in Seq(Symbols), held \in Seq(Symbols), NEW i \in 1 .. Len(held)
    PROVE  IsPrefix(sep, SubSeq(held, i, Len(held))) <=> Match(sep, i)
<1>1. PICK m \in Nat, len \in Nat : m = Len(sep) /\ len = Len(held) /\ i \in 1 .. len
  BY LenProperties
<1>2. PICK t : t = SubSeq(held, i, Len(held))
  OBVIOUS
<1>3. PICK a \in Nat : i = a + 1 /\ a <= len
  <2>1. i - 1 \in Nat /\ i = (i - 1) + 1 /\ i - 1 <= len
    BY ONLY <1>1
  <2> QED
    BY <2>1
<1>4. t \in Seq(Symbols) /\ Len(t) = len - a /\ \A x \in 1 .. len - a : t[x] = held[a + x]
  BY ONLY <1>1, <1>2, <1>3, held \in Seq(Symbols), Slice
<1>5. PICK u : u = SubSeq(t, 1, m)
  OBVIOUS
<1>6. SubSeq(sep, 1, m) = sep
  BY ONLY <1>1, sep \in Seq(Symbols), SubSeqFull
<1>7. IsPrefix(sep, t) <=> m <= len - a /\ sep = u
  BY ONLY <1>1, <1>4, <1>5, <1>6 DEF IsPrefix
<1>8. ASSUME m <= len - a PROVE u \in Seq(Symbols) /\ Len(u) = m /\ \A x \in 1 .. m : u[x] = held[a + x]
  <2>1. 0 + 1 = 1 /\ m - 0 = m /\ 0 <= m /\ m <= Len(t) /\ 0 \in Nat
    BY ONLY <1>4, <1>8, m \in Nat
  <2>2. \A x \in 1 .. m : 0 + x = x /\ x \in 1 .. len - a
    BY ONLY <1>1, <1>3, <1>8
  <2>3. u \in Seq(Symbols) /\ Len(u) = m /\ \A x \in 1 .. m : u[x] = t[0 + x]
    BY ONLY <1>4, <1>5, <2>1, m \in Nat, Slice
  <2> QED
    BY ONLY <1>4, <2>2, <2>3
<1>9. ASSUME m <= len - a PROVE sep = u <=> \A x \in 1 .. m : held[a + x] = sep[x]
  <2>1. ASSUME \A x \in 1 .. m : held[a + x] = sep[x] PROVE sep = u
    BY ONLY <1>1, <1>8, <1>9, <2>1, sep \in Seq(Symbols), SeqEqual
  <2> QED
    BY ONLY <1>8, <1>9, <2>1
<1>10. \A x \in 1 .. m : i + x - 1 = a + x
  BY ONLY <1>1, <1>3
<1>11. i + m - 1 <= len <=> m <= len - a
  BY ONLY <1>1, <1>3
<1>12. Match(sep, i) <=> m <= len - a /\ \A x \in 1 .. m : held[a + x] = sep[x]
  BY ONLY <1>1, <1>10, <1>11 DEF Match
<1> QED
  BY ONLY <1>2, <1>7, <1>9, <1>12

\* What is found is the first place of the separator, or 0.
LEMMA FoundOf ==
    ASSUME NEW sep \in Seq(Symbols), held \in Seq(Symbols)
    PROVE  \/ Found(sep) = 0 /\ \A i \in 1 .. Len(held) : ~Match(sep, i)
           \/ /\ Found(sep) \in 1 .. Len(held) /\ Match(sep, Found(sep))
              /\ \A i \in 1 .. Len(held) : Match(sep, i) => Found(sep) <= i
<1>1. DOMAIN held = 1 .. Len(held) /\ Len(held) \in Nat
  BY LenProperties
<1> DEFINE places == {i \in DOMAIN held : IsPrefix(sep, SubSeq(held, i, Len(held)))}
           first == CHOOSE i \in places : \A j \in places : i <= j
<1>2. /\ places \subseteq 1 .. Len(held)
      /\ \A i \in 1 .. Len(held) : i \in places <=> Match(sep, i)
  <2>1. \A i \in 1 .. Len(held) : IsPrefix(sep, SubSeq(held, i, Len(held))) <=> Match(sep, i)
    BY ONLY sep \in Seq(Symbols), held \in Seq(Symbols), PrefixAt
  <2> QED
    BY ONLY <1>1, <2>1
<1>3. Found(sep) = IF places = {} THEN 0 ELSE first
  BY DEF Found
<1> HIDE DEF places
<1>4. CASE places = {}
  BY ONLY <1>2, <1>3, <1>4
<1>5. CASE places # {}
  <2>1. first \in places /\ \A j \in places : first <= j
    <3>1. places \subseteq Nat
      BY ONLY <1>1, <1>2
    <3>2. \E i \in places : \A j \in places : i <= j
      BY ONLY <1>5, <3>1, Least
    <3> QED
      BY ONLY <3>2
  <2>2. Found(sep) = first
    BY ONLY <1>3, <1>5
  <2> HIDE DEF first
  <2> QED
    BY ONLY <1>2, <2>1, <2>2
<1> QED
  BY ONLY <1>4, <1>5

LF2   == <<"LF", "LF">>
CRLF2 == <<"CR", "LF", "CR", "LF">>

\* Two symbols.
LEMMA MatchLF ==
    ASSUME NEW i \in 1 .. Len(held), Len(held) \in Nat
    PROVE  /\ LF2 \in Seq(Symbols)
           /\ Match(LF2, i) <=> i + 1 <= Len(held) /\ held[i] = "LF" /\ held[i + 1] = "LF"
<1>1. "LF" \in Symbols
  BY DEF Symbols
<1>2. LF2 \in Seq(Symbols) /\ Len(LF2) = 2 /\ LF2[1] = "LF" /\ LF2[2] = "LF"
  BY <1>1 DEF LF2
<1>3. i + 2 - 1 = i + 1 /\ i + 1 - 1 = i
  OBVIOUS
<1>4. \A x : x \in 1 .. 2 <=> x = 1 \/ x = 2
  OBVIOUS
<1> QED
  BY ONLY <1>2, <1>3, <1>4 DEF Match

\* Four symbols.
LEMMA MatchCRLF ==
    ASSUME NEW i \in 1 .. Len(held), Len(held) \in Nat
    PROVE  /\ CRLF2 \in Seq(Symbols)
           /\ Match(CRLF2, i) <=> /\ i + 3 <= Len(held) /\ held[i] = "CR" /\ held[i + 1] = "LF"
                                  /\ held[i + 2] = "CR" /\ held[i + 3] = "LF"
<1>1. "LF" \in Symbols /\ "CR" \in Symbols
  BY DEF Symbols
<1>2. /\ CRLF2 \in Seq(Symbols) /\ Len(CRLF2) = 4 /\ CRLF2[1] = "CR" /\ CRLF2[2] = "LF"
      /\ CRLF2[3] = "CR" /\ CRLF2[4] = "LF"
  BY <1>1 DEF CRLF2
<1>3. i + 4 - 1 = i + 3 /\ i + 1 - 1 = i /\ i + 2 - 1 = i + 1 /\ i + 3 - 1 = i + 2
  OBVIOUS
<1>4. \A x : x \in 1 .. 4 <=> x = 1 \/ x = 2 \/ x = 3 \/ x = 4
  OBVIOUS
<1> QED
  BY ONLY <1>2, <1>3, <1>4 DEF Match

\* An end of a line, and the next end right after it: that line is blank.
LEMMA EndsOf ==
    ASSUME NEW off, NEW w, Laid(off, w), NEW p \in 1 .. Len(wire)
    PROVE  /\ wire[p] = "LF" => \E k \in 1 .. Len(lines) : p = off[k]
           /\ wire[p] = "CR" => w = 2
<1>1. PICK k \in 1 .. Len(lines) :
         \/ p = off[k - 1] + 1 /\ lines[k] # "blank" /\ wire[p] = lines[k] /\ p + w = off[k]
         \/ p = off[k] /\ wire[p] = "LF"
         \/ w = 2 /\ p + 1 = off[k] /\ wire[p] = "CR"
  BY Places
<1>2. lines[k] # "LF" /\ lines[k] # "CR"
  BY ONLY Laid(off, w), k \in 1 .. Len(lines), TextOf
<1> QED
  BY ONLY <1>1, <1>2

\* Ends of lines rise as the lines do.
LEMMA Adjacent ==
    ASSUME NEW off, NEW w, Laid(off, w), NEW b \in 0 .. Len(lines),
           NEW k \in 1 .. Len(lines), NEW l \in 1 .. Len(lines), off[b] < off[k]
    PROVE  /\ b < k
           /\ off[l] = off[k] + w => l = k + 1 /\ lines[l] = "blank"
           /\ ~(off[k] < off[l] /\ off[l] < off[k] + w)
<1>1. PICK n \in Nat : n = Len(lines)
  BY Laying
<1>2. w \in {1, 2} /\ (\A i \in 0 .. n : off[i] \in Nat) /\ (\A i, j \in 0 .. n : i < j => off[i] + w <= off[j])
  <2>1. (\A i \in 0 .. n : off[i] \in Nat) /\ (\A i, j \in 0 .. n : i < j => off[i] + w <= off[j])
    BY <1>1, Laying
  <2> QED
    BY <2>1 DEF Laid
<1>3. b \in 0 .. n /\ k \in 0 .. n /\ l \in 0 .. n /\ l \in 1 .. n
  BY ONLY <1>1, b \in 0 .. Len(lines), k \in 1 .. Len(lines), l \in 1 .. Len(lines)
<1>4. PICK x \in Nat, y \in Nat, z \in Nat : x = off[b] /\ y = off[k] /\ z = off[l]
  BY ONLY <1>2, <1>3
<1>5. b < k
  <2>1. k < b => y + w <= x
    BY ONLY <1>2, <1>3, <1>4
  <2>2. k = b => y = x
    BY ONLY <1>4
  <2>3. x < y
    BY ONLY <1>4, off[b] < off[k]
  <2> QED
    BY ONLY <1>2, <1>3, <1>4, <2>1, <2>2, <2>3, n \in Nat
<1>6. ~(y < z /\ z < y + w)
  <2>1. k < l => y + w <= z
    BY ONLY <1>2, <1>3, <1>4
  <2>2. l < k => z + w <= y
    BY ONLY <1>2, <1>3, <1>4
  <2>3. k = l => z = y
    BY ONLY <1>4
  <2> QED
    BY ONLY <1>2, <1>3, <2>1, <2>2, <2>3, n \in Nat, y \in Nat, z \in Nat
<1>7. ASSUME z = y + w PROVE l = k + 1 /\ lines[l] = "blank"
  <2>1. k < l
    <3>1. l < k => z + w <= y
      BY ONLY <1>2, <1>3, <1>4
    <3>2. l = k => z = y
      BY ONLY <1>4
    <3> QED
      BY ONLY <1>2, <1>3, <1>7, <3>1, <3>2, n \in Nat, y \in Nat, z \in Nat
  <2>2. l = k + 1
    <3> SUFFICES ASSUME l # k + 1 PROVE FALSE
      OBVIOUS
    <3>1. PICK h \in 0 .. n : h = k + 1 /\ k < h /\ h < l
      BY ONLY <1>3, <2>1, n \in Nat, l # k + 1
    <3>2. PICK v \in Nat : v = off[h]
      BY ONLY <1>2
    <3>3. y + w <= v /\ v + w <= z
      BY ONLY <1>2, <1>3, <1>4, <3>1, <3>2
    <3> QED
      BY ONLY <1>2, <1>7, <3>3, v \in Nat, y \in Nat, z \in Nat
  <2>3. lines[l] = "blank"
    <3> SUFFICES ASSUME lines[l] # "blank" PROVE FALSE
      OBVIOUS
    <3>1. l - 1 = k
      BY ONLY <1>3, <2>2, n \in Nat
    <3>2. off[l] = off[l - 1] + w + 1
      BY Laying
    <3>3. z = y + w + 1
      BY ONLY <1>4, <3>1, <3>2
    <3> QED
      BY ONLY <1>2, <1>7, <3>3, y \in Nat, z \in Nat
  <2> QED
    BY ONLY <2>2, <2>3
<1> QED
  BY ONLY <1>4, <1>5, <1>6, <1>7

\* The blank lines that close what is held.
Separators(off, b) == {j \in b + 2 .. Len(lines) : lines[j] = "blank" /\ off[j] <= at}

Holds(off, b) ==
    /\ b = 0 \/ lines[b] = "blank"
    /\ off[b] <= at
    /\ held = SubSeq(wire, off[b] + 1, at)

\* What is held, symbol by symbol.
LEMMA HeldIs ==
    ASSUME NEW off, NEW w, Laid(off, w), NEW b \in 0 .. Len(lines), at \in 0 .. Len(wire), Holds(off, b)
    PROVE  /\ held \in Seq(Symbols) /\ off[b] \in Nat /\ at \in Nat /\ Len(held) = at - off[b]
           /\ \A i \in 1 .. at - off[b] : held[i] = wire[off[b] + i]
<1>1. off[b] \in Nat /\ Len(wire) \in Nat
  BY Laying
<1>2. at \in Nat /\ at <= Len(wire) /\ off[b] <= at /\ held = SubSeq(wire, off[b] + 1, at)
  BY <1>1 DEF Holds
<1>3. wire \in Seq(Symbols)
  BY DEF Laid
<1> QED
  BY ONLY <1>1, <1>2, <1>3, Slice, SMTT(20)

\* A separator of LF is where one of those lines is, when lines end with LF.
LEMMA SeparatorsLF ==
    ASSUME NEW off, NEW w, Laid(off, w), NEW b \in 0 .. Len(lines), at \in 0 .. Len(wire), Holds(off, b)
    PROVE  /\ \A i \in 1 .. Len(held) : Match(LF2, i) =>
                 w = 1 /\ \E j \in Separators(off, b) : i = off[j - 1] - off[b]
           /\ w = 1 => \A j \in Separators(off, b) :
                 off[j - 1] - off[b] \in 1 .. Len(held) /\ Match(LF2, off[j - 1] - off[b])
<1>1. PICK n \in Nat, len \in Nat : n = Len(lines) /\ len = Len(wire) /\ b \in 0 .. n
  BY Laying
<1>2. PICK o \in Nat, t \in Nat : o = off[b] /\ t = at
  BY HeldIs
<1>8. t <= len /\ o <= t
  BY <1>1, <1>2 DEF Holds
<1>3. Len(held) = t - o /\ \A i \in 1 .. t - o : held[i] = wire[o + i]
  BY ONLY <1>2, HeldIs, Laid(off, w), b \in 0 .. Len(lines), at \in 0 .. Len(wire), Holds(off, b)
<1>4. w \in {1, 2}
  BY DEF Laid
<1>5. ASSUME NEW i \in 1 .. Len(held)
      PROVE  Match(LF2, i) <=> i + 1 <= t - o /\ wire[o + i] = "LF" /\ wire[o + i + 1] = "LF"
  <2>1. i \in 1 .. t - o /\ Len(held) \in Nat
    BY ONLY <1>3, <1>8, <1>5
  <2>2. Match(LF2, i) <=> i + 1 <= Len(held) /\ held[i] = "LF" /\ held[i + 1] = "LF"
    BY ONLY <1>5, <2>1, MatchLF
  <2>3. i + 1 <= t - o => i + 1 \in 1 .. t - o /\ o + (i + 1) = o + i + 1
    BY ONLY <1>8, <2>1
  <2> QED
    BY ONLY <1>3, <2>1, <2>2, <2>3
<1>6. ASSUME NEW i \in 1 .. Len(held), Match(LF2, i)
      PROVE  w = 1 /\ \E j \in Separators(off, b) : i = off[j - 1] - off[b]
  <2>1. i + 1 <= t - o /\ wire[o + i] = "LF" /\ wire[o + i + 1] = "LF" /\ i \in Nat /\ i > 0
    <3>1. i \in Nat /\ i > 0
      BY ONLY <1>3, <1>8, <1>6
    <3> QED
      BY ONLY <1>5, <1>6, <3>1
  <2>2. PICK p \in 1 .. len, q \in 1 .. len : p = o + i /\ q = p + 1 /\ q <= t
    BY ONLY <1>8, <2>1, len \in Nat
  <2>3. PICK k \in 1 .. n, l \in 1 .. n : p = off[k] /\ q = off[l]
    BY ONLY <1>1, <2>1, <2>2, Laid(off, w), EndsOf
  <2>4. /\ b < k
        /\ off[l] = off[k] + w => l = k + 1 /\ lines[l] = "blank"
        /\ ~(off[k] < off[l] /\ off[l] < off[k] + w)
    <3>1. o < p
      BY ONLY <2>1, <2>2
    <3>2. off[b] < off[k]
      BY ONLY <1>2, <2>3, <3>1
    <3> QED
      BY ONLY <1>1, <3>2, Laid(off, w), Adjacent
  <2>5. w = 1
    <3>1. q < p + w => ~(p < q)
      BY ONLY <2>3, <2>4
    <3> QED
      BY ONLY <1>4, <2>2, <3>1
  <2>6. l = k + 1 /\ lines[l] = "blank"
    <3>1. q = p + w
      BY ONLY <2>2, <2>5
    <3> QED
      BY ONLY <2>3, <2>4, <3>1
  <2>7. l \in b + 2 .. n /\ l - 1 = k
    BY ONLY <1>1, <2>4, <2>6
  <2>8. l \in Separators(off, b)
    BY ONLY <1>1, <1>2, <2>2, <2>3, <2>6, <2>7 DEF Separators
  <2>9. i = off[l - 1] - off[b]
    <3>1. i = p - o
      BY ONLY <2>1, <2>2
    <3> QED
      BY ONLY <1>2, <2>3, <2>7, <3>1
  <2> QED
    BY ONLY <2>5, <2>8, <2>9
<1>7. ASSUME w = 1, NEW j \in Separators(off, b)
      PROVE  off[j - 1] - off[b] \in 1 .. Len(held) /\ Match(LF2, off[j - 1] - off[b])
  <2>1. j \in b + 2 .. n /\ lines[j] = "blank" /\ off[j] <= t
    BY ONLY <1>1, <1>2, <1>7 DEF Separators
  <2>2. PICK k \in 1 .. n, l \in 1 .. n : l = j /\ k = j - 1 /\ b < k /\ k < l /\ k \in 0 .. n
    BY ONLY <1>1, <2>1
  <2>3. PICK p \in Nat, q \in Nat : p = off[k] /\ q = off[l]
    <3>1. \A h \in 0 .. n : off[h] \in Nat
      BY <1>1, Laying
    <3>2. k \in 0 .. n /\ l \in 0 .. n
      BY ONLY k \in 1 .. n, l \in 1 .. n
    <3> QED
      BY ONLY <3>1, <3>2
  <2>4. q = p + 1 /\ o + 1 <= p
    <3>1. off[l] = off[l - 1] + w
      BY <1>1, <2>1, <2>2, Laying
    <3>2. off[b] + w <= off[k]
      BY <1>1, <2>2, Laying
    <3>3. l - 1 = k
      BY ONLY <2>2, n \in Nat
    <3>4. q = p + w /\ o + w <= p
      BY ONLY <1>2, <2>3, <3>1, <3>2, <3>3
    <3> QED
      BY ONLY <1>7, <3>4
  <2>5. wire[p] = "LF" /\ wire[q] = "LF"
    <3>2. q <= t
      BY ONLY <2>1, <2>2, <2>3
    <3>3. p <= len /\ q <= len
      BY ONLY <1>8, <2>4, <3>2, len \in Nat
    <3>1. off[k] <= len /\ off[l] <= len
      BY ONLY <2>3, <3>3
    <3> QED
      BY <1>1, <2>3, <3>1, TextOf
  <2>6. PICK i \in 1 .. Len(held) : i = p - o /\ i + 1 <= t - o /\ o + i = p /\ o + i + 1 = q
    <3>1. q <= t
      BY ONLY <2>1, <2>2, <2>3
    <3> QED
      BY ONLY <1>3, <1>8, <2>4, <3>1, p \in Nat, q \in Nat
  <2>7. Match(LF2, i)
    BY ONLY <1>5, <2>5, <2>6
  <2> QED
    BY ONLY <1>2, <2>2, <2>3, <2>6, <2>7
<1> QED
  BY ONLY <1>6, <1>7

\* And one of CRLF, when they end with CR LF.
LEMMA SeparatorsCRLF ==
    ASSUME NEW off, NEW w, Laid(off, w), NEW b \in 0 .. Len(lines), at \in 0 .. Len(wire), Holds(off, b)
    PROVE  /\ \A i \in 1 .. Len(held) : Match(CRLF2, i) =>
                 w = 2 /\ \E j \in Separators(off, b) : i = off[j - 1] - off[b] - 1
           /\ w = 2 => \A j \in Separators(off, b) :
                 off[j - 1] - off[b] - 1 \in 1 .. Len(held) /\ Match(CRLF2, off[j - 1] - off[b] - 1)
<1>1. PICK n \in Nat, len \in Nat : n = Len(lines) /\ len = Len(wire) /\ b \in 0 .. n
  BY Laying
<1>2. PICK o \in Nat, t \in Nat : o = off[b] /\ t = at
  BY HeldIs
<1>8. t <= len /\ o <= t
  BY <1>1, <1>2 DEF Holds
<1>3. Len(held) = t - o /\ \A i \in 1 .. t - o : held[i] = wire[o + i]
  BY ONLY <1>2, HeldIs, Laid(off, w), b \in 0 .. Len(lines), at \in 0 .. Len(wire), Holds(off, b)
<1>4. w \in {1, 2}
  BY DEF Laid
<1>5. ASSUME NEW i \in 1 .. Len(held)
      PROVE  Match(CRLF2, i) <=> /\ i + 3 <= t - o /\ wire[o + i] = "CR" /\ wire[o + i + 1] = "LF"
                                 /\ wire[o + i + 2] = "CR" /\ wire[o + i + 3] = "LF"
  <2>1. i \in 1 .. t - o /\ Len(held) \in Nat
    BY ONLY <1>3, <1>8, <1>5
  <2>2. Match(CRLF2, i) <=> /\ i + 3 <= Len(held) /\ held[i] = "CR" /\ held[i + 1] = "LF"
                            /\ held[i + 2] = "CR" /\ held[i + 3] = "LF"
    BY ONLY <1>5, <2>1, MatchCRLF
  <2>3. i + 3 <= t - o =>
           /\ i + 1 \in 1 .. t - o /\ o + (i + 1) = o + i + 1
           /\ i + 2 \in 1 .. t - o /\ o + (i + 2) = o + i + 2
           /\ i + 3 \in 1 .. t - o /\ o + (i + 3) = o + i + 3
    BY ONLY <1>8, <2>1
  <2>4. i + 3 <= t - o =>
           /\ held[i] = wire[o + i] /\ held[i + 1] = wire[o + i + 1]
           /\ held[i + 2] = wire[o + i + 2] /\ held[i + 3] = wire[o + i + 3]
    BY ONLY <1>3, <2>1, <2>3
  <2> QED
    BY ONLY <1>3, <2>2, <2>4
<1>6. ASSUME NEW i \in 1 .. Len(held), Match(CRLF2, i)
      PROVE  w = 2 /\ \E j \in Separators(off, b) : i = off[j - 1] - off[b] - 1
  <2>1. /\ i + 3 <= t - o /\ wire[o + i] = "CR" /\ wire[o + i + 1] = "LF" /\ wire[o + i + 3] = "LF"
        /\ i \in Nat /\ i > 0
    <3>1. i \in Nat /\ i > 0
      BY ONLY <1>3, <1>8, <1>6
    <3> QED
      BY ONLY <1>5, <1>6, <3>1
  <2>2. PICK c \in 1 .. len, p \in 1 .. len, q \in 1 .. len :
            c = o + i /\ p = o + i + 1 /\ q = o + i + 3 /\ q = p + 2 /\ q <= t
    BY ONLY <1>8, <2>1, len \in Nat
  <2>3. w = 2
    BY ONLY <1>1, <2>1, <2>2, Laid(off, w), EndsOf
  <2>4. PICK k \in 1 .. n, l \in 1 .. n : p = off[k] /\ q = off[l]
    BY ONLY <1>1, <2>1, <2>2, Laid(off, w), EndsOf
  <2>5. /\ b < k
        /\ off[l] = off[k] + w => l = k + 1 /\ lines[l] = "blank"
    <3>1. o < p
      BY ONLY <2>1, <2>2
    <3>2. off[b] < off[k]
      BY ONLY <1>2, <2>4, <3>1
    <3> QED
      BY ONLY <1>1, <3>2, Laid(off, w), Adjacent
  <2>6. l = k + 1 /\ lines[l] = "blank"
    <3>1. q = p + w
      BY ONLY <2>2, <2>3
    <3> QED
      BY ONLY <2>4, <2>5, <3>1
  <2>7. l \in b + 2 .. n /\ l - 1 = k
    BY ONLY <1>1, <2>5, <2>6
  <2>8. l \in Separators(off, b)
    BY ONLY <1>1, <1>2, <2>2, <2>4, <2>6, <2>7 DEF Separators
  <2>9. i = off[l - 1] - off[b] - 1
    <3>1. i = p - o - 1
      BY ONLY <2>1, <2>2
    <3> QED
      BY ONLY <1>2, <2>4, <2>7, <3>1
  <2> QED
    BY ONLY <2>3, <2>8, <2>9
<1>7. ASSUME w = 2, NEW j \in Separators(off, b)
      PROVE  off[j - 1] - off[b] - 1 \in 1 .. Len(held) /\ Match(CRLF2, off[j - 1] - off[b] - 1)
  <2>1. j \in b + 2 .. n /\ lines[j] = "blank" /\ off[j] <= t
    BY ONLY <1>1, <1>2, <1>7 DEF Separators
  <2>2. PICK k \in 1 .. n, l \in 1 .. n : l = j /\ k = j - 1 /\ b < k /\ k < l /\ k \in 0 .. n
    BY ONLY <1>1, <2>1
  <2>3. PICK p \in Nat, q \in Nat : p = off[k] /\ q = off[l]
    <3>1. \A h \in 0 .. n : off[h] \in Nat
      BY <1>1, Laying
    <3>2. k \in 0 .. n /\ l \in 0 .. n
      BY ONLY k \in 1 .. n, l \in 1 .. n
    <3> QED
      BY ONLY <3>1, <3>2
  <2>4. q = p + 2 /\ o + 2 <= p
    <3>1. off[l] = off[l - 1] + w
      BY <1>1, <2>1, <2>2, Laying
    <3>2. off[b] + w <= off[k]
      BY <1>1, <2>2, Laying
    <3>3. l - 1 = k
      BY ONLY <2>2, n \in Nat
    <3>4. q = p + w /\ o + w <= p
      BY ONLY <1>2, <2>3, <3>1, <3>2, <3>3
    <3> QED
      BY ONLY <1>7, <3>4
  <2>5. wire[p] = "LF" /\ wire[q] = "LF" /\ wire[p - 1] = "CR" /\ wire[q - 1] = "CR"
    <3>2. q <= t
      BY ONLY <2>1, <2>2, <2>3
    <3>3. p <= len /\ q <= len /\ p - 1 <= len /\ q - 1 <= len
      BY ONLY <1>8, <2>4, <3>2, len \in Nat
    <3>1. off[k] <= len /\ off[l] <= len /\ off[k] - 1 <= len /\ off[l] - 1 <= len
      BY ONLY <2>3, <3>3
    <3> QED
      BY <1>1, <1>7, <2>3, <3>1, TextOf
  <2>6. PICK i \in 1 .. Len(held) :
            /\ i = p - o - 1 /\ i + 3 <= t - o
            /\ o + i = p - 1 /\ o + i + 1 = p /\ o + i + 2 = q - 1 /\ o + i + 3 = q
    <3>1. q <= t
      BY ONLY <2>1, <2>2, <2>3
    <3>2. PICK i \in 1 .. t - o :
              /\ i = p - o - 1 /\ i + 3 <= t - o
              /\ o + i = p - 1 /\ o + i + 1 = p /\ o + i + 2 = q - 1 /\ o + i + 3 = q
      BY ONLY <2>4, <3>1, p \in Nat, q \in Nat
    <3> QED
      BY ONLY <1>3, <3>2
  <2>7. Match(CRLF2, i)
    BY ONLY <1>5, <2>5, <2>6
  <2> QED
    BY ONLY <1>2, <2>2, <2>3, <2>6, <2>7
<1> QED
  BY ONLY <1>6, <1>7

\* The first block ends where the first of those lines is, whichever separator ends it.
LEMMA BlockEndIs ==
    ASSUME NEW off, NEW w, Laid(off, w), NEW b \in 0 .. Len(lines), at \in 0 .. Len(wire), Holds(off, b)
    PROVE  \/ ~HasBlock /\ Separators(off, b) = {}
           \/ HasBlock /\ \E m \in Separators(off, b) :
                 /\ \A j \in Separators(off, b) : m <= j
                 /\ BlockEnd[1] = off[m - 1] - off[b] - (w - 1)
                 /\ BlockEnd[1] + BlockEnd[2] = off[m] - off[b] + 1
<1>1. PICK n \in Nat, len \in Nat : n = Len(lines) /\ len = Len(wire) /\ b \in 0 .. n
  BY Laying
<1>2. w \in {1, 2}
  BY DEF Laid
<1>3. PICK size \in Nat : size = Len(held) /\ held \in Seq(Symbols)
  BY HeldIs, LenProperties
<1>4. PICK R : R = Separators(off, b) /\ R \subseteq b + 2 .. n
  BY <1>1 DEF Separators
<1>5. PICK o \in Nat : o = off[b]
  BY HeldIs
<1>6. ASSUME NEW j \in R
      PROVE  /\ off[j - 1] \in Nat /\ off[j] = off[j - 1] + w
             /\ \A k \in R : k < j => off[k - 1] < off[j - 1]
  <2>1. j \in 1 .. n /\ j - 1 \in 0 .. n /\ lines[j] = "blank"
    BY ONLY <1>1, <1>4, <1>6 DEF Separators
  <2>2. off[j - 1] \in Nat /\ off[j] = off[j - 1] + w
    BY <1>1, <2>1, Laying
  <2>3. ASSUME NEW k \in R, k < j PROVE off[k - 1] < off[j - 1]
    <3>1. k - 1 \in 0 .. n /\ j - 1 \in 0 .. n /\ k - 1 < j - 1
      BY ONLY <1>1, <1>4, <2>1, <2>3
    <3>2. off[k - 1] + w <= off[j - 1] /\ off[k - 1] \in Nat
      BY <1>1, <3>1, Laying
    <3> QED
      BY ONLY <1>2, <2>2, <3>2
  <2> QED
    BY ONLY <2>2, <2>3
<1>7. PICK lf, crlf : lf = Found(LF2) /\ crlf = Found(CRLF2)
  OBVIOUS
<1>8. BlockEnd = IF crlf > 0 /\ (lf = 0 \/ crlf < lf) THEN <<crlf, 4>> ELSE <<lf, 2>>
  BY <1>7 DEF BlockEnd, LF2, CRLF2
<1>9. LF2 \in Seq(Symbols) /\ CRLF2 \in Seq(Symbols)
  <2>1. "LF" \in Symbols /\ "CR" \in Symbols
    BY DEF Symbols
  <2> QED
    BY <2>1 DEF LF2, CRLF2
<1>10. /\ \/ lf = 0 /\ \A i \in 1 .. size : ~Match(LF2, i)
          \/ /\ lf \in 1 .. size /\ Match(LF2, lf)
             /\ \A i \in 1 .. size : Match(LF2, i) => lf <= i
       /\ \/ crlf = 0 /\ \A i \in 1 .. size : ~Match(CRLF2, i)
          \/ /\ crlf \in 1 .. size /\ Match(CRLF2, crlf)
             /\ \A i \in 1 .. size : Match(CRLF2, i) => crlf <= i
  BY ONLY <1>3, <1>7, <1>9, FoundOf
<1>11. /\ \A i \in 1 .. size : Match(LF2, i) => w = 1 /\ \E j \in R : i = off[j - 1] - o
       /\ w = 1 => \A j \in R : off[j - 1] - o \in 1 .. size /\ Match(LF2, off[j - 1] - o)
  BY ONLY <1>3, <1>4, <1>5, Laid(off, w), b \in 0 .. Len(lines), at \in 0 .. Len(wire), Holds(off, b), SeparatorsLF
<1>12. /\ \A i \in 1 .. size : Match(CRLF2, i) => w = 2 /\ \E j \in R : i = off[j - 1] - o - 1
       /\ w = 2 => \A j \in R : off[j - 1] - o - 1 \in 1 .. size /\ Match(CRLF2, off[j - 1] - o - 1)
  BY ONLY <1>3, <1>4, <1>5, Laid(off, w), b \in 0 .. Len(lines), at \in 0 .. Len(wire), Holds(off, b), SeparatorsCRLF
<1>13. HasBlock <=> BlockEnd[1] > 0
  BY DEF HasBlock
<1>14. CASE R = {}
  <2>1. lf = 0 /\ crlf = 0
    BY ONLY <1>10, <1>11, <1>12, <1>14
  <2>2. BlockEnd[1] = 0
    BY ONLY <1>8, <2>1
  <2> QED
    BY ONLY <1>4, <1>13, <1>14, <2>2
<1>15. CASE R # {} /\ w = 1
  <2>1. crlf = 0
    BY ONLY <1>10, <1>12, <1>15
  <2>2. lf \in 1 .. size /\ Match(LF2, lf) /\ \A i \in 1 .. size : Match(LF2, i) => lf <= i
    BY ONLY <1>10, <1>11, <1>15
  <2>3. PICK m \in R : lf = off[m - 1] - o
    BY ONLY <1>11, <2>2
  <2>4. ASSUME NEW j \in R PROVE m <= j
    <3> SUFFICES ASSUME ~(m <= j) PROVE FALSE
      OBVIOUS
    <3>1. j < m
      BY ONLY <1>1, <1>4, ~(m <= j), m \in R, j \in R
    <3>2. off[j - 1] < off[m - 1] /\ off[j - 1] \in Nat /\ off[m - 1] \in Nat
      BY ONLY <1>6, <3>1
    <3>3. lf <= off[j - 1] - o
      BY ONLY <1>11, <1>15, <2>2, j \in R
    <3> QED
      BY ONLY <1>5, <2>3, <3>2, <3>3
  <2>5. BlockEnd[1] = lf /\ BlockEnd[2] = 2
    BY ONLY <1>8, <2>1
  <2>6. lf + 2 = off[m] - o + 1 /\ lf = off[m - 1] - o - (w - 1) /\ lf > 0
    <3>1. off[m - 1] \in Nat /\ off[m] = off[m - 1] + w
      BY ONLY <1>6
    <3> QED
      <4>1. PICK u \in Nat, v \in Nat : u = off[m - 1] /\ v = off[m] /\ v = u + w
        BY ONLY <1>15, <3>1
      <4>2. v = u + w /\ lf = u - o /\ lf > 0
        BY ONLY <2>2, <2>3, <4>1
      <4>3. lf + 2 = v - o + 1 /\ lf = u - o - (w - 1) /\ lf > 0
        BY ONLY <1>15, <4>2
      <4> QED
        BY ONLY <4>1, <4>3
  <2> QED
    BY ONLY <1>4, <1>5, <1>13, <2>4, <2>5, <2>6
<1>16. CASE R # {} /\ w = 2
  <2>1. lf = 0
    BY ONLY <1>10, <1>11, <1>16
  <2>2. crlf \in 1 .. size /\ Match(CRLF2, crlf) /\ \A i \in 1 .. size : Match(CRLF2, i) => crlf <= i
    BY ONLY <1>10, <1>12, <1>16
  <2>3. PICK m \in R : crlf = off[m - 1] - o - 1
    BY ONLY <1>12, <2>2
  <2>4. ASSUME NEW j \in R PROVE m <= j
    <3> SUFFICES ASSUME ~(m <= j) PROVE FALSE
      OBVIOUS
    <3>1. j < m
      BY ONLY <1>1, <1>4, ~(m <= j), m \in R, j \in R
    <3>2. off[j - 1] < off[m - 1] /\ off[j - 1] \in Nat /\ off[m - 1] \in Nat
      BY ONLY <1>6, <3>1
    <3>3. crlf <= off[j - 1] - o - 1
      BY ONLY <1>12, <1>16, <2>2, j \in R
    <3> QED
      BY ONLY <1>5, <2>3, <3>2, <3>3
  <2>5. BlockEnd[1] = crlf /\ BlockEnd[2] = 4
    <3>1. crlf > 0
      BY ONLY <1>3, <2>2
    <3> QED
      BY ONLY <1>8, <2>1, <3>1
  <2>6. crlf + 4 = off[m] - o + 1 /\ crlf = off[m - 1] - o - (w - 1) /\ crlf > 0
    <3>1. off[m - 1] \in Nat /\ off[m] = off[m - 1] + w
      BY ONLY <1>6
    <3> QED
      <4>1. PICK u \in Nat, v \in Nat : u = off[m - 1] /\ v = off[m] /\ v = u + w
        BY ONLY <1>16, <3>1
      <4>2. v = u + w /\ crlf = u - o - 1 /\ crlf > 0
        BY ONLY <2>2, <2>3, <4>1
      <4>3. crlf + 4 = v - o + 1 /\ crlf = u - o - (w - 1) /\ crlf > 0
        BY ONLY <1>16, <4>2
      <4> QED
        BY ONLY <4>1, <4>3
  <2> QED
    BY ONLY <1>4, <1>5, <1>13, <2>4, <2>5, <2>6
<1> QED
  BY ONLY <1>2, <1>14, <1>15, <1>16

\* Between a blank line and the first ready one only the line after it may be blank, and
\* none closes a block.
LEMMA FirstSeparator ==
    ASSUME NEW off, NEW w, Laid(off, w), reader # "lab", NEW b \in 0 .. Len(lines),
           at \in 0 .. Len(wire), Holds(off, b), NEW i \in Nat, b < i,
           \A j \in Separators(off, b) : i <= j, \A j \in 0 .. Len(lines) : j < i /\ j <= Len(Closed) => off[j] <= at
    PROVE  /\ b <= Len(Closed)
           /\ i <= Len(Closed) + 1 => DataBefore(Closed, i) = {j \in b + 1 .. i - 1 : IsData(Closed[j])}
           /\ \A j \in Closers(Closed) : j \in Nat /\ ~(b < j /\ j < i)
<1>1. PICK n \in Nat, len \in Nat, size \in Nat :
          n = Len(lines) /\ len = Len(wire) /\ size = Len(Closed) /\ size <= n /\ b \in 0 .. n
  BY Laying, ClosedIs
<1>2. /\ Closed \in Seq(Texts) /\ DOMAIN Closed = 1 .. size
      /\ \A k \in 0 .. n : off[k] <= len <=> k <= size
      /\ \A k \in 1 .. size : Closed[k] = lines[k]
  <2>1. Closed \in Seq(Texts)
    BY ClosedIs
  <2> QED
    BY <1>1, <2>1, ClosedIs, LenProperties
<1>3. PICK t \in Nat : t = at /\ t <= len
  BY <1>1
<1>4. b <= size
  <2>1. PICK o \in Nat : o = off[b] /\ o <= t
    BY <1>3, HeldIs DEF Holds
  <2>2. o <= len
    BY ONLY <1>3, <2>1, len \in Nat
  <2> QED
    BY ONLY <1>1, <1>2, <2>1, <2>2
<1>5. PICK C : C = Closed
  OBVIOUS
<1>6. b = 0 \/ C[b] = "blank"
  <2>1. b = 0 \/ b \in 1 .. size
    BY ONLY <1>1, <1>4
  <2> QED
    BY ONLY <1>2, <1>5, <2>1, Holds(off, b) DEF Holds
<1>7. ASSUME NEW j \in b + 2 .. i - 1, j <= size PROVE C[j] # "blank"
  <2> SUFFICES ASSUME C[j] = "blank" PROVE FALSE
    OBVIOUS
  <2>1. j \in 1 .. size /\ j \in 0 .. n /\ j \in b + 2 .. n /\ j < i /\ ~(i <= j)
    BY ONLY <1>1, <1>7, i \in Nat
  <2>2. lines[j] = "blank" /\ off[j] <= at
    BY ONLY <1>1, <1>2, <1>5, <2>1, C[j] = "blank",
            \A k \in 0 .. Len(lines) : k < i /\ k <= Len(Closed) => off[k] <= at
  <2>3. j \in Separators(off, b)
    BY ONLY <1>1, <2>1, <2>2 DEF Separators
  <2> QED
    BY ONLY <2>1, <2>3, \A k \in Separators(off, b) : i <= k
<1>8. ASSUME i <= size + 1 PROVE DataBefore(C, i) = {j \in b + 1 .. i - 1 : IsData(C[j])}
  <2>1. \A j \in b + 2 .. i - 1 : j <= size
    BY ONLY <1>1, <1>8, i \in Nat
  <2>2. \A j \in b + 2 .. i - 1 : C[j] # "blank"
    BY ONLY <1>7, <2>1
  <2>3. b \in Nat
    BY ONLY <1>1
  <2> QED
    BY ONLY <1>6, <2>2, <2>3, i \in Nat, b < i, DataSince
<1>9. ASSUME NEW j \in Closers(C) PROVE j \in Nat /\ ~(b < j /\ j < i)
  <2>1. j \in 1 .. size /\ C[j] = "blank" /\ DataBefore(C, j) # {}
    BY ONLY <1>2, <1>5, <1>9 DEF Closers
  <2>2. j # b + 1
    <3>1. DataBefore(C, b + 1) = {}
      <4>1. CASE b = 0
        <5>1. b + 1 = 1
          BY ONLY <4>1
        <5> QED
          BY ONLY <5>1, DataFirst
      <4>2. CASE b # 0
        <5>1. b \in Nat /\ b > 0 /\ C[b] = "blank"
          BY ONLY <1>1, <1>6, <4>2
        <5> QED
          BY ONLY <5>1, DataNext
      <4> QED
        BY ONLY <4>1, <4>2
    <3> QED
      BY ONLY <2>1, <3>1
  <2>3. b < j /\ j < i => j \in b + 2 .. i - 1 /\ j <= size
    BY ONLY <1>1, <2>1, <2>2, i \in Nat
  <2>4. ~(b < j /\ j < i)
    BY ONLY <1>7, <2>1, <2>3
  <2> QED
    BY ONLY <1>1, <2>1, <2>4
<1> QED
  BY ONLY <1>1, <1>4, <1>5, <1>8, <1>9

\* The data of the first block is that of the lines before the one that closes it.
LEMMA BlockData ==
    ASSUME NEW off, NEW w, Laid(off, w), reader # "lab", NEW b \in 0 .. Len(lines),
           at \in 0 .. Len(wire), Holds(off, b), NEW m \in Separators(off, b),
           DataBefore(Closed, m) = {j \in b + 1 .. m - 1 : IsData(Closed[j])}
    PROVE  DataOf(SubSeq(held, 1, off[m - 1] - off[b] - (w - 1) - 1)) = RowsAt(Closed, DataBefore(Closed, m))
<1>1. PICK n \in Nat, len \in Nat : n = Len(lines) /\ len = Len(wire) /\ b \in 0 .. n
  BY Laying
<1>2. w \in {1, 2}
  BY DEF Laid
<1>3. m \in b + 2 .. n /\ m \in 1 .. n /\ off[m] <= at /\ lines[m] = "blank"
  BY ONLY <1>1, m \in Separators(off, b) DEF Separators
<1>4. /\ \A i \in 0 .. n : off[i] \in Nat
      /\ \A i, j \in 0 .. n : i < j => off[i] + w <= off[j]
      /\ off[m] = off[m - 1] + w
  BY <1>1, <1>3, Laying
<1>5. PICK k \in 0 .. n : k = m - 1 /\ b < k /\ k < m /\ k < n
  BY ONLY <1>1, <1>3
<1>6. PICK o \in Nat, t \in Nat, u \in Nat, v \in Nat : o = off[b] /\ t = at /\ u = off[k] /\ v = off[m]
  <2>1. off[b] \in Nat /\ at \in Nat
    BY HeldIs
  <2>2. m \in 0 .. n
    BY ONLY <1>1, <1>3
  <2> QED
    BY ONLY <1>4, <2>1, <2>2
<1>7. o + w <= u /\ v = u + w /\ v <= t
  BY ONLY <1>1, <1>3, <1>4, <1>5, <1>6
<1>8. t <= len
  BY <1>1, <1>6
<1>9. PICK e \in Nat : e = u - o - w /\ e <= t - o /\ e = u - o - (w - 1) - 1 /\ o + e = u - w /\ o + e <= len
  BY ONLY <1>2, <1>7, <1>8, len \in Nat
<1>10. PICK block : block = SubSeq(held, 1, e)
  OBVIOUS
<1>11. block \in Seq(Symbols) /\ Len(block) = e /\ DOMAIN block = 1 .. e /\ \A i \in 1 .. e : block[i] = wire[o + i]
  <2>1. held \in Seq(Symbols) /\ Len(held) = t - o /\ \A i \in 1 .. t - o : held[i] = wire[o + i]
    BY <1>6, HeldIs
  <2>2. 0 + 1 = 1 /\ e - 0 = e /\ 0 <= e /\ 0 \in Nat /\ \A i \in 1 .. e : 0 + i = i /\ i \in 1 .. t - o
    BY ONLY <1>9
  <2>3. block \in Seq(Symbols) /\ Len(block) = e /\ \A i \in 1 .. e : block[i] = held[0 + i]
    <3>1. PICK zero \in Nat : zero = 0 /\ zero + 1 = 1 /\ e - zero = e /\ zero <= e
      BY ONLY <2>2
    <3>2. held \in Seq(Symbols) /\ e <= Len(held)
      BY ONLY <1>9, <2>1
    <3>3. PICK all : all = SubSeq(held, zero + 1, e)
      OBVIOUS
    <3>4. all \in Seq(Symbols) /\ Len(all) = e - zero /\ \A i \in 1 .. e - zero : all[i] = held[zero + i]
      BY ONLY <3>1, <3>2, <3>3, zero \in Nat, e \in Nat, Slice, SMTT(20)
    <3>5. all = block
      BY ONLY <1>10, <3>1, <3>3
    <3> QED
      BY ONLY <3>1, <3>4, <3>5
  <2>4. DOMAIN block = 1 .. e
    BY ONLY <2>3, LenProperties
  <2> QED
    BY ONLY <2>1, <2>2, <2>3, <2>4
<1>0. PICK C : C = Closed
  OBVIOUS
<1>12. PICK size \in Nat :
           /\ size = Len(C) /\ C \in Seq(Texts) /\ m <= size /\ size <= n
           /\ \A j \in 1 .. size : C[j] = lines[j]
  <2>1. /\ Closed \in Seq(Texts) /\ Len(Closed) \in 0 .. Len(lines)
        /\ \A j \in 0 .. Len(lines) : off[j] <= Len(wire) <=> j <= Len(Closed)
        /\ \A j \in 1 .. Len(Closed) : Closed[j] = lines[j]
    BY ONLY Laid(off, w), reader # "lab", ClosedIs
  <2>2. v <= len
    BY ONLY <1>7, <1>8, len \in Nat
  <2>3. m \in 0 .. Len(lines) /\ off[m] <= Len(wire)
    BY ONLY <1>1, <1>3, <1>6, <2>2
  <2>4. m <= Len(Closed)
    BY ONLY <2>1, <2>3
  <2>5. PICK size \in Nat : size = Len(Closed) /\ size <= n
    BY ONLY <1>1, <2>1
  <2> QED
    BY ONLY <1>0, <2>1, <2>4, <2>5
<1> DEFINE J == {i \in 1 .. e : IsData(block[i])}
           I == {j \in b + 1 .. m - 1 : IsData(C[j])}
           f == [j \in I |-> off[j - 1] + 1 - o]
<1>13. ASSUME NEW j \in I
       PROVE  /\ j \in 1 .. k /\ C[j] = lines[j] /\ off[j - 1] \in Nat
              /\ f[j] \in J /\ block[f[j]] = C[j]
              /\ \A h \in I : h < j => off[h - 1] < off[j - 1]
  <2>1. j \in b + 1 .. m - 1 /\ IsData(C[j])
    OBVIOUS
  <2>2. j \in 1 .. n /\ j - 1 \in 0 .. n /\ j \in 0 .. n /\ j \in 1 .. k /\ b <= j - 1 /\ j <= k /\ j \in 1 .. size
    BY ONLY <1>1, <1>3, <1>5, <1>12, <2>1
  <2>3. C[j] = lines[j]
    BY ONLY <1>12, <2>2
  <2>4. lines[j] # "blank"
    BY ONLY <2>1, <2>3 DEF IsData
  <2>5. PICK x \in Nat, y \in Nat : x = off[j - 1] /\ y = off[j] /\ y = x + w + 1
    <3>1. off[j] = off[j - 1] + w + 1
      BY <1>1, <2>2, <2>4, Laying
    <3> QED
      BY ONLY <1>4, <2>2, <3>1
  <2>6. o <= x /\ y <= u
    <3>1. b = j - 1 \/ off[b] + w <= off[j - 1]
      BY ONLY <1>1, <1>4, <2>2
    <3>2. j = k \/ off[j] + w <= off[k]
      BY ONLY <1>1, <1>4, <1>5, <2>2
    <3>3. (o = x \/ o + w <= x) /\ (y = u \/ y + w <= u)
      BY ONLY <1>6, <2>5, <3>1, <3>2
    <3> QED
      BY ONLY <1>2, <3>3, o \in Nat, x \in Nat, y \in Nat, u \in Nat
  <2>7. PICK i \in 1 .. e : i = x + 1 - o /\ o + i = x + 1
    <3>1. y = x + w + 1
      BY ONLY <2>5
    <3> QED
      BY ONLY <1>2, <1>9, <2>6, <3>1, o \in Nat, x \in Nat, y \in Nat, u \in Nat
  <2>8. f[j] = i
    BY ONLY <2>5, <2>7, j \in I
  <2>9. block[i] = lines[j]
    <3>1. wire[off[j - 1] + 1] = lines[j]
      BY <1>1, <2>2, <2>4, TextOf
    <3> QED
      BY ONLY <1>11, <2>5, <2>7, <3>1
  <2>10. ASSUME NEW h \in I, h < j PROVE off[h - 1] < off[j - 1]
    <3>1. h - 1 \in 0 .. n /\ h - 1 < j - 1
      BY ONLY <1>1, <1>3, <2>2, <2>10
    <3>2. off[h - 1] \in Nat /\ off[h - 1] + w <= off[j - 1]
      BY ONLY <1>4, <2>2, <3>1
    <3>3. PICK z \in Nat : z = off[h - 1] /\ z + w <= x
      BY ONLY <2>5, <3>2
    <3>4. z < x
      BY ONLY <1>2, <3>3, x \in Nat
    <3> QED
      BY ONLY <2>5, <3>3, <3>4
  <2>11. i \in J
    BY ONLY <2>1, <2>3, <2>9
  <2>12. off[j - 1] \in Nat
    BY ONLY <2>5
  <2> HIDE DEF I, J, f
  <2> QED
    BY ONLY <2>2, <2>3, <2>8, <2>9, <2>10, <2>11, <2>12
<1>14. ASSUME NEW i \in J PROVE \E j \in I : f[j] = i
  <2>1. i \in 1 .. e /\ IsData(block[i]) /\ block[i] = wire[o + i]
    BY ONLY <1>11, <1>14
  <2>2. PICK p \in 1 .. len : p = o + i /\ p <= u - w /\ o < p
    BY ONLY <1>9, <2>1, len \in Nat
  <2>3. PICK l \in 1 .. n :
            /\ off[l - 1] < p /\ p <= off[l]
            /\ \/ p = off[l - 1] + 1 /\ lines[l] # "blank" /\ wire[p] = lines[l] /\ p + w = off[l]
               \/ p = off[l] /\ wire[p] = "LF"
               \/ w = 2 /\ p + 1 = off[l] /\ wire[p] = "CR"
    BY ONLY <1>1, Laid(off, w), Places
  <2>4. IsData(wire[p])
    BY ONLY <2>1, <2>2
  <2>5. p = off[l - 1] + 1 /\ wire[p] = lines[l]
    BY ONLY <2>3, <2>4 DEF IsData
  <2>6. l \in 0 .. n /\ l - 1 \in 0 .. n
    BY ONLY n \in Nat, l \in 1 .. n
  <2>7. PICK x \in Nat, y \in Nat : x = off[l - 1] /\ y = off[l] /\ x < p /\ p <= y
    BY ONLY <1>4, <2>3, <2>6
  <2>8. b < l
    <3>1. off[b] < off[l]
      <4>1. o < y
        BY ONLY <2>2, <2>7
      <4> QED
        BY ONLY <1>6, <2>7, <4>1
    <3> QED
      BY ONLY <1>1, <3>1, Laid(off, w), Adjacent
  <2>9. l <= k
    <3> SUFFICES ASSUME ~(l <= k) PROVE FALSE
      OBVIOUS
    <3>1. k = l - 1 \/ k < l - 1
      BY ONLY <1>5, <2>6, ~(l <= k), n \in Nat
    <3>2. k = l - 1 \/ off[k] + w <= off[l - 1]
      BY ONLY <1>4, <1>5, <2>6, <3>1
    <3>3. x = u \/ u + w <= x
      BY ONLY <1>6, <2>7, <3>2
    <3>4. x < p /\ p <= u - w
      BY ONLY <2>2, <2>7
    <3> QED
      BY ONLY <1>2, <3>3, <3>4, x \in Nat, u \in Nat, p \in 1 .. len
  <2>10. l \in b + 1 .. m - 1 /\ l \in 1 .. size
    BY ONLY <1>1, <1>3, <1>5, <1>12, <2>6, <2>8, <2>9
  <2>11. C[l] = wire[p]
    BY ONLY <1>12, <2>5, <2>10
  <2>12. l \in I
    BY ONLY <2>4, <2>10, <2>11
  <2>13. x + 1 - o = i
    <3>1. p = x + 1
      BY ONLY <2>5, <2>7
    <3> QED
      BY ONLY <2>1, <2>2, <3>1, x \in Nat, o \in Nat
  <2>14. f[l] = i
    BY ONLY <2>7, <2>12, <2>13
  <2> HIDE DEF I, J, f
  <2> QED
    BY ONLY <2>12, <2>14
<1>15. \A h, i \in I : h < i => f[h] < f[i]
  <2> SUFFICES ASSUME NEW h \in I, NEW i \in I, h < i PROVE f[h] < f[i]
    OBVIOUS
  <2>1. PICK x \in Nat, y \in Nat : x = off[h - 1] /\ y = off[i - 1] /\ x < y
    BY ONLY <1>13, h < i
  <2>2. x + 1 - o < y + 1 - o
    BY ONLY <2>1
  <2> QED
    BY ONLY <2>1, <2>2
<1>16. f \in [I -> J] /\ \A i \in I : C[i] = block[f[i]]
  BY ONLY <1>13
<1>17. I \subseteq 1 .. k /\ J \subseteq 1 .. e
  BY ONLY <1>13
<1> HIDE DEF I, J, f
<1>18. RowsAt(C, I) = RowsAt(block, J)
  <2>1. k \in Nat
    BY ONLY <1>1
  <2> QED
    <3>1. PICK K : K = I
      OBVIOUS
    <3>2. PICK L : L = J
      OBVIOUS
    <3>3. PICK g : g = f
      OBVIOUS
    <3>4. g \in [K -> L] /\ \A i \in K : C[i] = block[g[i]]
      BY ONLY <1>16, <3>1, <3>2, <3>3
    <3>5. \A j \in L : \E i \in K : g[i] = j
      BY ONLY <1>14, <3>1, <3>2, <3>3
    <3>6. \A h, i \in K : h < i => g[h] < g[i]
      BY ONLY <1>15, <3>1, <3>3
    <3>7. K \subseteq 1 .. k /\ L \subseteq 1 .. e
      BY ONLY <1>17, <3>1, <3>2
    <3>8. RowsAt(C, K) = RowsAt(block, L)
      <4>1. Matches(K, L, C, block, g)
        BY ONLY <3>4, <3>5, <3>6 DEF Matches
      <4>2. K \subseteq DOMAIN C /\ L \subseteq DOMAIN block
        <5>1. DOMAIN C = 1 .. size
          BY ONLY <1>12, LenProperties
        <5> QED
          <6>1. 1 .. k \subseteq 1 .. size
            BY ONLY <1>1, <1>3, <1>5, <1>12
          <6>2. DOMAIN block = 1 .. e
            BY ONLY <1>11
          <6> QED
            BY ONLY <3>7, <5>1, <6>1, <6>2
      <4>3. C \in Seq(Texts) /\ block \in Seq(Symbols)
        BY ONLY <1>11, <1>12
      <4> QED
        BY ONLY <4>1, <4>2, <4>3, RowsMatch
    <3> QED
      BY ONLY <3>1, <3>2, <3>8
<1>19. DataOf(block) = RowsAt(block, J)
  BY ONLY <1>11 DEF DataOf, J
<1>20. DataBefore(Closed, m) = I
  BY ONLY <1>0, DataBefore(Closed, m) = {j \in b + 1 .. m - 1 : IsData(Closed[j])} DEF I
<1> QED
  BY ONLY <1>0, <1>5, <1>6, <1>9, <1>10, <1>18, <1>19, <1>20

\* A block taken: the next one that the lines close, or blank lines.
LEMMA TakeBlockStep ==
    ASSUME NEW off, NEW w, Laid(off, w), reader # "lab", NEW b \in 0 .. Len(lines),
           at \in 0 .. Len(wire), Holds(off, b), Yielded(events, Closed, b), TakeBlock
    PROVE  \/ /\ outcome' = "reading"
              /\ \E m \in 0 .. Len(lines) :
                    /\ lines[m] = "blank" /\ off[m] <= at
                    /\ held' = SubSeq(wire, off[m] + 1, at)
                    /\ Yielded(events', Closed, m)
           \/ Final(events', outcome', Closed) /\ Stop(Closed) # <<>>
<1>1. PICK n \in Nat, len \in Nat : n = Len(lines) /\ len = Len(wire) /\ b \in 0 .. n
  BY Laying
<1>2. w \in {1, 2} /\ wire \in Seq(Symbols)
  BY DEF Laid
<1>3. HasBlock /\ outcome = "reading" /\ at' = at
  BY DEF TakeBlock, Reading
<1>4. PICK m \in Separators(off, b) :
          /\ \A j \in Separators(off, b) : m <= j
          /\ BlockEnd[1] = off[m - 1] - off[b] - (w - 1)
          /\ BlockEnd[1] + BlockEnd[2] = off[m] - off[b] + 1
  BY ONLY <1>3, Laid(off, w), b \in 0 .. Len(lines), at \in 0 .. Len(wire), Holds(off, b), BlockEndIs
<1>5. m \in b + 2 .. n /\ lines[m] = "blank" /\ off[m] <= at
  BY ONLY <1>1, <1>4 DEF Separators
<1>6. m \in 0 .. n /\ m \in 1 .. n /\ m \in Nat /\ m > 0 /\ b \in Nat /\ b < m /\ b <= m
  BY ONLY <1>1, <1>5
<1>7. PICK o \in Nat, t \in Nat, v \in Nat : o = off[b] /\ t = at /\ v = off[m]
  <2>1. off[b] \in Nat /\ at \in Nat
    BY HeldIs
  <2>2. off[m] \in Nat
    BY <1>1, <1>6, Laying
  <2> QED
    BY ONLY <2>1, <2>2
<1>8. t <= len /\ v <= t /\ o <= v
  <2>1. off[b] + w <= off[m]
    BY <1>1, <1>6, Laying
  <2>2. o + w <= v
    BY ONLY <1>7, <2>1
  <2>3. t <= len
    BY <1>1, <1>7
  <2> QED
    BY ONLY <1>2, <1>5, <1>7, <2>2, <2>3
<1>0. PICK C : C = Closed
  OBVIOUS
<1>9. PICK size \in Nat : C = Closed /\ size = Len(C) /\ C \in Seq(Texts) /\ m <= size /\ C[m] = "blank"
  <2>1. /\ Closed \in Seq(Texts) /\ Len(Closed) \in 0 .. Len(lines)
        /\ \A j \in 0 .. Len(lines) : off[j] <= Len(wire) <=> j <= Len(Closed)
        /\ \A j \in 1 .. Len(Closed) : Closed[j] = lines[j]
    BY ONLY Laid(off, w), reader # "lab", ClosedIs
  <2>2. v <= len
    BY ONLY <1>8, len \in Nat
  <2>3. m <= Len(Closed)
    BY ONLY <1>1, <1>6, <1>7, <2>1, <2>2
  <2>4. Len(Closed) \in Nat /\ m \in 1 .. Len(Closed)
    BY ONLY <1>1, <1>6, <2>1, <2>3
  <2>5. Closed[m] = "blank"
    BY ONLY <1>5, <2>1, <2>4
  <2> QED
    BY ONLY <1>0, <2>1, <2>3, <2>4, <2>5
<1>10. /\ DataBefore(C, m) = {j \in b + 1 .. m - 1 : IsData(C[j])}
       /\ \A j \in Closers(C) : j \in Nat /\ ~(b < j /\ j < m)
  <2>1. \A j \in 0 .. Len(lines) : j < m /\ j <= Len(Closed) => off[j] <= at
    <3> SUFFICES ASSUME NEW j \in 0 .. n, j < m PROVE off[j] <= at
      BY <1>1
    <3>1. off[j] + w <= off[m] /\ off[j] \in Nat
      BY <1>1, <1>6, Laying
    <3>2. PICK x \in Nat : x = off[j] /\ x + w <= v
      BY ONLY <1>7, <3>1
    <3>3. x <= t
      BY ONLY <1>2, <1>8, <3>2
    <3> QED
      BY ONLY <1>7, <3>2, <3>3
  <2>2. m <= Len(Closed) + 1
    BY ONLY <1>9, <1>6
  <2>3. /\ m <= Len(Closed) + 1 => DataBefore(Closed, m) = {j \in b + 1 .. m - 1 : IsData(Closed[j])}
        /\ \A j \in Closers(Closed) : j \in Nat /\ ~(b < j /\ j < m)
    BY ONLY <1>4, <1>6, <2>1, Laid(off, w), reader # "lab", b \in 0 .. Len(lines),
            at \in 0 .. Len(wire), Holds(off, b), FirstSeparator
  <2> QED
    BY ONLY <1>9, <2>2, <2>3
<1>11. PICK data : data = DataOf(SubSeq(held, 1, BlockEnd[1] - 1)) /\ data = RowsAt(C, DataBefore(C, m))
  <2>1. DataBefore(Closed, m) = {j \in b + 1 .. m - 1 : IsData(Closed[j])}
    BY ONLY <1>9, <1>10
  <2>2. DataOf(SubSeq(held, 1, off[m - 1] - off[b] - (w - 1) - 1)) = RowsAt(Closed, DataBefore(Closed, m))
    BY ONLY <2>1, Laid(off, w), reader # "lab", b \in 0 .. Len(lines),
            at \in 0 .. Len(wire), Holds(off, b), m \in Separators(off, b), BlockData
  <2> QED
    BY ONLY <1>4, <1>9, <2>2
<1>12. held' = SubSeq(wire, off[m] + 1, at)
  <2>1. PICK a \in Nat, e \in Nat : a = v - o /\ e = t - o /\ a <= e /\ o + a = v
    BY ONLY <1>8, o \in Nat, t \in Nat, v \in Nat
  <2>2. held \in Seq(Symbols) /\ Len(held) = e /\ \A i \in 1 .. e : held[i] = wire[o + i]
    BY <1>7, <2>1, HeldIs
  <2>3. held' = SubSeq(held, BlockEnd[1] + BlockEnd[2], Len(held))
    BY DEF TakeBlock
  <2>4. BlockEnd[1] + BlockEnd[2] = a + 1
    BY ONLY <1>4, <1>7, <2>1
  <2>5. PICK h : h = SubSeq(held, a + 1, e)
    OBVIOUS
  <2>6. h \in Seq(Symbols) /\ Len(h) = e - a /\ \A i \in 1 .. e - a : h[i] = held[a + i]
    <3>1. a <= e /\ held \in Seq(Symbols)
      BY ONLY <2>1, <2>2
    <3>2. e <= Len(held)
      BY ONLY <2>2, e \in Nat
    <3> QED
      BY ONLY <2>5, <3>1, <3>2, a \in Nat, e \in Nat, Slice, SMTT(20)
  <2>7. PICK g : g = SubSeq(wire, v + 1, t)
    OBVIOUS
  <2>8. g \in Seq(Symbols) /\ Len(g) = t - v /\ \A i \in 1 .. t - v : g[i] = wire[v + i]
    BY ONLY <1>1, <1>2, <1>8, <2>7, v \in Nat, t \in Nat, Slice
  <2>9. e - a = t - v /\ \A i \in 1 .. e - a : a + i \in 1 .. e /\ o + (a + i) = v + i
    BY ONLY <2>1, o \in Nat, t \in Nat, v \in Nat
  <2>10. \A i \in 1 .. e - a : h[i] = g[i]
    <3> SUFFICES ASSUME NEW i \in 1 .. e - a PROVE h[i] = g[i]
      OBVIOUS
    <3>1. h[i] = wire[o + (a + i)]
      BY ONLY <2>2, <2>6, <2>9
    <3>2. g[i] = wire[v + i]
      BY ONLY <2>8, <2>9
    <3> QED
      BY ONLY <2>9, <3>1, <3>2
  <2>11. h = g
    BY ONLY <2>6, <2>8, <2>9, <2>10, SeqEqual
  <2> QED
    BY ONLY <1>7, <2>2, <2>3, <2>4, <2>5, <2>7, <2>11
<1>13. ASSUME Yielded(events', C, m), outcome' = "reading"
       PROVE  /\ outcome' = "reading"
              /\ \E j \in 0 .. Len(lines) :
                    /\ lines[j] = "blank" /\ off[j] <= at
                    /\ held' = SubSeq(wire, off[j] + 1, at)
                    /\ Yielded(events', Closed, j)
  BY ONLY <1>1, <1>5, <1>6, <1>9, <1>12, <1>13
<1>14. IF data = <<>> THEN events' = events /\ outcome' = outcome ELSE Dispatch(data)
  <2>1. LET d == DataOf(SubSeq(held, 1, BlockEnd[1] - 1))
        IN  IF d = <<>> THEN UNCHANGED <<events, outcome>> ELSE Dispatch(d)
    BY DEF TakeBlock
  <2> QED
    BY ONLY <1>11, <2>1
<1>15. Yielded(events, C, b)
  BY ONLY <1>9, Yielded(events, Closed, b)
<1>16. m \in Closers(C) <=> data # <<>>
  <2>1. DOMAIN C = 1 .. size /\ m \in 1 .. size
    BY ONLY <1>6, <1>9, LenProperties
  <2>2. b + 1 .. m - 1 \subseteq 1 .. size
    BY ONLY <1>6, <2>1, size \in Nat
  <2>3. DataBefore(C, m) \subseteq DOMAIN C
    BY ONLY <1>10, <2>1, <2>2
  <2>4. C \in Seq(Texts)
    BY ONLY <1>9
  <2>5. RowsAt(C, DataBefore(C, m)) = <<>> <=> DataBefore(C, m) = {}
    BY ONLY <2>3, <2>4, RowsOfNone
  <2>6. m \in Closers(C) <=> DataBefore(C, m) # {}
    BY ONLY <1>9, <2>1 DEF Closers
  <2> QED
    BY ONLY <1>11, <2>5, <2>6
<1>17. CASE data = <<>>
  <2>1. events' = events /\ outcome' = "reading"
    BY ONLY <1>3, <1>14, <1>17
  <2>2. \A j \in Closers(C) : ~(b < j /\ j <= m)
    BY ONLY <1>6, <1>10, <1>16, <1>17
  <2>3. Yielded(events, C, m)
    <3>1. C \in Seq(Texts)
      BY ONLY <1>9
    <3> QED
      BY ONLY <1>6, <1>15, <2>2, <3>1, YieldedSame
  <2> QED
    BY ONLY <1>13, <2>1, <2>3
<1>18. CASE data # <<>>
  <2>1. Dispatch(data) /\ m \in Closers(C)
    BY ONLY <1>14, <1>16, <1>18
  <2>2. /\ Parses(data) => Yielded(Append(events, data), C, m)
        /\ ~Parses(data) => events = Events(C) /\ Stop(C) = data
    <3>1. C \in Seq(Texts) /\ \A j \in Closers(C) : ~(b < j /\ j < m)
      BY ONLY <1>9, <1>10
    <3>2. data = RowsAt(C, DataBefore(C, m))
      BY ONLY <1>11
    <3> QED
      BY ONLY <1>6, <1>15, <2>1, <3>1, <3>2, Dispatched
  <2>3. CASE Parses(data)
    <3>1. outcome' = "reading" /\ events' = Append(events, data)
      <4>1. data # <<"[DONE]">>
        BY ONLY <2>3, DoneIsNoValue
      <4> QED
        BY ONLY <2>1, <2>3, <4>1 DEF Dispatch
    <3> QED
      BY ONLY <1>13, <2>2, <2>3, <3>1
  <2>4. CASE ~Parses(data)
    <3>1. events' = events /\ outcome' = IF data = <<"[DONE]">> THEN "ended" ELSE "raised"
      BY ONLY <2>1, <2>4 DEF Dispatch
    <3>2. events = Events(C) /\ Stop(C) = data
      BY ONLY <2>2, <2>4
    <3>3. Final(events', outcome', Closed) /\ Stop(Closed) # <<>>
      BY ONLY <1>9, <1>18, <3>1, <3>2 DEF Final
    <3> QED
      BY ONLY <3>3
  <2> QED
    BY ONLY <2>3, <2>4
<1> QED
  BY ONLY <1>17, <1>18

\* A chunk read: what is held is still the bytes since the last block.
LEMMA ChunkStep ==
    ASSUME NEW off, NEW w, Laid(off, w), NEW b \in 0 .. Len(lines),
           at \in 0 .. Len(wire), Holds(off, b), Chunk
    PROVE  /\ at' \in 0 .. Len(wire) /\ off[b] <= at'
           /\ held' = SubSeq(wire, off[b] + 1, at')
           /\ outcome' \in {"reading", "refused"}
<1>1. PICK n \in Nat, len \in Nat : n = Len(lines) /\ len = Len(wire) /\ b \in 0 .. n
  BY Laying
<1>2. wire \in Seq(Symbols)
  BY DEF Laid
<1>3. PICK o \in Nat, t \in Nat : o = off[b] /\ t = at
  BY HeldIs
<1>4. o <= t /\ t <= len /\ held = SubSeq(wire, o + 1, t)
  BY <1>1, <1>3 DEF Holds
<1>5. PICK c \in 1 .. MaxChunk :
          at + c <= Len(wire) /\ at' = at + c /\ held' = held \o SubSeq(wire, at + 1, at + c)
  BY DEF Chunk
<1>6. PICK s \in Nat : s = t + c /\ s <= len /\ at' = s /\ held' = held \o SubSeq(wire, t + 1, s) /\ t <= s
  <2>1. c \in Nat
    BY FramingAssumption
  <2> QED
    BY ONLY <1>1, <1>3, <1>5, <2>1, SMTT(20)
<1>7. held' = SubSeq(wire, o + 1, s)
  <2>1. PICK m \in Nat : m = o + 1 /\ m \in 1 .. Len(wire) + 1 /\ t \in m - 1 .. Len(wire) /\ s \in t .. Len(wire)
    BY ONLY <1>1, <1>4, <1>6, o \in Nat, t \in Nat
  <2>2. SubSeq(wire, m, t) \o SubSeq(wire, t + 1, s) = SubSeq(wire, m, s)
    BY ONLY <1>2, <2>1, ConcatAdjacentSubSeq
  <2> QED
    BY ONLY <1>4, <1>6, <2>1, <2>2
<1>8. outcome' \in {"reading", "refused"}
  BY DEF Chunk, Reading
<1>9. s \in 0 .. len /\ o <= s
  BY ONLY <1>4, <1>6, len \in Nat, o \in Nat, t \in Nat
<1> QED
  BY ONLY <1>1, <1>3, <1>6, <1>7, <1>8, <1>9

\* At the end of the bytes no line closes a block any more, and what is held is blank
\* when no line is open.
LEMMA EndOfBytesStep ==
    ASSUME NEW off, NEW w, Laid(off, w), reader # "lab", NEW b \in 0 .. Len(lines),
           at \in 0 .. Len(wire), Holds(off, b), Yielded(events, Closed, b), EndOfBytes
    PROVE  /\ events' = Events(Closed) /\ Stop(Closed) = <<>>
           /\ outcome' = IF Open THEN "raised" ELSE "ended"
<1>1. PICK n \in Nat, len \in Nat : n = Len(lines) /\ len = Len(wire) /\ b \in 0 .. n
  BY Laying
<1>2. w \in {1, 2} /\ missing \in 0 .. w
  BY DEF Laid
<1>3. /\ ~HasBlock /\ at = len /\ events' = events
      /\ outcome' = IF ToSet(held) \subseteq {"CR", "LF"} THEN "ended" ELSE "raised"
  BY <1>1 DEF EndOfBytes
<1>4. Separators(off, b) = {}
  BY ONLY <1>3, Laid(off, w), b \in 0 .. Len(lines), at \in 0 .. Len(wire), Holds(off, b), BlockEndIs
<1>5. PICK o \in Nat : o = off[b] /\ o <= len
  BY <1>3, HeldIs DEF Holds
<1>6. held \in Seq(Symbols) /\ DOMAIN held = 1 .. len - o /\ \A i \in 1 .. len - o : held[i] = wire[o + i]
  <2>1. held \in Seq(Symbols) /\ Len(held) = len - o /\ \A i \in 1 .. len - o : held[i] = wire[o + i]
    BY <1>3, <1>5, HeldIs
  <2> QED
    BY ONLY <2>1, LenProperties
<1>0. PICK C : C = Closed
  OBVIOUS
<1>7. PICK size \in Nat : C = Closed /\ size = Len(C) /\ C \in Seq(Texts) /\ size <= n
  <2>1. Closed \in Seq(Texts) /\ Len(Closed) \in 0 .. Len(lines)
    BY ONLY Laid(off, w), reader # "lab", ClosedIs
  <2>2. Len(Closed) \in Nat /\ Len(Closed) <= n
    BY ONLY <1>1, <2>1
  <2> QED
    BY ONLY <1>0, <2>1, <2>2
<1>8. \A k \in 0 .. n : off[k] <= len <=> k <= size
  BY <1>1, <1>7, ClosedIs
<1>9. \A j \in Closers(C) : j \in Nat /\ j <= b
  <2>1. PICK i \in Nat : i = size + 1 + b
    BY ONLY <1>1
  <2>2. b < i /\ b \in Nat
    BY ONLY <1>1, <2>1
  <2>3. \A j \in Separators(off, b) : i <= j
    BY ONLY <1>4
  <2>4. \A j \in 0 .. Len(lines) : j < i /\ j <= Len(Closed) => off[j] <= at
    BY ONLY <1>1, <1>3, <1>7, <1>8
  <2>5. \A j \in Closers(Closed) : j \in Nat /\ ~(b < j /\ j < i)
    BY ONLY <2>2, <2>3, <2>4, i \in Nat, Laid(off, w), reader # "lab", b \in 0 .. Len(lines),
            at \in 0 .. Len(wire), Holds(off, b), FirstSeparator
  <2>6. \A j \in Closers(C) : j \in 1 .. size
    <3>1. Closers(C) \subseteq 1 .. Len(C)
      BY ONLY <1>7, BlocksAre
    <3> QED
      BY ONLY <1>7, <3>1
  <2> SUFFICES ASSUME NEW j \in Closers(C) PROVE j \in Nat /\ j <= b
    OBVIOUS
  <2>7. j \in 1 .. size /\ ~(b < j /\ j < i)
    BY ONLY <1>7, <2>5, <2>6
  <2> QED
    BY ONLY <2>1, <2>2, <2>7, size \in Nat
<1>10. events' = Events(Closed) /\ Stop(Closed) = <<>>
  <2>1. b \in Nat /\ Yielded(events, C, b)
    BY ONLY <1>1, <1>7, Yielded(events, Closed, b)
  <2>2. events = Events(C) /\ Stop(C) = <<>>
    <3>1. C \in Seq(Texts) /\ \A j \in Closers(C) : j <= b
      BY ONLY <1>7, <1>9
    <3> QED
      BY ONLY <2>1, <3>1, YieldedAll
  <2> QED
    BY ONLY <1>3, <1>7, <2>2
<1>11. ToSet(held) \subseteq {"CR", "LF"} <=> \A j \in b + 1 .. n : lines[j] = "blank"
  <2>1. ASSUME NEW j \in b + 1 .. n, lines[j] # "blank"
        PROVE  ~(ToSet(held) \subseteq {"CR", "LF"})
    <3>1. j \in 1 .. n /\ j - 1 \in 0 .. n /\ b <= j - 1
      BY ONLY <1>1, <2>1
    <3>2. off[j - 1] \in Nat /\ off[j - 1] + 1 <= len
      BY <1>1, <2>1, <3>1, Laying
    <3>3. b = j - 1 \/ off[b] + w <= off[j - 1]
      <4>1. \A x, y \in 0 .. n : x < y => off[x] + w <= off[y]
        BY <1>1, Laying
      <4>2. b = j - 1 \/ b < j - 1
        BY ONLY <1>1, <3>1
      <4> QED
        BY ONLY <1>1, <3>1, <4>1, <4>2
    <3>4. PICK x \in Nat : x = off[j - 1] /\ x + 1 <= len /\ o <= x
      <4>1. PICK x \in Nat : x = off[j - 1] /\ x + 1 <= len
        BY ONLY <3>2
      <4>2. o = x \/ o + w <= x
        BY ONLY <1>5, <3>3, <4>1
      <4>3. o <= x
        BY ONLY <1>2, <4>2, x \in Nat, o \in Nat
      <4> QED
        BY ONLY <4>1, <4>3
    <3>5. PICK i \in 1 .. len - o : i = x + 1 - o /\ o + i = x + 1
      BY ONLY <3>4, o \in Nat, len \in Nat
    <3>6. wire[off[j - 1] + 1] = lines[j] /\ lines[j] # "LF" /\ lines[j] # "CR"
      BY <1>1, <2>1, <3>1, TextOf
    <3>7. held[i] = lines[j]
      BY ONLY <1>6, <3>4, <3>5, <3>6
    <3>8. held[i] \in ToSet(held)
      BY ONLY <1>6 DEF ToSet
    <3> QED
      BY ONLY <3>6, <3>7, <3>8
  <2>2. ASSUME NEW x \in ToSet(held), x \notin {"CR", "LF"}
        PROVE  \E j \in b + 1 .. n : lines[j] # "blank"
    <3>1. PICK i \in 1 .. len - o : x = held[i]
      BY ONLY <1>6, <2>2 DEF ToSet
    <3>2. PICK p \in 1 .. len : p = o + i /\ o < p
      BY ONLY <1>5, len \in Nat
    <3>3. wire[p] = x
      BY ONLY <1>6, <3>1, <3>2
    <3>4. PICK l \in 1 .. n :
            /\ off[l - 1] < p /\ p <= off[l]
            /\ \/ p = off[l - 1] + 1 /\ lines[l] # "blank" /\ wire[p] = lines[l] /\ p + w = off[l]
               \/ p = off[l] /\ wire[p] = "LF"
               \/ w = 2 /\ p + 1 = off[l] /\ wire[p] = "CR"
      BY ONLY <1>1, Laid(off, w), Places
    <3>5. lines[l] # "blank"
      BY ONLY <2>2, <3>3, <3>4
    <3>6. off[l] \in Nat
      BY <1>1, Laying
    <3>7. PICK y \in Nat : y = off[l] /\ p <= y
      BY ONLY <3>4, <3>6
    <3>8. o < y
      BY ONLY <3>2, <3>7
    <3>9. off[b] < off[l]
      BY ONLY <1>5, <3>7, <3>8
    <3>10. b < l
      BY ONLY <1>1, <3>9, Laid(off, w), Adjacent
    <3>11. l \in b + 1 .. n
      BY ONLY <1>1, <3>10
    <3> QED
      BY ONLY <3>5, <3>11
  <2> QED
    BY ONLY <2>1, <2>2
<1>12. Open <=> \E j \in b + 1 .. n : lines[j] # "blank"
  <2>1. DOMAIN lines = 1 .. n /\ (off[n] <= len <=> missing = 0)
    <3>1. lines \in Seq(Texts)
      BY DEF Laid
    <3>2. DOMAIN lines = 1 .. n
      BY ONLY <1>1, <3>1, LenProperties
    <3>3. off[n] <= len <=> missing = 0
      BY <1>1, Laying
    <3> QED
      BY ONLY <3>2, <3>3
  <2>2. Open <=> \E i \in 1 .. n :
            lines[i] # "blank" /\ \A j \in i + 1 .. n : lines[j] # "blank" \/ (j = n /\ missing > 0)
    BY ONLY <1>1, <2>1 DEF Open
  <2>3. ASSUME NEW i \in b + 1 .. n, lines[i] # "blank"
        PROVE  Open
    <3>1. ASSUME NEW j \in i + 1 .. n, lines[j] = "blank" PROVE j = n /\ missing > 0
      <4>1. j \in b + 2 .. n /\ j \in 0 .. n /\ (j = n \/ j \in 0 .. n - 1)
        BY ONLY <1>1, <2>3, <3>1
      <4>2. ~(off[j] <= len)
        BY ONLY <1>1, <1>3, <1>4, <3>1, <4>1 DEF Separators
      <4>3. \A k \in 0 .. n - 1 : off[k] <= len
        BY <1>1, Laying
      <4>4. j = n
        BY ONLY <4>1, <4>2, <4>3
      <4>5. missing # 0
        BY ONLY <2>1, <4>2, <4>4
      <4>6. missing > 0
        BY ONLY <1>2, <4>5
      <4> QED
        BY ONLY <4>4, <4>6
    <3>2. i \in 1 .. n
      BY ONLY <1>1, <2>3
    <3> QED
      BY ONLY <2>2, <2>3, <3>1, <3>2
  <2>4. ASSUME Open PROVE \E j \in b + 1 .. n : lines[j] # "blank"
    <3>1. PICK i \in 1 .. n :
            lines[i] # "blank" /\ \A j \in i + 1 .. n : lines[j] # "blank" \/ (j = n /\ missing > 0)
      BY ONLY <2>2, <2>4
    <3>2. b < i
      <4> SUFFICES ASSUME ~(b < i) PROVE FALSE
        OBVIOUS
      <4>1. b # 0 /\ lines[b] = "blank"
        BY ONLY <1>1, ~(b < i), i \in 1 .. n, Holds(off, b) DEF Holds
      <4>2. b # i
        BY ONLY <3>1, <4>1
      <4>3. b \in i + 1 .. n
        BY ONLY <1>1, <4>2, ~(b < i), i \in 1 .. n
      <4>4. b = n /\ missing > 0
        BY ONLY <3>1, <4>1, <4>3
      <4>5. off[n] <= len
        BY ONLY <1>5, <4>4
      <4>6. missing = 0
        BY ONLY <2>1, <4>5
      <4> QED
        BY ONLY <4>4, <4>6
    <3>3. i \in b + 1 .. n
      BY ONLY <1>1, <3>2, i \in 1 .. n
    <3> QED
      BY ONLY <3>1, <3>3
  <2> QED
    BY ONLY <2>3, <2>4
<1>13. outcome' = IF Open THEN "raised" ELSE "ended"
  BY ONLY <1>3, <1>11, <1>12
<1> QED
  BY ONLY <1>10, <1>13

\* A step of a reader reads on, or is the last.
LEMMA LabStep ==
    ASSUME NEW off, NEW w, Laid(off, w), reader = "lab", Reads(off), Line \/ EndOfLines
    PROVE  /\ at' \in 0 .. Len(wire)
           /\ \/ /\ outcome' = "reading"
                 /\ \E k \in 0 .. Len(lines) :
                       /\ at' = off[k] \/ (k = Len(lines) /\ at' = Len(wire))
                       /\ held' = RowsAt(Closed, DataBefore(Closed, k + 1))
                       /\ Yielded(events', Closed, k)
              \/ Final(events', outcome', Closed)
<1>1. LabReads(off)
  BY DEF Reads
<1>2. CASE Line
  BY ONLY <1>1, <1>2, Laid(off, w), reader = "lab", LineStep
<1>3. CASE EndOfLines
  <2>1. Final(events', outcome', Closed)
    BY ONLY <1>1, <1>3, Laid(off, w), reader = "lab", EndOfLinesStep
  <2>2. Len(wire) \in Nat
    BY Laying
  <2>3. at' = Len(wire)
    BY <1>3 DEF EndOfLines
  <2> QED
    BY ONLY <2>1, <2>2, <2>3
<1> QED
  BY <1>2, <1>3

\* Done with all lines that close a block is to have the verdict of the stream.
LEMMA VerdictOfFinal ==
    ASSUME NEW evs, NEW out, Final(evs, out, Closed), reader = "lab" \/ Stop(Closed) # <<>>
    PROVE  evs = Events(Closed) /\ out \in {"ended", "raised"} /\ out = Verdict
<1>1. CASE Stop(Closed) = <<>>
  BY <1>1 DEF Final, Verdict
<1>2. CASE Stop(Closed) # <<>>
  BY <1>2 DEF Final, Verdict
<1> QED
  BY <1>1, <1>2

\* What a stream says does not change while it is read.
LEMMA StreamStays ==
    ASSUME UNCHANGED <<lines, missing, wire, reader>>
    PROVE  /\ Closed' = Closed /\ Verdict' = Verdict
           /\ \A off, w : Laid(off, w) => Laid(off, w)'
<1>1. Closed' = Closed
  BY DEF Closed
<1>2. Verdict' = Verdict
  <2>1. Open' = Open
    BY DEF Open
  <2>2. Stop(Closed)' = Stop(Closed)
    BY ONLY <1>1 DEF Stop, Events, Blocks, Closers, DataBefore, PriorBlank
  <2> QED
    BY <2>1, <2>2 DEF Verdict
<1>3. ASSUME NEW off, NEW w, Laid(off, w) PROVE Laid(off, w)'
  BY <1>3 DEF Laid, Gap
<1> QED
  BY <1>1, <1>2, <1>3

\* Every step leaves the stream alone, and goes on as long as nothing is decided.
LEMMA FramingMoves ==
    ASSUME FramingNext
    PROVE  /\ UNCHANGED <<lines, missing, wire, reader>> /\ outcome = "reading"
           /\ reader = "lab" => Line \/ EndOfLines
           /\ reader # "lab" => Chunk \/ TakeBlock \/ EndOfBytes
<1>1. CASE Chunk
  BY <1>1 DEF Chunk, Reading
<1>2. CASE TakeBlock
  BY <1>2 DEF TakeBlock, Reading
<1>3. CASE EndOfBytes
  BY <1>3 DEF EndOfBytes, Reading
<1>4. CASE Line
  BY <1>4 DEF Line, Reading
<1>5. CASE EndOfLines
  BY <1>5 DEF EndOfLines, Reading
<1> QED
  BY <1>1, <1>2, <1>3, <1>4, <1>5 DEF FramingNext

\* The steps of the lab keep the invariant.
LEMMA LabKept ==
    ASSUME NEW off, NEW w, Laid(off, w), reader = "lab", Reads(off), FramingNext
    PROVE  at' \in 0 .. Len(wire) /\ (Reads(off) \/ Done)'
<1>1. Line \/ EndOfLines
  BY FramingMoves
<1>2. UNCHANGED <<lines, wire, reader>> /\ Closed' = Closed /\ Verdict' = Verdict
  BY ONLY FramingNext, FramingMoves, StreamStays
<1>3. /\ at' \in 0 .. Len(wire)
      /\ \/ /\ outcome' = "reading"
            /\ \E k \in 0 .. Len(lines) :
                  /\ at' = off[k] \/ (k = Len(lines) /\ at' = Len(wire))
                  /\ held' = RowsAt(Closed, DataBefore(Closed, k + 1))
                  /\ Yielded(events', Closed, k)
         \/ Final(events', outcome', Closed)
  BY ONLY <1>1, Laid(off, w), reader = "lab", Reads(off), LabStep
<1>4. CASE Final(events', outcome', Closed)
  <2>1. events' = Events(Closed) /\ outcome' \in {"ended", "raised"} /\ outcome' = Verdict
    BY ONLY <1>4, reader = "lab", VerdictOfFinal
  <2>2. Events(Closed)' = Events(Closed)
    BY ONLY <1>2 DEF Events, Blocks, Closers, DataBefore, PriorBlank
  <2> QED
    BY ONLY <1>2, <1>3, <2>1, <2>2 DEF Done
<1>5. ASSUME outcome' = "reading", NEW k \in 0 .. Len(lines),
             at' = off[k] \/ (k = Len(lines) /\ at' = Len(wire)),
             held' = RowsAt(Closed, DataBefore(Closed, k + 1)), Yielded(events', Closed, k)
      PROVE  Reads(off)'
  <2>1. RowsAt(Closed, DataBefore(Closed, k + 1))' = RowsAt(Closed, DataBefore(Closed, k + 1))
    BY ONLY <1>2 DEF DataBefore, PriorBlank
  <2>2. Yielded(events, Closed, k)'
    BY ONLY <1>2, <1>5
  <2>3. LabReads(off)'
    BY ONLY <1>2, <1>5, <2>1, <2>2 DEF LabReads
  <2> QED
    BY ONLY <1>2, <1>5, <2>3, reader = "lab" DEF Reads
<1> QED
  BY ONLY <1>3, <1>4, <1>5

\* So do those of the assistant.
LEMMA AssistantKept ==
    ASSUME NEW off, NEW w, Laid(off, w), reader = "assistant", at \in 0 .. Len(wire), Reads(off), FramingNext
    PROVE  at' \in 0 .. Len(wire) /\ (Reads(off) \/ Done)'
<1>1. (Chunk \/ TakeBlock \/ EndOfBytes) /\ outcome = "reading" /\ reader # "lab"
  BY FramingMoves
<1>2. UNCHANGED <<lines, wire, reader>> /\ Closed' = Closed /\ Verdict' = Verdict
  BY ONLY FramingNext, FramingMoves, StreamStays
<1>3. PICK b \in 0 .. Len(lines) : Holds(off, b) /\ Yielded(events, Closed, b)
  <2>1. AssistantReads(off)
    BY ONLY <1>1, Reads(off) DEF Reads
  <2> QED
    BY ONLY <2>1 DEF AssistantReads, Holds
<1>4. Events(Closed)' = Events(Closed)
  BY ONLY <1>2 DEF Events, Blocks, Closers, DataBefore, PriorBlank
<1>5. ASSUME outcome' = "reading", NEW k \in 0 .. Len(lines), k = 0 \/ lines[k] = "blank",
             off[k] <= at', held' = SubSeq(wire, off[k] + 1, at'), Yielded(events', Closed, k)
      PROVE  Reads(off)'
  <2>1. Yielded(events, Closed, k)'
    BY ONLY <1>2, <1>5
  <2>2. AssistantReads(off)'
    BY ONLY <1>2, <1>5, <2>1 DEF AssistantReads
  <2> QED
    BY ONLY <1>1, <1>2, <1>5, <2>2 DEF Reads
<1>6. ASSUME events' = Events(Closed), outcome' \in {"ended", "raised"}, outcome' = Verdict
      PROVE  Done'
  BY ONLY <1>2, <1>4, <1>6 DEF Done
<1>7. CASE Chunk
  <2>1. /\ at' \in 0 .. Len(wire) /\ off[b] <= at'
        /\ held' = SubSeq(wire, off[b] + 1, at')
        /\ outcome' \in {"reading", "refused"}
    BY ONLY <1>3, <1>7, Laid(off, w), at \in 0 .. Len(wire), ChunkStep
  <2>2. events' = events
    BY ONLY <1>7 DEF Chunk
  <2>3. CASE outcome' = "reading"
    <3>1. b = 0 \/ lines[b] = "blank"
      BY ONLY <1>3 DEF Holds
    <3>2. Yielded(events', Closed, b)
      BY ONLY <1>3, <2>2
    <3> QED
      BY ONLY <1>3, <1>5, <2>1, <2>3, <3>1, <3>2
  <2>4. CASE outcome' = "refused"
    <3>1. IsPrefix(events, Events(Closed))
      <4>1. Closed \in Seq(Texts) /\ b \in Nat
        BY <1>1, ClosedIs, Laying
      <4> QED
        BY ONLY <1>3, <4>1, YieldedPrefix
    <3>2. IsPrefix(events, Events(Closed))'
      BY ONLY <1>4, <2>2, <3>1 DEF IsPrefix
    <3> QED
      BY ONLY <2>1, <2>4, <3>2 DEF Done
  <2> QED
    BY ONLY <1>2, <2>1, <2>3, <2>4
<1>8. CASE TakeBlock
  <2>1. \/ /\ outcome' = "reading"
           /\ \E m \in 0 .. Len(lines) :
                 /\ lines[m] = "blank" /\ off[m] <= at
                 /\ held' = SubSeq(wire, off[m] + 1, at)
                 /\ Yielded(events', Closed, m)
        \/ Final(events', outcome', Closed) /\ Stop(Closed) # <<>>
    BY ONLY <1>1, <1>3, <1>8, Laid(off, w), at \in 0 .. Len(wire), TakeBlockStep
  <2>2. at' = at
    BY ONLY <1>8 DEF TakeBlock
  <2>3. CASE Final(events', outcome', Closed) /\ Stop(Closed) # <<>>
    <3>1. events' = Events(Closed) /\ outcome' \in {"ended", "raised"} /\ outcome' = Verdict
      BY ONLY <2>3, VerdictOfFinal
    <3> QED
      BY ONLY <1>2, <1>6, <2>2, <3>1, at \in 0 .. Len(wire)
  <2>4. ASSUME outcome' = "reading", NEW m \in 0 .. Len(lines), lines[m] = "blank", off[m] <= at,
               held' = SubSeq(wire, off[m] + 1, at), Yielded(events', Closed, m)
        PROVE  Reads(off)'
    BY ONLY <1>5, <2>2, <2>4
  <2> QED
    BY ONLY <1>2, <2>1, <2>2, <2>3, <2>4, at \in 0 .. Len(wire)
<1>9. CASE EndOfBytes
  <2>1. /\ events' = Events(Closed) /\ Stop(Closed) = <<>>
        /\ outcome' = IF Open THEN "raised" ELSE "ended"
    BY ONLY <1>1, <1>3, <1>9, Laid(off, w), at \in 0 .. Len(wire), EndOfBytesStep
  <2>2. outcome' \in {"ended", "raised"} /\ outcome' = Verdict
    BY ONLY <2>1, reader = "assistant" DEF Verdict
  <2>3. at' = at
    BY ONLY <1>9 DEF EndOfBytes
  <2> QED
    BY ONLY <1>2, <1>6, <2>1, <2>2, <2>3, at \in 0 .. Len(wire)
<1> QED
  BY ONLY <1>1, <1>7, <1>8, <1>9

\* Every step keeps it.
LEMMA FramingStep == FramingInv /\ [FramingNext]_framingVars => FramingInv'
<1> SUFFICES ASSUME FramingInv, [FramingNext]_framingVars PROVE FramingInv'
  OBVIOUS
<1>1. reader \in {"lab", "assistant"} /\ at \in 0 .. Len(wire)
  BY DEF FramingInv
<1>2. PICK off, w : Laid(off, w) /\ (Reads(off) \/ Done)
  BY DEF FramingInv
<1>3. CASE UNCHANGED framingVars
  <2>1. UNCHANGED <<lines, missing, wire, reader, at, held, events, outcome>>
    BY <1>3 DEF framingVars
  <2>2. Closed' = Closed /\ Verdict' = Verdict /\ Laid(off, w)'
    BY ONLY <1>2, <2>1, StreamStays
  <2>3. ASSUME LabReads(off) PROVE LabReads(off)'
    BY ONLY <2>1, <2>2, <2>3 DEF LabReads
  <2>4. ASSUME AssistantReads(off) PROVE AssistantReads(off)'
    BY ONLY <2>1, <2>2, <2>4 DEF AssistantReads
  <2>5. ASSUME Reads(off) PROVE Reads(off)'
    BY ONLY <2>1, <2>3, <2>4, <2>5 DEF Reads
  <2>6. ASSUME Done PROVE Done'
    BY ONLY <2>1, <2>2, <2>6 DEF Done
  <2> QED
    BY ONLY <1>1, <1>2, <2>1, <2>2, <2>5, <2>6 DEF FramingInv
<1>4. CASE FramingNext
  <2>1. UNCHANGED <<lines, missing, wire, reader>> /\ outcome = "reading"
    BY ONLY <1>4, FramingMoves
  <2>2. Laid(off, w)'
    BY ONLY <1>2, <2>1, StreamStays
  <2>3. Reads(off)
    BY ONLY <1>2, <2>1 DEF Done
  <2>4. at' \in 0 .. Len(wire) /\ (Reads(off) \/ Done)'
    BY ONLY <1>1, <1>2, <1>4, <2>3, LabKept, AssistantKept
  <2> QED
    BY ONLY <1>1, <2>1, <2>2, <2>4 DEF FramingInv
<1> QED
  BY <1>3, <1>4

\* All events are a beginning of them.
LEMMA EventsPrefix ==
    ASSUME NEW S, NEW ls \in Seq(S)
    PROVE  IsPrefix(Events(ls), Events(ls))
<1>1. PICK B \in Seq(Seq(S)), size \in Nat : B = Blocks(ls) /\ size = Len(B) /\ DOMAIN B = 1 .. size
  BY BlocksAre, LenProperties
<1> DEFINE ends == {i \in 1 .. size : ~Parses(B[i])}
           first == CHOOSE i \in ends : \A j \in ends : i <= j
<1>2. Events(ls) = IF ends = {} THEN B ELSE SubSeq(B, 1, first - 1)
  BY ONLY <1>1 DEF Events
<1>3. Len(Events(ls)) \in Nat
  <2>1. CASE ends = {}
    BY ONLY <1>1, <1>2, <2>1
  <2>2. CASE ends # {}
    <3>1. \E i \in ends : \A j \in ends : i <= j
      <4>1. ends \subseteq Nat
        OBVIOUS
      <4> HIDE DEF ends
      <4> QED
        BY ONLY <2>2, <4>1, Least
    <3>2. first \in ends
      <4> HIDE DEF ends
      <4> QED
        BY <3>1
    <3>3. PICK m \in 1 .. size : m = first
      BY ONLY <3>2
    <3>4. PICK e \in Nat : e = m - 1 /\ e <= size /\ 0 + 1 = 1 /\ e - 0 = e /\ 0 <= e /\ 0 \in Nat
      BY ONLY size \in Nat, m \in 1 .. size
    <3>5. Len(SubSeq(B, 1, e)) = e
      BY ONLY <1>1, <3>4, B \in Seq(Seq(S)), Slice
    <3>6. Events(ls) = SubSeq(B, 1, e)
      <4> HIDE DEF ends, first
      <4> QED
        BY ONLY <1>2, <2>2, <3>3, <3>4
    <3> QED
      BY ONLY <3>4, <3>5, <3>6
  <2> QED
    BY ONLY <2>1, <2>2
<1> QED
  BY ONLY <1>3 DEF IsPrefix

\* It gives what a reader promises.
LEMMA FramingInvTells == FramingInv => FramingExact
<1> SUFFICES ASSUME FramingInv PROVE FramingExact
  OBVIOUS
<1>1. PICK off, w : Laid(off, w) /\ (Reads(off) \/ Done)
  BY DEF FramingInv
<1>2. Closed \in Seq(Texts)
  BY <1>1, ClosedIs
<1>3. CASE Reads(off)
  <2>1. outcome = "reading"
    BY ONLY <1>3 DEF Reads
  <2>2. PICK k \in 0 .. Len(lines) : Yielded(events, Closed, k)
    BY ONLY <1>3 DEF Reads, LabReads, AssistantReads
  <2>3. k \in Nat
    BY <1>1, Laying
  <2>4. IsPrefix(events, Events(Closed))
    BY ONLY <1>2, <2>2, <2>3, YieldedPrefix
  <2> QED
    BY ONLY <2>1, <2>4 DEF FramingExact
<1>4. CASE Done
  <2>1. ASSUME events = Events(Closed) PROVE IsPrefix(events, Events(Closed))
    BY ONLY <1>2, <2>1, EventsPrefix
  <2> QED
    BY ONLY <1>4, <2>1 DEF Done, FramingExact
<1> QED
  BY ONLY <1>1, <1>3, <1>4

\* Of any stream, however it is cut and wherever it breaks off, a reader yields the
\* events in order, and all of them when it ends or raises.
THEOREM FramingKept == FramingSpec => []FramingExact
<1> QED
  BY FramingBegins, FramingStep, FramingInvTells, PTL DEF FramingSpec

-----------------------------------------------------------------------------
(***************************************************************************)
(* The lab.  Its parts share no state: a step of one is a stutter of the   *)
(* others, so that what is proved of each holds of the whole.              *)
(***************************************************************************)
LEMMA PartsBegin == LabInit => Init /\ ChatInit /\ FramingInit /\ StoreInit
<1> SUFFICES ASSUME LabInit
             PROVE  ChatInit /\ FramingInit
  BY DEF LabInit
<1>1. ChatInit
  <2>1. "run" \in Forms /\ FALSE \in BOOLEAN
    BY DEF Forms
  <2> QED
    BY <2>1 DEF LabInit, ChatInit
<1>2. ASSUME Arriving(<<>>, <<"LF">>, 0, "lab") PROVE FramingInit
  <2>1. <<>> \in Whole
    <3>1. 0 \in 0 .. MaxLines
      BY FramingAssumption
    <3>2. <<>> \in [1 .. 0 -> Contents]
      OBVIOUS
    <3> QED
      BY ONLY <3>1, <3>2 DEF Whole
  <2>2. <<"LF">> \in Endings
    BY DEF Endings
  <2> QED
    BY ONLY <1>2, <2>1, <2>2 DEF FramingInit
<1>3. FramingInit
  BY <1>2 DEF LabInit
<1> QED
  BY <1>1, <1>3

LEMMA PartsStep ==
    [LabNext]_labVars =>
        [Next]_vars /\ [ChatNext]_chatVars /\ [FramingNext]_framingVars /\ [StoreNext]_storeVars
<1> SUFFICES ASSUME [LabNext]_labVars
             PROVE  /\ [Next]_vars /\ [ChatNext]_chatVars
                    /\ [FramingNext]_framingVars /\ [StoreNext]_storeVars
  OBVIOUS
<1>1. CASE LabNext
  BY <1>1 DEF LabNext
<1>2. CASE UNCHANGED labVars
  BY <1>2 DEF labVars
<1> QED
  BY <1>1, <1>2

\* What is proved of the gateway, of an inference, of a stream and of the store holds of
\* the lab.
THEOREM LabSound ==
    LabSpec =>
        [](InflightExact /\ BenchmarksSound /\ ChatTruthful /\ FramingExact /\ KeptUntilCrowded)
<1>1. LabSpec => Spec
  BY PartsBegin, PartsStep, PTL DEF LabSpec, Spec
<1>2. LabSpec => ChatSpec
  BY PartsBegin, PartsStep, PTL DEF LabSpec, ChatSpec
<1>3. LabSpec => FramingSpec
  BY PartsBegin, PartsStep, PTL DEF LabSpec, FramingSpec
<1>4. LabSpec => StoreSpec
  BY PartsBegin, PartsStep, PTL DEF LabSpec, StoreSpec
<1> QED
  BY <1>1, <1>2, <1>3, <1>4,
     InflightKept, BenchmarksKept, ChatKept, FramingKept, StoreKept, PTL
=============================================================================
