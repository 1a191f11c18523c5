-------------------------- MODULE SimulatorProofs --------------------------
(***************************************************************************)
(* Proofs about Simulator, for any requests, prefixes and capacity: the    *)
(* slot of a pool is neither lost nor held twice, its queue holds the      *)
(* waiters and nobody else, its gauges are exact and its cache is sound.   *)
(***************************************************************************)
EXTENDS Simulator, SequenceTheorems, FiniteSetTheorems, WellFoundedInduction, TLAPS

SlotTypes ==
    /\ free \in [Pools -> BOOLEAN]
    /\ queue \in [Pools -> Seq(Requests)]
    /\ reqs \in [Requests -> Request]

\* The queue position by position: every future is of a request that waits for that
\* pool, none is there twice, and every such request has one.
InQueue(q, p) == \E i \in 1 .. Len(queue[p]) : queue[p][i] = q
Queued(q, p)  == In(q, {"queued"}) /\ reqs[q].pool = p

QueueOrdered ==
    \A p \in Pools :
        /\ \A i, j \in 1 .. Len(queue[p]) : queue[p][i] = queue[p][j] => i = j
        /\ \A q \in Requests : InQueue(q, p) <=> Queued(q, p)

SlotInv == SlotTypes /\ SlotConserved /\ QueueOrdered

-----------------------------------------------------------------------------
\* Tail and RemoveAt take one element out of a sequence without repetitions.
LEMMA TailOnce ==
    ASSUME NEW S, NEW s \in Seq(S), s # <<>>,
           \A i, j \in 1 .. Len(s) : s[i] = s[j] => i = j
    PROVE  /\ Head(s) \in S
           /\ Head(s) = s[1]
           /\ Tail(s) \in Seq(S)
           /\ \A i, j \in 1 .. Len(Tail(s)) : Tail(s)[i] = Tail(s)[j] => i = j
           /\ \A e : (\E i \in 1 .. Len(Tail(s)) : Tail(s)[i] = e) <=>
                     e # Head(s) /\ \E i \in 1 .. Len(s) : s[i] = e
  <1>1. /\ Head(s) \in S /\ Head(s) = s[1] /\ Len(s) \in Nat \ {0}
        /\ Tail(s) \in Seq(S) /\ Len(Tail(s)) = Len(s) - 1
        /\ \A i \in 1 .. Len(Tail(s)) : Tail(s)[i] = s[i + 1]
    BY HeadTailProperties, EmptySeq
  <1>2. \A i, j \in 1 .. Len(Tail(s)) : Tail(s)[i] = Tail(s)[j] => i = j
    BY <1>1
  <1>3. ASSUME NEW e
        PROVE  (\E i \in 1 .. Len(Tail(s)) : Tail(s)[i] = e) <=>
               e # Head(s) /\ \E i \in 1 .. Len(s) : s[i] = e
    <2>1. ASSUME NEW i \in 1 .. Len(Tail(s)), Tail(s)[i] = e
          PROVE  e # Head(s) /\ \E k \in 1 .. Len(s) : s[k] = e
      <3>1. i + 1 \in 1 .. Len(s) /\ 1 \in 1 .. Len(s) /\ s[i + 1] = e /\ i + 1 # 1
        BY <1>1, <2>1
      <3> QED BY <3>1, <1>1
    <2>2. ASSUME NEW k \in 1 .. Len(s), s[k] = e, e # Head(s)
          PROVE  \E i \in 1 .. Len(Tail(s)) : Tail(s)[i] = e
      <3>1. k - 1 \in 1 .. Len(Tail(s)) /\ Tail(s)[k - 1] = s[k]
        BY <1>1, <2>2
      <3> QED BY <3>1, <2>2
    <2> QED BY <2>1, <2>2
  <1> QED BY <1>1, <1>2, <1>3

LEMMA RemovedOnce ==
    ASSUME NEW S, NEW s \in Seq(S), NEW n \in 1 .. Len(s),
           \A i, j \in 1 .. Len(s) : s[i] = s[j] => i = j
    PROVE  /\ RemoveAt(s, n) \in Seq(S)
           /\ \A i, j \in 1 .. Len(RemoveAt(s, n)) :
                  RemoveAt(s, n)[i] = RemoveAt(s, n)[j] => i = j
           /\ \A e : (\E i \in 1 .. Len(RemoveAt(s, n)) : RemoveAt(s, n)[i] = e) <=>
                     e # s[n] /\ \E i \in 1 .. Len(s) : s[i] = e
  <1> DEFINE a == SubSeq(s, 1, n - 1)
             b == SubSeq(s, n + 1, Len(s))
             t == RemoveAt(s, n)
  <1>1. Len(s) \in Nat /\ \A i \in 1 .. Len(s) : s[i] \in S
    BY LenProperties, ElementOfSeq
  <1>2. /\ a \in Seq(S) /\ Len(a) = n - 1
        /\ \A i \in 1 .. n - 1 : a[i] = s[i]
    <2>1. \A i \in 1 .. n - 1 : s[i] \in S  BY <1>1
    <2>2. n - 1 \in Int /\ n \in Int /\ n >= 1  BY <1>1
    <2>3. /\ a \in Seq(S) /\ Len(a) = IF 1 <= n - 1 THEN n - 1 - 1 + 1 ELSE 0
          /\ \A i \in 1 .. n - 1 - 1 + 1 : a[i] = s[1 + i - 1]
      BY <2>1, <2>2, SubSeqProperties
    <2> QED BY <2>2, <2>3
  <1>3. /\ b \in Seq(S) /\ Len(b) = Len(s) - n
        /\ \A i \in 1 .. Len(s) - n : b[i] = s[n + i]
    <2>1. \A i \in n + 1 .. Len(s) : s[i] \in S  BY <1>1
    <2>2. n + 1 \in Int /\ Len(s) \in Int /\ n <= Len(s)  BY <1>1
    <2>3. /\ b \in Seq(S)
          /\ Len(b) = IF n + 1 <= Len(s) THEN Len(s) - (n + 1) + 1 ELSE 0
          /\ \A i \in 1 .. Len(s) - (n + 1) + 1 : b[i] = s[n + 1 + i - 1]
      BY <2>1, <2>2, SubSeqProperties
    <2> QED BY <2>2, <2>3
  <1> HIDE DEF a, b, t
  <1>4. /\ t \in Seq(S) /\ Len(t) = Len(s) - 1
        /\ \A i \in 1 .. Len(s) - 1 : t[i] = IF i < n THEN s[i] ELSE s[i + 1]
    <2>1. t = a \o b  BY DEF RemoveAt, a, b, t
    <2>2. /\ a \o b \in Seq(S) /\ Len(a \o b) = Len(a) + Len(b)
          /\ \A i \in 1 .. Len(a) + Len(b) :
                (a \o b)[i] = IF i <= Len(a) THEN a[i] ELSE b[i - Len(a)]
      <3>1. a \in Seq(S) /\ b \in Seq(S)  BY <1>2, <1>3
      <3> QED BY ONLY <3>1, ConcatProperties, Zenon
    <2>3. ASSUME NEW i \in 1 .. Len(s) - 1
          PROVE  t[i] = IF i < n THEN s[i] ELSE s[i + 1]
      <3>1. CASE i < n  BY <3>1, <2>1, <2>2, <1>1, <1>2, <1>3
      <3>2. CASE ~(i < n)
        <4>1. i - (n - 1) \in 1 .. Len(s) - n /\ n + (i - (n - 1)) = i + 1
          BY <3>2, <1>1
        <4>2. t[i] = b[i - (n - 1)]  BY <3>2, <2>1, <2>2, <1>1, <1>2, <1>3
        <4> QED BY <4>1, <4>2, <1>3, <3>2
      <3> QED BY <3>1, <3>2
    <2> QED BY <2>1, <2>2, <2>3, <1>1, <1>2, <1>3
  <1>5. ASSUME NEW i \in 1 .. Len(t), NEW j \in 1 .. Len(t), t[i] = t[j]
        PROVE  i = j
    <2> DEFINE f(k) == IF k < n THEN k ELSE k + 1
    <2>1. f(i) \in 1 .. Len(s) /\ f(j) \in 1 .. Len(s) /\ s[f(i)] = s[f(j)]
      BY <1>1, <1>4, <1>5
    <2>2. f(i) = f(j)  BY <2>1
    <2> QED BY <2>2, <1>1, <1>4
  <1>6. ASSUME NEW e
        PROVE  (\E i \in 1 .. Len(t) : t[i] = e) <=>
               e # s[n] /\ \E i \in 1 .. Len(s) : s[i] = e
    <2>1. ASSUME NEW i \in 1 .. Len(t), t[i] = e
          PROVE  e # s[n] /\ \E k \in 1 .. Len(s) : s[k] = e
      <3> DEFINE k == IF i < n THEN i ELSE i + 1
      <3>1. k \in 1 .. Len(s) /\ k # n /\ s[k] = e  BY <1>1, <1>4, <2>1
      <3> QED BY <3>1
    <2>2. ASSUME NEW k \in 1 .. Len(s), s[k] = e, e # s[n]
          PROVE  \E i \in 1 .. Len(t) : t[i] = e
      <3> DEFINE i == IF k < n THEN k ELSE k - 1
      <3>1. k # n  BY <2>2
      <3>2. i \in 1 .. Len(t) /\ t[i] = e  BY <1>1, <1>4, <2>2, <3>1
      <3> QED BY <3>2
    <2> QED BY <2>1, <2>2
  <1> QED BY <1>4, <1>5, <1>6 DEF t
-----------------------------------------------------------------------------
\* A step that changes neither who holds a slot nor who waits for one.
LEMMA QuietKept ==
    ASSUME SlotInv, SlotTypes', UNCHANGED <<free, queue>>,
           \A q \in Requests, p \in Pools :
               (Holding(q, p)' <=> Holding(q, p)) /\ (Queued(q, p)' <=> Queued(q, p))
    PROVE  SlotInv'
  <1>1. SlotConserved'  BY DEF SlotInv, SlotConserved
  <1>2. QueueOrdered'  BY DEF SlotInv, QueueOrdered, InQueue
  <1> QED BY <1>1, <1>2 DEF SlotInv

\* A request that holds nothing takes a free slot.
LEMMA TakenKept ==
    ASSUME SlotInv, SlotTypes', UNCHANGED queue,
           NEW q \in Requests, NEW p \in Pools,
           free[p], free' = [free EXCEPT ![p] = FALSE],
           \A x \in Requests, y \in Pools :
               /\ Holding(x, y)' <=> (Holding(x, y) \/ (x = q /\ y = p))
               /\ Queued(x, y)' <=> Queued(x, y)
    PROVE  SlotInv'
  <1>1. SlotConserved'
    <2> SUFFICES ASSUME NEW y \in Pools
                 PROVE  /\ \A x, z \in Requests : Holding(x, y)' /\ Holding(z, y)' => x = z
                        /\ free'[y] <=> ~\E x \in Requests : Holding(x, y)'
      BY DEF SlotConserved
    <2>1. free'[y] <=> (free[y] /\ y # p)  BY DEF SlotInv, SlotTypes
    <2> QED BY <2>1 DEF SlotInv, SlotConserved
  <1>2. QueueOrdered'  BY DEF SlotInv, QueueOrdered, InQueue
  <1> QED BY <1>1, <1>2 DEF SlotInv

\* A request that neither holds nor waits joins the queue of a pool.
LEMMA JoinedKept ==
    ASSUME SlotInv, SlotTypes', UNCHANGED free,
           NEW q \in Requests, NEW p \in Pools, ~Queued(q, p),
           queue' = [queue EXCEPT ![p] = Append(@, q)],
           \A x \in Requests, y \in Pools :
               /\ Holding(x, y)' <=> Holding(x, y)
               /\ Queued(x, y)' <=> (Queued(x, y) \/ (x = q /\ y = p))
    PROVE  SlotInv'
  <1>1. SlotConserved'  BY DEF SlotInv, SlotConserved
  <1>2. QueueOrdered'
    <2> SUFFICES ASSUME NEW y \in Pools
                 PROVE  /\ \A i, j \in 1 .. Len(queue'[y]) : queue'[y][i] = queue'[y][j] => i = j
                        /\ \A x \in Requests : (\E i \in 1 .. Len(queue'[y]) : queue'[y][i] = x) <=> Queued(x, y)'
      BY DEF QueueOrdered, InQueue
    <2>1. CASE y # p
      <3>1. queue'[y] = queue[y]  BY <2>1 DEF SlotInv, SlotTypes
      <3> QED BY <3>1, <2>1 DEF SlotInv, QueueOrdered, InQueue
    <2>2. CASE y = p
      <3> DEFINE s == queue[p]
                 t == queue'[p]
      <3>1. s \in Seq(Requests) /\ t = Append(s, q)  BY DEF SlotInv, SlotTypes
      <3>2. /\ \A i, j \in 1 .. Len(s) : s[i] = s[j] => i = j
            /\ \A x \in Requests : (\E i \in 1 .. Len(s) : s[i] = x) <=> Queued(x, p)
        BY DEF SlotInv, QueueOrdered, InQueue
      <3> HIDE DEF s, t
      <3>3. /\ Len(s) \in Nat /\ Len(t) = Len(s) + 1
            /\ \A i \in 1 .. Len(s) : t[i] = s[i]
            /\ t[Len(s) + 1] = q
        BY <3>1
      <3>4. \A i \in 1 .. Len(s) : s[i] # q  BY <3>2
      <3>5. \A i, j \in 1 .. Len(t) : t[i] = t[j] => i = j
        BY <3>2, <3>3, <3>4
      <3>6. ASSUME NEW x \in Requests
            PROVE  (\E i \in 1 .. Len(t) : t[i] = x) <=> ((\E i \in 1 .. Len(s) : s[i] = x) \/ x = q)
        <4>1. 1 .. Len(t) = 1 .. Len(s) \cup {Len(s) + 1}  BY <3>3
        <4> QED BY <4>1, <3>3
      <3>7. \A x \in Requests : (\E i \in 1 .. Len(t) : t[i] = x) <=> Queued(x, p)'
        BY <3>2, <3>6
      <3> QED BY <2>2, <3>5, <3>7 DEF t
    <2> QED BY <2>1, <2>2
  <1> QED BY <1>1, <1>2 DEF SlotInv

\* The holder of a slot gives it back and nobody waits.
LEMMA FreedKept ==
    ASSUME SlotInv, SlotTypes', UNCHANGED queue,
           NEW q \in Requests, NEW p \in Pools, Holding(q, p),
           free' = [free EXCEPT ![p] = TRUE],
           \A x \in Requests, y \in Pools :
               /\ Holding(x, y)' <=> (Holding(x, y) /\ x # q)
               /\ Queued(x, y)' <=> Queued(x, y)
    PROVE  SlotInv'
  <1>1. SlotConserved'
    <2> SUFFICES ASSUME NEW y \in Pools
                 PROVE  /\ \A x, z \in Requests : Holding(x, y)' /\ Holding(z, y)' => x = z
                        /\ free'[y] <=> ~\E x \in Requests : Holding(x, y)'
      BY DEF SlotConserved
    <2>1. free'[y] <=> (free[y] \/ y = p)  BY DEF SlotInv, SlotTypes
    <2>2. Holding(q, y) => y = p  BY DEF Holding
    <2> QED BY <2>1, <2>2 DEF SlotInv, SlotConserved
  <1>2. QueueOrdered'  BY DEF SlotInv, QueueOrdered, InQueue
  <1> QED BY <1>1, <1>2 DEF SlotInv

\* The queue of one pool loses one request that waits.
LEMMA ShortenedOrdered ==
    ASSUME SlotInv, NEW q \in Requests, NEW p \in Pools, NEW s \in Seq(Requests),
           queue' = [queue EXCEPT ![p] = s],
           \A i, j \in 1 .. Len(s) : s[i] = s[j] => i = j,
           \A e : (\E i \in 1 .. Len(s) : s[i] = e) <=>
                  e # q /\ \E i \in 1 .. Len(queue[p]) : queue[p][i] = e,
           Queued(q, p),
           \A x \in Requests, y \in Pools : Queued(x, y)' <=> (Queued(x, y) /\ x # q)
    PROVE  QueueOrdered'
  <1> SUFFICES ASSUME NEW y \in Pools
               PROVE  /\ \A i, j \in 1 .. Len(queue'[y]) : queue'[y][i] = queue'[y][j] => i = j
                      /\ \A x \in Requests : (\E i \in 1 .. Len(queue'[y]) : queue'[y][i] = x) <=> Queued(x, y)'
    BY DEF QueueOrdered, InQueue
  <1>1. CASE y # p
    <2>1. queue'[y] = queue[y]  BY <1>1 DEF SlotInv, SlotTypes
    <2>2. ~Queued(q, y)  BY <1>1 DEF Queued
    <2> QED BY <2>1, <2>2 DEF SlotInv, QueueOrdered, InQueue
  <1>2. CASE y = p
    <2>1. queue'[y] = s  BY <1>2 DEF SlotInv, SlotTypes
    <2>2. \A x \in Requests : (\E i \in 1 .. Len(queue[p]) : queue[p][i] = x) <=> Queued(x, p)
      BY DEF SlotInv, QueueOrdered, InQueue
    <2> QED BY <2>1, <2>2, <1>2, SMTT(20)
  <1> QED BY <1>1, <1>2

\* The holder of a slot gives it back and the oldest waiter gets it.
LEMMA HandedKept ==
    ASSUME SlotInv, SlotTypes', UNCHANGED free,
           NEW q \in Requests, NEW p \in Pools, Holding(q, p), queue[p] # <<>>,
           queue' = [queue EXCEPT ![p] = Tail(@)],
           \A x \in Requests, y \in Pools :
               /\ Holding(x, y)' <=> ((Holding(x, y) /\ x # q) \/ (x = Head(queue[p]) /\ y = p))
               /\ Queued(x, y)' <=> (Queued(x, y) /\ x # Head(queue[p]))
    PROVE  SlotInv'
  <1> DEFINE h == Head(queue[p])
             s == queue[p]
  <1>1. s \in Seq(Requests) /\ \A i, j \in 1 .. Len(s) : s[i] = s[j] => i = j
    BY DEF SlotInv, SlotTypes, QueueOrdered
  <1>2. /\ h \in Requests /\ h = s[1] /\ Tail(s) \in Seq(Requests)
        /\ \A i, j \in 1 .. Len(Tail(s)) : Tail(s)[i] = Tail(s)[j] => i = j
        /\ \A e : (\E i \in 1 .. Len(Tail(s)) : Tail(s)[i] = e) <=>
                  e # h /\ \E i \in 1 .. Len(s) : s[i] = e
    BY <1>1, TailOnce
  <1>3. Queued(h, p)
    <2>1. 1 \in 1 .. Len(s)  BY <1>1, EmptySeq
    <2> QED BY <2>1, <1>2 DEF SlotInv, QueueOrdered, InQueue
  <1>4. QueueOrdered'
    <2>1. queue' = [queue EXCEPT ![p] = Tail(s)]  OBVIOUS
    <2>2. \A x \in Requests, y \in Pools : Queued(x, y)' <=> (Queued(x, y) /\ x # h)  OBVIOUS
    <2> HIDE DEF h
    <2>3. Tail(s) \in Seq(Requests) /\ h \in Requests  BY <1>2
    <2> DEFINE t == Tail(s)
    <2>4. \A e : (\E i \in 1 .. Len(t) : t[i] = e) <=>
                 e # h /\ \E i \in 1 .. Len(queue[p]) : queue[p][i] = e
      BY <1>2
    <2>5. \A i, j \in 1 .. Len(t) : t[i] = t[j] => i = j  BY <1>2
    <2>6. t \in Seq(Requests) /\ queue' = [queue EXCEPT ![p] = t]  BY <2>1, <2>3
    <2> HIDE DEF t, s
    <2> QED BY <1>3, <2>2, <2>3, <2>4, <2>5, <2>6, ShortenedOrdered
  <1>5. SlotConserved'
    <2> SUFFICES ASSUME NEW y \in Pools
                 PROVE  /\ \A x, z \in Requests : Holding(x, y)' /\ Holding(z, y)' => x = z
                        /\ free'[y] <=> ~\E x \in Requests : Holding(x, y)'
      BY DEF SlotConserved
    <2>1. Holding(q, y) => y = p  BY DEF Holding
    <2> QED BY <1>2, <2>1 DEF SlotInv, SlotConserved
  <1> QED BY <1>4, <1>5 DEF SlotInv

\* A cancelled waiter leaves the queue.
LEMMA DroppedKept ==
    ASSUME SlotInv, SlotTypes', UNCHANGED free,
           NEW q \in Requests, In(q, {"queued"}), Dropped(q),
           \A x \in Requests, y \in Pools :
               /\ Holding(x, y)' <=> Holding(x, y)
               /\ Queued(x, y)' <=> (Queued(x, y) /\ x # q)
    PROVE  SlotInv'
  <1> DEFINE p == reqs[q].pool
             s == queue[p]
  <1>1. p \in Pools /\ Queued(q, p)  BY DEF SlotInv, SlotTypes, Request, Queued
  <1>2. s \in Seq(Requests) /\ \A i, j \in 1 .. Len(s) : s[i] = s[j] => i = j
    BY <1>1 DEF SlotInv, SlotTypes, QueueOrdered
  <1>3. PICK n \in 1 .. Len(s) : s[n] = q /\ queue' = [queue EXCEPT ![p] = RemoveAt(@, n)]
    <2>1. DOMAIN s = 1 .. Len(s)  BY <1>2, LenProperties
    <2> QED BY <2>1 DEF Dropped
  <1>4. /\ RemoveAt(s, n) \in Seq(Requests)
        /\ \A i, j \in 1 .. Len(RemoveAt(s, n)) :
               RemoveAt(s, n)[i] = RemoveAt(s, n)[j] => i = j
        /\ \A e : (\E i \in 1 .. Len(RemoveAt(s, n)) : RemoveAt(s, n)[i] = e) <=>
                  e # q /\ \E i \in 1 .. Len(s) : s[i] = e
    <2> HIDE DEF p, s
    <2> DEFINE t == RemoveAt(s, n)
    <2>1. /\ t \in Seq(Requests)
          /\ \A i, j \in 1 .. Len(t) : t[i] = t[j] => i = j
          /\ \A e : (\E i \in 1 .. Len(t) : t[i] = e) <=> e # s[n] /\ \E i \in 1 .. Len(s) : s[i] = e
      BY ONLY <1>2, RemovedOnce, Zenon
    <2> QED BY <1>3, <2>1
  <1>5. QueueOrdered'
    <2>1. queue' = [queue EXCEPT ![p] = RemoveAt(s, n)]  BY <1>1, <1>3 DEF SlotInv, SlotTypes
    <2> HIDE DEF p, s
    <2> QED BY <1>1, <1>4, <2>1, ShortenedOrdered DEF s
  <1>6. SlotConserved'  BY DEF SlotInv, SlotConserved
  <1> QED BY <1>5, <1>6 DEF SlotInv
-----------------------------------------------------------------------------
(* The steps of a request, by what they do to its slot. *)

\* q becomes r: who holds and who waits afterwards.
LEMMA Became ==
    ASSUME SlotInv, NEW q \in Requests, NEW r \in Request, reqs' = [reqs EXCEPT ![q] = r]
    PROVE  /\ reqs' \in [Requests -> Request]
           /\ \A x \in Requests, y \in Pools :
                 /\ Holding(x, y)' <=> IF x = q THEN r.phase \in Holds /\ r.pool = y
                                                ELSE Holding(x, y)
                 /\ Queued(x, y)' <=> IF x = q THEN r.phase = "queued" /\ r.pool = y
                                               ELSE Queued(x, y)
  <1>1. reqs' \in [Requests -> Request] /\ \A x \in Requests : reqs'[x] = IF x = q THEN r ELSE reqs[x]
    BY DEF SlotInv, SlotTypes
  <1> QED BY <1>1 DEF Holding, Queued, In

\* The request keeps its slot, or its place, or has none before and after.
LEMMA SameSlot ==
    ASSUME SlotInv, NEW q \in Requests, NEW r \in Request,
           reqs' = [reqs EXCEPT ![q] = r], UNCHANGED <<free, queue>>,
           \/ reqs[q].phase \in Holds /\ r.phase \in Holds /\ r.pool = reqs[q].pool
           \/ reqs[q].phase = "queued" /\ r.phase = "queued" /\ r.pool = reqs[q].pool
           \/ reqs[q].phase \notin Holds \cup {"queued"} /\ r.phase \notin Holds \cup {"queued"}
    PROVE  SlotInv'
  <1>1. "queued" \notin Holds  BY DEF Holds, Serves
  <1>2. SlotTypes'  BY Became DEF SlotInv, SlotTypes
  <1>3. \A x \in Requests, y \in Pools :
            (Holding(x, y)' <=> Holding(x, y)) /\ (Queued(x, y)' <=> Queued(x, y))
    BY <1>1, Became DEF Holding, Queued, In
  <1> QED BY <1>2, <1>3, QuietKept

LEMMA ServingTyped ==
    ASSUME NEW r \in Request
    PROVE  Serving(r) \in Request /\ Serving(r).pool = r.pool /\ Serving(r).phase \in {"prefill", "decode"}
  <1>1. (r.key # NoPrefix /\ Contains(entries[r.pool], r.key)) \in BOOLEAN
    BY DEF Contains
  <1> DEFINE hit == r.key # NoPrefix /\ Contains(entries[r.pool], r.key)
  <1>2. Serving(r) = IF r.pool = "decode" THEN [r EXCEPT !.phase = "decode"]
                     ELSE [r EXCEPT !.phase = "prefill", !.hit = hit]
    BY DEF Serving
  <1> HIDE DEF hit
  <1>3. hit \in BOOLEAN  BY <1>1 DEF hit
  <1> QED BY <1>2, <1>3, ZenonT(40) DEF Request, Phases, Serves

LEMMA AcquireKept ==
    ASSUME SlotInv, NEW q \in Requests, NEW r \in Request, Acquire(q, r),
           In(q, {"idle", "transfer"})
    PROVE  SlotInv'
  <1>1. /\ reqs[q].phase \notin Holds \cup {"queued"} /\ "queued" \notin Holds
        /\ "prefill" \in Holds /\ "decode" \in Holds /\ r.pool \in Pools
    BY DEF In, Holds, Serves, Request
  <1>2. CASE Locked(r.pool)
    <2> DEFINE n == [r EXCEPT !.phase = "queued"]
    <2>1. n \in Request /\ n.phase = "queued" /\ n.pool = r.pool
      BY DEF Request, Phases, Waits
    <2>2. reqs' = [reqs EXCEPT ![q] = n] /\ UNCHANGED free
          /\ queue' = [queue EXCEPT ![r.pool] = Append(@, q)]
      BY <1>2 DEF Acquire
    <2> HIDE DEF n
    <2>3. \A x \in Requests, y \in Pools :
              /\ Holding(x, y)' <=> Holding(x, y)
              /\ Queued(x, y)' <=> (Queued(x, y) \/ (x = q /\ y = r.pool))
      <3>1. \A x \in Requests, y \in Pools :
                /\ Holding(x, y)' <=> IF x = q THEN n.phase \in Holds /\ n.pool = y ELSE Holding(x, y)
                /\ Queued(x, y)' <=> IF x = q THEN n.phase = "queued" /\ n.pool = y ELSE Queued(x, y)
        BY <2>1, <2>2, Became
      <3>2. \A y \in Pools : ~Holding(q, y) /\ ~Queued(q, y)
        BY <1>1 DEF Holding, Queued, In
      <3> QED BY <1>1, <2>1, <3>1, <3>2
    <2>4. SlotTypes'
      <3>1. queue' \in [Pools -> Seq(Requests)]
        BY <1>1, <2>2 DEF SlotInv, SlotTypes
      <3> QED BY <2>1, <2>2, <3>1, Became DEF SlotInv, SlotTypes
    <2>5. ~Queued(q, r.pool)  BY <1>1 DEF Queued, In
    <2> QED BY <1>1, <2>2, <2>3, <2>4, <2>5, JoinedKept
  <1>3. CASE ~Locked(r.pool)
    <2> DEFINE n == Serving(r)
    <2>1. n \in Request /\ n.phase \in {"prefill", "decode"} /\ n.pool = r.pool
      BY ServingTyped
    <2>2. reqs' = [reqs EXCEPT ![q] = n] /\ UNCHANGED queue /\ free[r.pool]
          /\ free' = [free EXCEPT ![r.pool] = FALSE]
      BY <1>3 DEF Acquire, Locked
    <2> HIDE DEF n
    <2>3. \A x \in Requests, y \in Pools :
              /\ Holding(x, y)' <=> (Holding(x, y) \/ (x = q /\ y = r.pool))
              /\ Queued(x, y)' <=> Queued(x, y)
      <3>1. \A x \in Requests, y \in Pools :
                /\ Holding(x, y)' <=> IF x = q THEN n.phase \in Holds /\ n.pool = y ELSE Holding(x, y)
                /\ Queued(x, y)' <=> IF x = q THEN n.phase = "queued" /\ n.pool = y ELSE Queued(x, y)
        BY <2>1, <2>2, Became
      <3>2. \A y \in Pools : ~Holding(q, y) /\ ~Queued(q, y)
        BY <1>1 DEF Holding, Queued, In
      <3> QED BY <1>1, <2>1, <3>1, <3>2
    <2>4. SlotTypes'
      BY <2>1, <2>2, Became DEF SlotInv, SlotTypes
    <2> QED BY <1>1, <2>2, <2>3, <2>4, TakenKept
  <1> QED BY <1>2, <1>3

LEMMA GiveBackKept ==
    ASSUME SlotInv, NEW q \in Requests, NEW p \in Pools, Holding(q, p),
           NEW r \in Request, r.phase \in {"transfer", "over"}, GiveBack(p, q, r)
    PROVE  SlotInv'
  <1>1. /\ r.phase \notin Holds \cup {"queued"} /\ "queued" \notin Holds /\ "granted" \in Holds
        /\ reqs[q].phase # "queued"
    BY DEF Holds, Serves, Holding, In
  <1>2. CASE queue[p] = <<>>
    <2>1. UNCHANGED queue /\ reqs' = [reqs EXCEPT ![q] = r] /\ free' = [free EXCEPT ![p] = TRUE]
      BY <1>2 DEF GiveBack
    <2>2. \A x \in Requests, y \in Pools :
              /\ Holding(x, y)' <=> (Holding(x, y) /\ x # q)
              /\ Queued(x, y)' <=> Queued(x, y)
      <3>1. \A x \in Requests, y \in Pools :
                /\ Holding(x, y)' <=> IF x = q THEN r.phase \in Holds /\ r.pool = y ELSE Holding(x, y)
                /\ Queued(x, y)' <=> IF x = q THEN r.phase = "queued" /\ r.pool = y ELSE Queued(x, y)
        BY <2>1, Became
      <3>2. \A y \in Pools : ~Queued(q, y)
        BY <1>1 DEF Queued, In
      <3> QED BY <1>1, <3>1, <3>2
    <2>3. SlotTypes'  BY <2>1, Became DEF SlotInv, SlotTypes
    <2> QED BY <2>1, <2>2, <2>3, FreedKept
  <1>3. CASE queue[p] # <<>>
    <2> DEFINE h == Head(queue[p])
    <2>1. h \in Requests /\ Tail(queue[p]) \in Seq(Requests) /\ Queued(h, p)
      <3>1. queue[p] \in Seq(Requests)  BY DEF SlotInv, SlotTypes
      <3>2. h \in Requests /\ h = queue[p][1] /\ Tail(queue[p]) \in Seq(Requests)
            /\ 1 \in 1 .. Len(queue[p])
        BY <3>1, <1>3, HeadTailProperties, EmptySeq
      <3> QED BY <3>2 DEF SlotInv, QueueOrdered, InQueue
    <2>2. h # q /\ reqs[h].phase = "queued" /\ reqs[h].pool = p
      BY <1>1, <2>1 DEF Queued, In
    <2>3. /\ queue' = [queue EXCEPT ![p] = Tail(@)] /\ UNCHANGED free
          /\ reqs' = [reqs EXCEPT ![q] = r, ![h].phase = "granted"]
      BY <1>3 DEF GiveBack
    <2>4. /\ reqs' \in [Requests -> Request]
          /\ \A x \in Requests : reqs'[x] = IF x = h THEN [reqs[h] EXCEPT !.phase = "granted"]
                                            ELSE IF x = q THEN r ELSE reqs[x]
      <3> HIDE DEF h
      <3>1. reqs \in [Requests -> Request]  BY DEF SlotInv, SlotTypes
      <3>2. [reqs[h] EXCEPT !.phase = "granted"] \in Request
        BY <2>1, <3>1 DEF Request, Phases, Waits
      <3> QED BY <2>1, <2>2, <2>3, <3>1, <3>2
    <2>5. \A x \in Requests, y \in Pools :
              /\ Holding(x, y)' <=> ((Holding(x, y) /\ x # q) \/ (x = h /\ y = p))
              /\ Queued(x, y)' <=> (Queued(x, y) /\ x # h)
      <3> HIDE DEF h
      <3>1. reqs[h] \in Request  BY <2>1 DEF SlotInv, SlotTypes
      <3>2. [reqs[h] EXCEPT !.phase = "granted"].phase = "granted"
            /\ [reqs[h] EXCEPT !.phase = "granted"].pool = reqs[h].pool
        BY <3>1 DEF Request
      <3> QED BY <1>1, <2>1, <2>2, <2>4, <3>2 DEF Holding, Queued, In
    <2>6. SlotTypes'
      BY <2>1, <2>3, <2>4 DEF SlotInv, SlotTypes
    <2> QED BY <1>3, <2>3, <2>5, <2>6, HandedKept
  <1> QED BY <1>2, <1>3
-----------------------------------------------------------------------------
\* Simulator.__init__: every pool starts with its slot free and nobody in its queue.
THEOREM SlotInitially == Init => SlotInv
<1> SUFFICES ASSUME Init PROVE SlotInv
  OBVIOUS
<1>1. SlotTypes
  <2>1. <<>> \in Seq(Requests)  OBVIOUS
  <2> QED BY <2>1 DEF Init, SlotTypes, Request, Phases, Modes, Pools
<1>2. \A q \in Requests : reqs[q].phase = "idle"  BY DEF Init
<1>3. "idle" \notin Holds /\ "idle" # "queued"  BY DEF Holds, Serves
<1>4. SlotConserved  BY <1>2, <1>3 DEF Init, SlotConserved, Holding, In
<1>5. QueueOrdered
  <2>1. \A p \in Pools : queue[p] = <<>> /\ 1 .. Len(queue[p]) = {}  BY DEF Init
  <2> QED BY <1>2, <1>3, <2>1 DEF QueueOrdered, InQueue, Queued, In
<1> QED BY <1>1, <1>4, <1>5 DEF SlotInv

\* slot: no step of a request, cancelled or not, loses a slot, hands one out twice or
\* leaves the queue with anyone but those that wait.
THEOREM SlotStep == SlotInv /\ [Next]_vars => SlotInv'
<1> SUFFICES ASSUME SlotInv, [Next]_vars PROVE SlotInv'
  OBVIOUS
<1>1. CASE UNCHANGED vars
  BY <1>1 DEF vars, SlotInv, SlotTypes, SlotConserved, Holding, In, QueueOrdered, InQueue,
     Queued
<1>2. ASSUME NEW q \in Requests, NEW m \in Modes, NEW k \in PrefixKeys \cup {NoPrefix}, Arrive(q, m, k)
      PROVE  SlotInv'
  <2> DEFINE r == [phase |-> "idle", mode |-> m, key |-> k,
                   pool |-> IF m = "combined" THEN "combined" ELSE "prefill",
                   hit |-> FALSE, gone |-> FALSE]
  <2>1. r \in Request  BY DEF Request, Phases, Pools
  <2>2. Acquire(q, r) /\ In(q, {"idle", "transfer"})  BY <1>2 DEF Arrive, In
  <2> HIDE DEF r
  <2> QED BY <2>1, <2>2, AcquireKept
<1>3. \A q \in Requests : reqs[q] \in Request /\ reqs[q].pool \in Pools
  BY DEF SlotInv, SlotTypes, Request
<1>4. ASSUME NEW q \in Requests, Resume(q)
      PROVE  SlotInv'
  <2>1. reqs' = [reqs EXCEPT ![q] = Serving(reqs[q])] /\ UNCHANGED <<free, queue>>
        /\ reqs[q].phase \in Holds
    BY <1>4 DEF Resume, In, Holds
  <2>2. /\ Serving(reqs[q]) \in Request /\ Serving(reqs[q]).pool = reqs[q].pool
        /\ Serving(reqs[q]).phase \in Holds
    BY <1>3, ServingTyped DEF Holds, Serves
  <2> QED BY <2>1, <2>2, SameSlot
<1>5. \A q \in Requests : Over(q) \in Request /\ Over(q).phase = "over" /\ "over" \notin Holds \cup {"queued"}
  BY <1>3 DEF Over, Request, Phases, Holds, Serves
<1>6. \A q \in Requests, p \in {"decode", "transfer"} : /\ Prefilled(q, p) \in Request
                            /\ Prefilled(q, p).phase = p
                            /\ Prefilled(q, p).pool = reqs[q].pool
  BY <1>3 DEF Prefilled, Request, Phases, Serves
<1>7. ASSUME NEW q \in Requests, In(q, Holds), NEW r \in {Over(q), Prefilled(q, "transfer")},
             GiveBack(reqs[q].pool, q, r)
      PROVE  SlotInv'
  <2>1. Holding(q, reqs[q].pool)  BY <1>7 DEF Holding
  <2>2. r \in Request /\ r.phase \in {"transfer", "over"}  BY <1>5, <1>6, <1>7
  <2> QED BY <1>3, <1>7, <2>1, <2>2, GiveBackKept
<1>8. ASSUME NEW q \in Requests, In(q, {"leaving", "transfer"}),
             reqs' = [reqs EXCEPT ![q] = Over(q)], UNCHANGED <<free, queue>>
      PROVE  SlotInv'
  <2>1. reqs[q].phase \notin Holds \cup {"queued"}  BY <1>8 DEF In, Holds, Serves
  <2> QED BY <1>5, <1>8, <2>1, SameSlot
<1>9. ASSUME NEW q \in Requests, Unwind(q)
      PROVE  SlotInv'
  <2>1. CASE In(q, {"leaving"}) /\ reqs' = [reqs EXCEPT ![q] = Over(q)] /\ UNCHANGED <<free, queue>>
    BY <1>8, <2>1 DEF In
  <2>2. CASE In(q, {"returning"}) /\ GiveBack(reqs[q].pool, q, Over(q))
    <3>1. In(q, Holds)  BY <2>2 DEF In, Holds
    <3> QED BY <1>7, <2>2, <3>1
  <2> QED BY <1>9, <2>1, <2>2 DEF Unwind
<1>10. ASSUME NEW q \in Requests, PrefillDone(q)
       PROVE  SlotInv'
  <2>1. In(q, Holds)  BY <1>10 DEF PrefillDone, In, Holds, Serves
  <2>2. CASE reqs[q].mode = "combined"
    <3>1. reqs' = [reqs EXCEPT ![q] = Prefilled(q, "decode")] /\ UNCHANGED <<free, queue>>
      BY <1>10, <2>2 DEF PrefillDone
    <3>2. "decode" \in Holds /\ reqs[q].phase \in Holds  BY <2>1 DEF In, Holds, Serves
    <3> QED BY <1>6, <3>1, <3>2, SameSlot
  <2>3. CASE reqs[q].mode # "combined"
    <3>1. \/ GiveBack(reqs[q].pool, q, Over(q))
          \/ GiveBack(reqs[q].pool, q, Prefilled(q, "transfer"))
      BY <1>10, <2>3 DEF PrefillDone, Release
    <3> QED BY <1>7, <2>1, <3>1
  <2> QED BY <2>2, <2>3
<1>11. ASSUME NEW q \in Requests, TransferDone(q)
       PROVE  SlotInv'
  <2>1. In(q, {"idle", "transfer"}) /\ In(q, {"leaving", "transfer"})  BY <1>11 DEF TransferDone, In
  <2>2. [reqs[q] EXCEPT !.pool = "decode"] \in Request  BY <1>3 DEF Request, Pools
  <2>3. \/ Acquire(q, [reqs[q] EXCEPT !.pool = "decode"])
        \/ reqs' = [reqs EXCEPT ![q] = Over(q)] /\ UNCHANGED <<free, queue>>
    BY <1>11 DEF TransferDone
  <2> QED BY <1>8, <2>1, <2>2, <2>3, AcquireKept
<1>12. ASSUME NEW q \in Requests, DecodeDone(q)
       PROVE  SlotInv'
  <2>1. In(q, Holds)  BY <1>12 DEF DecodeDone, In, Holds, Serves
  <2> QED BY <1>7, <1>12, <2>1 DEF DecodeDone, Release
<1>13. ASSUME NEW q \in Requests, NEW new \in {"leaving", "returning", "orphan"}
       PROVE  LET r == [reqs[q] EXCEPT !.phase = new]
              IN  r \in Request /\ r.phase = new /\ r.pool = reqs[q].pool
  BY <1>3 DEF Request, Phases, Waits, Serves
<1>14. ASSUME NEW q \in Requests, Cancel(q)
       PROVE  SlotInv'
  <2>1. CASE In(q, {"queued"}) /\ Dropped(q) /\ UNCHANGED free
             /\ reqs' = [reqs EXCEPT ![q].phase = "leaving"]
    <3> DEFINE r == [reqs[q] EXCEPT !.phase = "leaving"]
    <3>1. r \in Request /\ r.phase = "leaving"  BY <1>13
    <3>2. reqs' = [reqs EXCEPT ![q] = r]  BY <2>1
    <3> HIDE DEF r
    <3>3. \A x \in Requests, y \in Pools :
              /\ Holding(x, y)' <=> IF x = q THEN r.phase \in Holds /\ r.pool = y ELSE Holding(x, y)
              /\ Queued(x, y)' <=> IF x = q THEN r.phase = "queued" /\ r.pool = y ELSE Queued(x, y)
      BY <3>1, <3>2, Became
    <3>4. "leaving" \notin Holds /\ \A y \in Pools : ~Holding(q, y)
      BY <2>1 DEF Holding, In, Holds, Serves
    <3>5. \A x \in Requests, y \in Pools :
              /\ Holding(x, y)' <=> Holding(x, y)
              /\ Queued(x, y)' <=> (Queued(x, y) /\ x # q)
      BY <3>1, <3>3, <3>4
    <3>6. SlotTypes'
      <4>1. queue' \in [Pools -> Seq(Requests)]
        <5>1. PICK i \in DOMAIN queue[reqs[q].pool] :
                  queue' = [queue EXCEPT ![reqs[q].pool] = RemoveAt(queue[reqs[q].pool], i)]
          BY <2>1, <1>3 DEF Dropped, SlotInv, SlotTypes
        <5>2. queue[reqs[q].pool] \in Seq(Requests) /\ i \in 1 .. Len(queue[reqs[q].pool])
          BY <1>3, LenProperties DEF SlotInv, SlotTypes
        <5>3. \A a, b \in 1 .. Len(queue[reqs[q].pool]) :
                  queue[reqs[q].pool][a] = queue[reqs[q].pool][b] => a = b
          BY <1>3 DEF SlotInv, QueueOrdered
        <5> DEFINE s == queue[reqs[q].pool]
        <5>4. RemoveAt(s, i) \in Seq(Requests)
          <6> HIDE DEF s
          <6>1. s \in Seq(Requests) /\ i \in 1 .. Len(s)
                /\ \A a, b \in 1 .. Len(s) : s[a] = s[b] => a = b
            BY <5>2, <5>3 DEF s
          <6> QED BY ONLY <6>1, RemovedOnce, Zenon
        <5> QED BY <5>1, <5>4 DEF SlotInv, SlotTypes
      <4> QED BY <2>1, <3>1, <3>2, <4>1, Became DEF SlotInv, SlotTypes
    <3> QED BY <2>1, <3>5, <3>6, DroppedKept
  <2>2. CASE In(q, {"granted"}) /\ UNCHANGED <<free, queue>>
             /\ reqs' = [reqs EXCEPT ![q].phase = "returning"]
    <3> DEFINE r == [reqs[q] EXCEPT !.phase = "returning"]
    <3>1. reqs' = [reqs EXCEPT ![q] = r] /\ UNCHANGED <<free, queue>>  BY <2>2
    <3>2. reqs[q].phase \in Holds /\ "returning" \in Holds  BY <2>2 DEF In, Holds
    <3>3. r \in Request /\ r.phase = "returning" /\ r.pool = reqs[q].pool  BY <1>13
    <3> HIDE DEF r
    <3> QED BY <3>1, <3>2, <3>3, SameSlot
  <2>3. CASE In(q, {"prefill", "decode", "orphan"}) /\ Release(q, Over(q))
    <3>1. In(q, Holds)  BY <2>3 DEF In, Holds, Serves
    <3> QED BY <1>7, <2>3, <3>1 DEF Release
  <2>4. CASE In(q, {"transfer"}) /\ reqs' = [reqs EXCEPT ![q] = Over(q)] /\ UNCHANGED <<free, queue>>
    BY <1>8, <2>4 DEF In
  <2> QED BY <1>14, <2>1, <2>2, <2>3, <2>4 DEF Cancel
<1>15. ASSUME NEW q \in Requests, Orphan(q)
       PROVE  SlotInv'
  <2>1. /\ reqs' = [reqs EXCEPT ![q] = [reqs[q] EXCEPT !.phase = "orphan"]]
        /\ UNCHANGED <<free, queue>>
        /\ reqs[q].phase \in Holds /\ "orphan" \in Holds
    BY <1>15 DEF Orphan, In, Holds, Serves
  <2> QED BY <1>13, <2>1, SameSlot
<1>16. ASSUME NEW q \in Requests, Abandon(q)
       PROVE  SlotInv'
  <2> DEFINE r == [reqs[q] EXCEPT !.gone = TRUE]
  <2>1. r \in Request /\ r.phase = reqs[q].phase /\ r.pool = reqs[q].pool  BY <1>3 DEF Request
  <2>2. /\ reqs' = [reqs EXCEPT ![q] = r] /\ UNCHANGED <<free, queue>>
        /\ reqs[q].phase = "queued" \/ reqs[q].phase \in Holds
    BY <1>16 DEF Abandon, In, Holds, Serves
  <2> HIDE DEF r
  <2> QED BY <2>1, <2>2, SameSlot
<1> QED
  BY <1>1, <1>2, <1>4, <1>9, <1>10, <1>11, <1>12, <1>14, <1>15, <1>16 DEF Next, Progress

\* Slots, queues and requests keep the invariant in every state.
THEOREM SlotInvKept == Spec => []SlotInv
  BY SlotInitially, SlotStep, PTL DEF Spec

\* The slot of a pool has one holder or is free, for any number of requests and
\* wherever cancellations fall (Simulator.slot).
THEOREM SlotNeverLost == Spec => []SlotConserved
<1>1. SlotInv => SlotConserved  BY DEF SlotInv
<1> QED BY <1>1, SlotInvKept, PTL

\* The queue of a pool is exactly the requests that wait for its slot.
THEOREM QueueAlwaysExact == Spec => []QueueExact
<1>1. SlotInv => QueueExact
  <2> SUFFICES ASSUME SlotInv, NEW p \in Pools
               PROVE  /\ IsInjective(queue[p])
                      /\ Range(queue[p]) = {q \in Requests : Queued(q, p)}
    BY DEF QueueExact, Queued
  <2>1. queue[p] \in Seq(Requests) /\ DOMAIN queue[p] = 1 .. Len(queue[p])
        /\ \A i \in 1 .. Len(queue[p]) : queue[p][i] \in Requests
    BY LenProperties DEF SlotInv, SlotTypes
  <2>2. IsInjective(queue[p])  BY <2>1 DEF SlotInv, QueueOrdered, IsInjective
  <2>3. \A e : e \in Range(queue[p]) <=> \E i \in 1 .. Len(queue[p]) : queue[p][i] = e
    BY <2>1 DEF Range
  <2>4. \A e \in Requests : e \in Range(queue[p]) <=> Queued(e, p)
    BY <2>3 DEF SlotInv, QueueOrdered, InQueue
  <2>5. Range(queue[p]) \subseteq Requests  BY <2>1, <2>3
  <2> QED BY <2>2, <2>4, <2>5
<1> QED BY <1>1, SlotInvKept, PTL

\* Slots and queues together.
THEOREM SlotsAlwaysExact == Spec => []SlotsExact
  BY SlotNeverLost, QueueAlwaysExact, PTL DEF SlotsExact
-----------------------------------------------------------------------------
(* The gauges of the pools. *)

Waiting(q, p) == In(q, Waits) /\ reqs[q].pool = p
Running(q, p) == In(q, Serves) /\ reqs[q].pool = p

\* A gauge counts, pool by pool, the members of some finite sets.
Counts(gauge, sets) ==
    /\ gauge \in [Pools -> Nat]
    /\ \A p \in Pools : IsFiniteSet(sets[p]) /\ gauge[p] = Cardinality(sets[p])

Waiters == [p \in Pools |-> {q \in Requests : Waiting(q, p)}]
Runners == [p \in Pools |-> {q \in Requests : Running(q, p)}]

GaugeInv == Counts(waiting, Waiters) /\ Counts(running, Runners)

\* The gauge of some phases after q became r: up when it enters them, down when it leaves.
Follows(before, after, phases, q, r) ==
    /\ In(q, phases) /\ r.phase \in phases => after = before /\ r.pool = reqs[q].pool
    /\ In(q, phases) /\ r.phase \notin phases => after = [before EXCEPT ![reqs[q].pool] = @ - 1]
    /\ ~In(q, phases) /\ r.phase \in phases => after = [before EXCEPT ![r.pool] = @ + 1]
    /\ ~In(q, phases) /\ r.phase \notin phases => after = before

\* q becomes r, and nobody else starts or stops to wait or to run.
Moves(q, r) ==
    \A x \in Requests, p \in Pools :
        /\ Waiting(x, p)' <=> IF x = q THEN r.phase \in Waits /\ r.pool = p ELSE Waiting(x, p)
        /\ Running(x, p)' <=> IF x = q THEN r.phase \in Serves /\ r.pool = p ELSE Running(x, p)

\* One member more in the set of one pool.
LEMMA OneMore ==
    ASSUME NEW g, NEW S, NEW T, NEW p \in Pools, NEW q, Counts(g, S),
           q \notin S[p], T[p] = S[p] \cup {q}, \A y \in Pools : y # p => T[y] = S[y]
    PROVE  Counts([g EXCEPT ![p] = @ + 1], T)
  <1>1. IsFiniteSet(S[p]) /\ g[p] = Cardinality(S[p]) /\ g \in [Pools -> Nat]  BY DEF Counts
  <1> DEFINE more == S[p] \cup {q}
  <1>2. IsFiniteSet(more) /\ Cardinality(more) = Cardinality(S[p]) + 1
    <2>1. IsFiniteSet(S[p]) /\ q \notin S[p]  BY <1>1
    <2> QED BY ONLY <2>1, FS_AddElement
  <1>3. T[p] = more  OBVIOUS
  <1> HIDE DEF more
  <1> QED BY <1>1, <1>2, <1>3 DEF Counts

\* One member less.
LEMMA OneLess ==
    ASSUME NEW g, NEW S, NEW T, NEW p \in Pools, NEW q, Counts(g, S),
           q \in S[p], T[p] = S[p] \ {q}, \A y \in Pools : y # p => T[y] = S[y]
    PROVE  Counts([g EXCEPT ![p] = @ - 1], T)
  <1>1. IsFiniteSet(S[p]) /\ g[p] = Cardinality(S[p]) /\ g \in [Pools -> Nat]  BY DEF Counts
  <1>2. IsFiniteSet(T[p]) /\ Cardinality(T[p]) = g[p] - 1  BY <1>1, FS_RemoveElement
  <1>3. g[p] - 1 \in Nat  BY <1>2, FS_CardinalityType
  <1> QED BY <1>1, <1>2, <1>3 DEF Counts

\* A gauge that follows one request counts the sets that this request enters or leaves.
LEMMA FollowedCounts ==
    ASSUME SlotTypes, NEW q \in Requests, NEW r \in Request, NEW phases,
           NEW g, NEW h, NEW S, NEW T, Counts(g, S), Follows(g, h, phases, q, r),
           \A p \in Pools : /\ S[p] \subseteq Requests /\ T[p] \subseteq Requests
                            /\ q \in S[p] <=> (In(q, phases) /\ reqs[q].pool = p)
                            /\ q \in T[p] <=> (r.phase \in phases /\ r.pool = p)
                            /\ \A x \in Requests : x # q => (x \in T[p] <=> x \in S[p])
    PROVE  Counts(h, T)
  <1>1. reqs[q].pool \in Pools /\ r.pool \in Pools  BY DEF SlotTypes, Request
  <1>2. ASSUME NEW p \in Pools
        PROVE  /\ (q \in S[p] <=> q \in T[p]) => T[p] = S[p]
               /\ q \in S[p] /\ q \notin T[p] => T[p] = S[p] \ {q}
               /\ q \notin S[p] /\ q \in T[p] => T[p] = S[p] \cup {q}
    <2>1. S[p] \subseteq Requests /\ T[p] \subseteq Requests  OBVIOUS
    <2>2. \A x \in Requests : x # q => (x \in T[p] <=> x \in S[p])  OBVIOUS
    <2> QED BY ONLY <2>1, <2>2, q \in Requests
  <1>3. \A p \in Pools : /\ q \in S[p] <=> (In(q, phases) /\ reqs[q].pool = p)
                         /\ q \in T[p] <=> (r.phase \in phases /\ r.pool = p)
    OBVIOUS
  <1>4. CASE (In(q, phases) <=> r.phase \in phases)
    <2>1. h = g /\ (In(q, phases) => r.pool = reqs[q].pool)  BY <1>4 DEF Follows
    <2>2. \A p \in Pools : T[p] = S[p]
      <3>1. \A p \in Pools : q \in S[p] <=> q \in T[p]  BY ONLY <1>3, <1>4, <2>1
      <3> QED BY ONLY <1>2, <3>1
    <2> QED BY <2>1, <2>2 DEF Counts
  <1>5. CASE In(q, phases) /\ r.phase \notin phases
    <2> DEFINE p == reqs[q].pool
    <2>1. h = [g EXCEPT ![p] = @ - 1]  BY <1>5 DEF Follows
    <2>2. q \in S[p] /\ q \notin T[p]
          /\ \A y \in Pools : y # p => q \notin S[y] /\ q \notin T[y]
      BY ONLY <1>1, <1>3, <1>5
    <2>3. p \in Pools  BY <1>1
    <2> HIDE DEF p
    <2>4. T[p] = S[p] \ {q} /\ \A y \in Pools : y # p => T[y] = S[y]
      BY ONLY <1>2, <2>2, <2>3
    <2>5. Counts(g, S) /\ q \in S[p]  BY <2>2
    <2>6. Counts([g EXCEPT ![p] = @ - 1], T)
      BY ONLY <2>3, <2>4, <2>5, OneLess, Zenon
    <2> QED BY <2>1, <2>6
  <1>6. CASE ~In(q, phases) /\ r.phase \in phases
    <2> DEFINE p == r.pool
    <2>1. h = [g EXCEPT ![p] = @ + 1]  BY <1>6 DEF Follows
    <2>2. q \notin S[p] /\ q \in T[p]
          /\ \A y \in Pools : y # p => q \notin S[y] /\ q \notin T[y]
      BY ONLY <1>1, <1>3, <1>6
    <2>3. p \in Pools  BY <1>1
    <2> HIDE DEF p
    <2>4. T[p] = S[p] \cup {q} /\ \A y \in Pools : y # p => T[y] = S[y]
      BY ONLY <1>2, <2>2, <2>3
    <2>5. Counts(g, S) /\ q \notin S[p]  BY <2>2
    <2>6. Counts([g EXCEPT ![p] = @ + 1], T)
      BY ONLY <2>3, <2>4, <2>5, OneMore, Zenon
    <2> QED BY <2>1, <2>6
  <1> QED BY <1>4, <1>5, <1>6

LEMMA GaugesFollow ==
    ASSUME SlotTypes, GaugeInv, NEW q \in Requests, NEW r \in Request, Moves(q, r),
           Follows(waiting, waiting', Waits, q, r), Follows(running, running', Serves, q, r)
    PROVE  GaugeInv'
  <1>1. \A p \in Pools :
            /\ Waiters[p] \subseteq Requests /\ (Waiters')[p] \subseteq Requests
            /\ q \in Waiters[p] <=> (In(q, Waits) /\ reqs[q].pool = p)
            /\ q \in (Waiters')[p] <=> (r.phase \in Waits /\ r.pool = p)
            /\ \A x \in Requests : x # q => (x \in (Waiters')[p] <=> x \in Waiters[p])
    BY DEF Waiters, Waiting, Moves
  <1>2. \A p \in Pools :
            /\ Runners[p] \subseteq Requests /\ (Runners')[p] \subseteq Requests
            /\ q \in Runners[p] <=> (In(q, Serves) /\ reqs[q].pool = p)
            /\ q \in (Runners')[p] <=> (r.phase \in Serves /\ r.pool = p)
            /\ \A x \in Requests : x # q => (x \in (Runners')[p] <=> x \in Runners[p])
    BY DEF Runners, Running, Moves
  <1>3. Counts(waiting', Waiters')
    <2>1. Counts(waiting, Waiters)  BY DEF GaugeInv
    <2> QED BY <1>1, <2>1, FollowedCounts
  <1>4. Counts(running', Runners')
    <2>1. Counts(running, Runners)  BY DEF GaugeInv
    <2> QED BY <1>2, <2>1, FollowedCounts
  <1> QED BY <1>3, <1>4 DEF GaugeInv, Counts

\* Nobody else moves when one request becomes another.
LEMMA BecameMoves ==
    ASSUME SlotTypes, NEW q \in Requests, NEW r \in Request, reqs' = [reqs EXCEPT ![q] = r]
    PROVE  Moves(q, r)
  <1>1. \A x \in Requests : reqs'[x] = IF x = q THEN r ELSE reqs[x]
    BY DEF SlotTypes
  <1> QED BY <1>1 DEF Moves, Waiting, Running, In

\* The waiter that is granted the slot waits before and after.
LEMMA GivenBackMoves ==
    ASSUME SlotInv, NEW q \in Requests, In(q, Holds), NEW r \in Request,
           GiveBack(reqs[q].pool, q, r)
    PROVE  Moves(q, r)
  <1> DEFINE p == reqs[q].pool
  <1>1. SlotTypes /\ p \in Pools /\ queue[p] \in Seq(Requests)
    BY DEF SlotInv, SlotTypes, Request
  <1>2. CASE queue[p] = <<>>
    <2>1. reqs' = [reqs EXCEPT ![q] = r]  BY <1>2 DEF GiveBack
    <2> QED BY <1>1, <2>1, BecameMoves
  <1>3. CASE queue[p] # <<>>
    <2> DEFINE h == Head(queue[p])
    <2>1. h \in Requests /\ h = queue[p][1] /\ 1 \in 1 .. Len(queue[p])
      BY <1>1, <1>3, HeadTailProperties, EmptySeq
    <2>2. reqs[h].phase = "queued"
      BY <1>1, <2>1 DEF SlotInv, QueueOrdered, InQueue, Queued, In
    <2>3. h # q  BY <2>2 DEF In, Holds, Serves
    <2>4. reqs' = [reqs EXCEPT ![q] = r, ![h].phase = "granted"]
      BY <1>3 DEF GiveBack
    <2> HIDE DEF h
    <2>5. \A x \in Requests : reqs'[x] = IF x = h THEN [reqs[h] EXCEPT !.phase = "granted"]
                                         ELSE IF x = q THEN r ELSE reqs[x]
      BY <1>1, <2>1, <2>3, <2>4 DEF SlotTypes
    <2>6. [reqs[h] EXCEPT !.phase = "granted"].phase = "granted"
          /\ [reqs[h] EXCEPT !.phase = "granted"].pool = reqs[h].pool
      BY <1>1, <2>1 DEF SlotTypes, Request
    <2>7. /\ "granted" \in Waits /\ "queued" \in Waits
          /\ "granted" \notin Serves /\ "queued" \notin Serves
      BY DEF Waits, Serves
    <2> QED BY <2>2, <2>3, <2>5, <2>6, <2>7 DEF Moves, Waiting, Running, In
  <1> QED BY <1>2, <1>3

\* slot: the steps that take, keep or leave a slot or a place in the queue.
LEMMA AcquireCounted ==
    ASSUME SlotTypes, GaugeInv, NEW q \in Requests, NEW r \in Request, Acquire(q, r),
           In(q, {"idle", "transfer"})
    PROVE  GaugeInv'
  <1>1. ~In(q, Waits) /\ ~In(q, Serves)  BY DEF In, Waits, Serves
  <1>2. CASE Locked(r.pool)
    <2> DEFINE n == [r EXCEPT !.phase = "queued"]
    <2>1. n \in Request /\ n.phase \in Waits /\ n.phase \notin Serves /\ n.pool = r.pool
      BY DEF Request, Phases, Waits, Serves
    <2>2. reqs' = [reqs EXCEPT ![q] = n] /\ running' = running
          /\ waiting' = [waiting EXCEPT ![r.pool] = @ + 1]
      BY <1>2 DEF Acquire
    <2> HIDE DEF n
    <2>3. Follows(waiting, waiting', Waits, q, n) /\ Follows(running, running', Serves, q, n)
      BY <1>1, <2>1, <2>2 DEF Follows
    <2> QED BY <2>1, <2>2, <2>3, BecameMoves, GaugesFollow
  <1>3. CASE ~Locked(r.pool)
    <2> DEFINE n == Serving(r)
    <2>1. n \in Request /\ n.phase \notin Waits /\ n.phase \in Serves /\ n.pool = r.pool
      BY ServingTyped DEF Waits, Serves
    <2>2. reqs' = [reqs EXCEPT ![q] = n] /\ waiting' = waiting
          /\ running' = [running EXCEPT ![r.pool] = @ + 1]
      BY <1>3 DEF Acquire
    <2> HIDE DEF n
    <2>3. Follows(waiting, waiting', Waits, q, n) /\ Follows(running, running', Serves, q, n)
      BY <1>1, <2>1, <2>2 DEF Follows
    <2> QED BY <2>1, <2>2, <2>3, BecameMoves, GaugesFollow
  <1> QED BY <1>2, <1>3

LEMMA ReleaseCounted ==
    ASSUME SlotInv, GaugeInv, NEW q \in Requests, In(q, Serves), NEW r \in Request,
           r.phase \in {"transfer", "over"}, Release(q, r), UNCHANGED waiting
    PROVE  GaugeInv'
  <1>1. In(q, Holds) /\ ~In(q, Waits) /\ r.phase \notin Waits /\ r.phase \notin Serves
    BY DEF In, Holds, Waits, Serves
  <1>2. Moves(q, r)  BY <1>1, GivenBackMoves DEF Release
  <1>3. Follows(waiting, waiting', Waits, q, r) /\ Follows(running, running', Serves, q, r)
    BY <1>1 DEF Follows, Release
  <1> QED BY <1>2, <1>3, GaugesFollow DEF SlotInv

\* The request stays among those that wait, that run or that do neither.
LEMMA QuietCounted ==
    ASSUME SlotTypes, GaugeInv, NEW q \in Requests, NEW r \in Request,
           reqs' = [reqs EXCEPT ![q] = r], UNCHANGED <<waiting, running>>,
           \/ In(q, Waits) /\ r.phase \in Waits /\ r.pool = reqs[q].pool
           \/ In(q, Serves) /\ r.phase \in Serves /\ r.pool = reqs[q].pool
           \/ ~In(q, Waits \cup Serves) /\ r.phase \notin Waits \cup Serves
    PROVE  GaugeInv'
  <1>1. \A w : ~(w \in Waits /\ w \in Serves)  BY DEF Waits, Serves
  <1>2. Follows(waiting, waiting', Waits, q, r) /\ Follows(running, running', Serves, q, r)
    BY <1>1 DEF Follows, In
  <1> QED BY <1>2, BecameMoves, GaugesFollow

\* slot: WAITING and RUNNING start at zero with nobody in a pool.
THEOREM GaugesInitially == Init => GaugeInv
<1> SUFFICES ASSUME Init PROVE GaugeInv
  OBVIOUS
<1>1. \A q \in Requests : ~In(q, Waits) /\ ~In(q, Serves)
  BY DEF Init, In, Waits, Serves
<1>2. \A p \in Pools : Waiters[p] = {} /\ Runners[p] = {}
  BY <1>1 DEF Waiters, Runners, Waiting, Running
<1> QED BY <1>2, FS_EmptySet DEF Init, GaugeInv, Counts

\* Every step keeps the gauges at the numbers of waiting and of running requests.
THEOREM GaugesStep == SlotInv /\ GaugeInv /\ [Next]_vars => GaugeInv'
<1> SUFFICES ASSUME SlotInv, GaugeInv, [Next]_vars PROVE GaugeInv'
  OBVIOUS
<1>0. SlotTypes /\ \A q \in Requests : reqs[q] \in Request /\ reqs[q].pool \in Pools
  BY DEF SlotInv, SlotTypes, Request
<1>1. CASE UNCHANGED vars
  BY <1>1 DEF vars, GaugeInv, Counts, Waiters, Runners, Waiting, Running, In
<1>2. ASSUME NEW q \in Requests, NEW m \in Modes, NEW k \in PrefixKeys \cup {NoPrefix}, Arrive(q, m, k)
      PROVE  GaugeInv'
  <2> DEFINE r == [phase |-> "idle", mode |-> m, key |-> k,
                   pool |-> IF m = "combined" THEN "combined" ELSE "prefill",
                   hit |-> FALSE, gone |-> FALSE]
  <2>1. r \in Request  BY DEF Request, Phases, Pools
  <2>2. Acquire(q, r) /\ In(q, {"idle", "transfer"})  BY <1>2 DEF Arrive, In
  <2> HIDE DEF r
  <2> QED BY <1>0, <2>1, <2>2, AcquireCounted
<1>3. ASSUME NEW q \in Requests, Resume(q)
      PROVE  GaugeInv'
  <2> DEFINE r == Serving(reqs[q])
  <2>1. r \in Request /\ r.phase \notin Waits /\ r.phase \in Serves /\ r.pool = reqs[q].pool
    BY <1>0, ServingTyped DEF Waits, Serves
  <2>2. In(q, Waits) /\ ~In(q, Serves) /\ reqs' = [reqs EXCEPT ![q] = r]
        /\ waiting' = [waiting EXCEPT ![reqs[q].pool] = @ - 1]
        /\ running' = [running EXCEPT ![reqs[q].pool] = @ + 1]
    BY <1>3 DEF Resume, In, Waits, Serves
  <2> HIDE DEF r
  <2>3. Follows(waiting, waiting', Waits, q, r) /\ Follows(running, running', Serves, q, r)
    BY <2>1, <2>2 DEF Follows
  <2> QED BY <1>0, <2>1, <2>2, <2>3, BecameMoves, GaugesFollow
<1>4. \A q \in Requests : Over(q) \in Request /\ Over(q).phase = "over"
  BY <1>0 DEF Over, Request, Phases
<1>5. \A q \in Requests, p \in {"decode", "transfer"} :
          Prefilled(q, p) \in Request /\ Prefilled(q, p).phase = p
          /\ Prefilled(q, p).pool = reqs[q].pool
  BY <1>0 DEF Prefilled, Request, Phases, Serves
<1>6. "over" \notin Waits \cup Serves /\ "transfer" \notin Waits \cup Serves
  BY DEF Waits, Serves
<1>7. ASSUME NEW q \in Requests, In(q, {"transfer"}), UNCHANGED <<waiting, running>>,
             reqs' = [reqs EXCEPT ![q] = Over(q)]
      PROVE  GaugeInv'
  <2>1. ~In(q, Waits \cup Serves)  BY <1>6, <1>7 DEF In
  <2> QED BY <1>0, <1>4, <1>6, <1>7, <2>1, QuietCounted
<1>8. ASSUME NEW q \in Requests, Unwind(q)
      PROVE  GaugeInv'
  <2> DEFINE r == Over(q)
  <2>1. In(q, Waits) /\ ~In(q, Serves)  BY <1>8 DEF Unwind, In, Waits, Serves
  <2>2. running' = running /\ waiting' = [waiting EXCEPT ![reqs[q].pool] = @ - 1]
    BY <1>8 DEF Unwind
  <2>3. Moves(q, r)
    <3>1. CASE In(q, {"leaving"}) /\ reqs' = [reqs EXCEPT ![q] = r]
      BY <1>0, <1>4, <3>1, BecameMoves
    <3>2. CASE In(q, {"returning"}) /\ GiveBack(reqs[q].pool, q, r)
      <4>1. In(q, Holds)  BY <3>2 DEF In, Holds
      <4> QED BY <1>4, <3>2, <4>1, GivenBackMoves
    <3> QED BY <1>8, <3>1, <3>2 DEF Unwind
  <2>4. r \in Request /\ r.phase \notin Waits /\ r.phase \notin Serves  BY <1>4, <1>6
  <2> HIDE DEF r
  <2>5. Follows(waiting, waiting', Waits, q, r) /\ Follows(running, running', Serves, q, r)
    BY <2>1, <2>2, <2>4 DEF Follows
  <2> QED BY <1>0, <2>3, <2>4, <2>5, GaugesFollow
<1>9. ASSUME NEW q \in Requests, PrefillDone(q)
      PROVE  GaugeInv'
  <2>1. In(q, Serves) /\ waiting' = waiting  BY <1>9 DEF PrefillDone, In, Serves
  <2>2. CASE reqs[q].mode = "combined"
    <3>1. reqs' = [reqs EXCEPT ![q] = Prefilled(q, "decode")] /\ running' = running
      BY <1>9, <2>2 DEF PrefillDone
    <3>2. "decode" \in Serves  BY DEF Serves
    <3> QED BY <1>0, <1>5, <2>1, <3>1, <3>2, QuietCounted
  <2>3. CASE reqs[q].mode # "combined"
    <3>1. Release(q, Over(q)) \/ Release(q, Prefilled(q, "transfer"))
      BY <1>9, <2>3 DEF PrefillDone
    <3> QED BY <1>4, <1>5, <2>1, <3>1, ReleaseCounted
  <2> QED BY <2>2, <2>3
<1>10. ASSUME NEW q \in Requests, TransferDone(q)
       PROVE  GaugeInv'
  <2>1. [reqs[q] EXCEPT !.pool = "decode"] \in Request  BY <1>0 DEF Request, Pools
  <2>2. CASE Acquire(q, [reqs[q] EXCEPT !.pool = "decode"])
    <3>1. In(q, {"idle", "transfer"})  BY <1>10 DEF TransferDone, In
    <3> QED BY <1>0, <2>1, <2>2, <3>1, AcquireCounted
  <2>3. CASE reqs' = [reqs EXCEPT ![q] = Over(q)] /\ UNCHANGED <<waiting, running>>
    BY <1>7, <1>10, <2>3 DEF TransferDone
  <2> QED BY <1>10, <2>2, <2>3 DEF TransferDone
<1>11. ASSUME NEW q \in Requests, DecodeDone(q)
       PROVE  GaugeInv'
  <2>1. In(q, Serves) /\ Release(q, Over(q)) /\ UNCHANGED waiting
    BY <1>11 DEF DecodeDone, In, Serves
  <2> QED BY <1>4, <2>1, ReleaseCounted
<1>12. ASSUME NEW q \in Requests, NEW new \in {"leaving", "returning", "orphan"},
              reqs' = [reqs EXCEPT ![q].phase = new], UNCHANGED <<waiting, running>>,
              (In(q, Waits) /\ new \in Waits) \/ (In(q, Serves) /\ new \in Serves)
       PROVE  GaugeInv'
  <2> DEFINE r == [reqs[q] EXCEPT !.phase = new]
  <2>1. r \in Request /\ r.phase = new /\ r.pool = reqs[q].pool
    BY <1>0 DEF Request, Phases, Waits, Serves
  <2>2. reqs' = [reqs EXCEPT ![q] = r]  BY <1>12
  <2> HIDE DEF r
  <2> QED BY <1>0, <1>12, <2>1, <2>2, QuietCounted
<1>13. ASSUME NEW q \in Requests, Cancel(q)
       PROVE  GaugeInv'
  <2>1. CASE /\ In(q, {"queued"}) /\ reqs' = [reqs EXCEPT ![q].phase = "leaving"]
             /\ UNCHANGED <<waiting, running>>
    <3>1. In(q, Waits) /\ "leaving" \in Waits  BY <2>1 DEF In, Waits
    <3> QED BY <1>12, <2>1, <3>1
  <2>2. CASE /\ In(q, {"granted"}) /\ reqs' = [reqs EXCEPT ![q].phase = "returning"]
             /\ UNCHANGED <<waiting, running>>
    <3>1. In(q, Waits) /\ "returning" \in Waits  BY <2>2 DEF In, Waits
    <3> QED BY <1>12, <2>2, <3>1
  <2>3. CASE In(q, {"prefill", "decode", "orphan"}) /\ Release(q, Over(q)) /\ UNCHANGED waiting
    <3>1. In(q, Serves)  BY <2>3 DEF In, Serves
    <3> QED BY <1>4, <2>3, <3>1, ReleaseCounted
  <2>4. CASE In(q, {"transfer"}) /\ reqs' = [reqs EXCEPT ![q] = Over(q)]
             /\ UNCHANGED <<waiting, running>>
    BY <1>7, <2>4
  <2> QED BY <1>13, <2>1, <2>2, <2>3, <2>4 DEF Cancel
<1>14. ASSUME NEW q \in Requests, Orphan(q)
       PROVE  GaugeInv'
  <2>1. In(q, Serves) /\ "orphan" \in Serves  BY <1>14 DEF Orphan, In, Serves
  <2> QED BY <1>12, <1>14, <2>1 DEF Orphan
<1>15. ASSUME NEW q \in Requests, Abandon(q)
       PROVE  GaugeInv'
  <2> DEFINE r == [reqs[q] EXCEPT !.gone = TRUE]
  <2>1. r \in Request /\ r.phase = reqs[q].phase /\ r.pool = reqs[q].pool
    BY <1>0 DEF Request
  <2>2. reqs' = [reqs EXCEPT ![q] = r] /\ UNCHANGED <<waiting, running>>
    BY <1>15 DEF Abandon
  <2> HIDE DEF r
  <2> QED BY <1>0, <2>1, <2>2, QuietCounted DEF In
<1> QED
  BY <1>1, <1>2, <1>3, <1>8, <1>9, <1>10, <1>11, <1>13, <1>14, <1>15 DEF Next, Progress

\* WAITING and RUNNING are exact, for any number of requests and wherever a cancellation
\* falls (Simulator.slot).
THEOREM GaugesAlwaysExact == Spec => []GaugesExact
<1>1. Init => SlotInv /\ GaugeInv  BY SlotInitially, GaugesInitially
<1>2. SlotInv /\ GaugeInv /\ [Next]_vars => (SlotInv /\ GaugeInv)'
  BY SlotStep, GaugesStep
<1>3. GaugeInv => GaugesExact
  BY DEF GaugeInv, Counts, Waiters, Runners, Waiting, Running, GaugesExact
<1> QED BY <1>1, <1>2, <1>3, PTL DEF Spec
-----------------------------------------------------------------------------
(* The prefix caches. *)

\* Prefixes in the order in which they were used, each once, that weigh so much.
Weighed(keys, held) ==
    /\ keys \in Seq(PrefixKeys)
    /\ \A i, j \in 1 .. Len(keys) : keys[i] = keys[j] => i = j
    /\ IsFiniteSet(Contents(Range(keys)))
    /\ held = Weight(keys)
    /\ held <= Capacity

CacheInv ==
    /\ entries \in [Cached -> Seq(PrefixKeys)]
    /\ bytes \in [Cached -> Nat]
    /\ \A p \in Cached : Weighed(entries[p], bytes[p])
    /\ \A q \in Requests : In(q, {"prefill"}) => reqs[q].pool \in Cached
    /\ HitStays

\* The prefixes of a sequence, position by position.
LEMMA Ranged ==
    ASSUME NEW S, NEW s \in Seq(S)
    PROVE  /\ Range(s) = {s[i] : i \in 1 .. Len(s)} /\ Range(s) \subseteq S
           /\ \A e : e \in Range(s) <=> Contains(s, e)
  <1>1. Len(s) \in Nat /\ DOMAIN s = 1 .. Len(s) /\ \A i \in 1 .. Len(s) : s[i] \in S
    BY LenProperties, ElementOfSeq
  <1> QED BY <1>1 DEF Range, Contains

\* A new prefix at the end.
LEMMA Appended ==
    ASSUME NEW S, NEW s \in Seq(S), NEW e \in S, ~Contains(s, e),
           \A i, j \in 1 .. Len(s) : s[i] = s[j] => i = j
    PROVE  /\ Append(s, e) \in Seq(S)
           /\ \A i, j \in 1 .. Len(Append(s, e)) : Append(s, e)[i] = Append(s, e)[j] => i = j
           /\ Range(Append(s, e)) = Range(s) \cup {e}
  <1> DEFINE t == Append(s, e)
  <1>1. /\ t \in Seq(S) /\ Len(s) \in Nat /\ Len(t) = Len(s) + 1
        /\ \A i \in 1 .. Len(s) : t[i] = s[i]
        /\ t[Len(s) + 1] = e
    BY AppendProperties, LenProperties
  <1> HIDE DEF t
  <1>2. \A i \in 1 .. Len(s) : s[i] # e  BY DEF Contains
  <1>3. \A i, j \in 1 .. Len(t) : t[i] = t[j] => i = j  BY <1>1, <1>2
  <1>4. Range(t) = Range(s) \cup {e}
    <2>1. 1 .. Len(t) = 1 .. Len(s) \cup {Len(s) + 1}  BY <1>1
    <2>2. Range(t) = {t[i] : i \in 1 .. Len(t)} /\ Range(s) = {s[i] : i \in 1 .. Len(s)}
      BY <1>1, Ranged
    <2> QED BY <1>1, <2>1, <2>2
  <1> QED BY <1>1, <1>3, <1>4 DEF t

\* move_to_end keeps the prefixes.
LEMMA MovedRange ==
    ASSUME NEW S, NEW s \in Seq(S), NEW e \in S, Contains(s, e),
           \A i, j \in 1 .. Len(s) : s[i] = s[j] => i = j
    PROVE  /\ MovedToEnd(s, e) \in Seq(S)
           /\ \A i, j \in 1 .. Len(MovedToEnd(s, e)) :
                  MovedToEnd(s, e)[i] = MovedToEnd(s, e)[j] => i = j
           /\ Range(MovedToEnd(s, e)) = Range(s)
  <1>1. PICK n \in 1 .. Len(s) : s[n] = e /\ MovedToEnd(s, e) = Append(RemoveAt(s, n), e)
    <2>1. DOMAIN s = 1 .. Len(s)  BY LenProperties
    <2> DEFINE n == CHOOSE i \in DOMAIN s : s[i] = e
    <2>2. n \in 1 .. Len(s) /\ s[n] = e  BY <2>1 DEF Contains
    <2>3. MovedToEnd(s, e) = Append(RemoveAt(s, n), e)  BY DEF MovedToEnd
    <2> HIDE DEF n
    <2> QED BY <2>2, <2>3
  <1> DEFINE t == RemoveAt(s, n)
  <1>2. /\ t \in Seq(S)
        /\ \A i, j \in 1 .. Len(t) : t[i] = t[j] => i = j
        /\ \A x : (\E i \in 1 .. Len(t) : t[i] = x) <=> x # s[n] /\ \E i \in 1 .. Len(s) : s[i] = x
    <2>1. s \in Seq(S) /\ n \in 1 .. Len(s) /\ \A i, j \in 1 .. Len(s) : s[i] = s[j] => i = j
      OBVIOUS
    <2> QED BY ONLY <2>1, RemovedOnce, Zenon
  <1>3. MovedToEnd(s, e) = Append(t, e)  BY <1>1
  <1> HIDE DEF t
  <1>4. ~Contains(t, e)  BY <1>1, <1>2 DEF Contains
  <1>5. /\ Append(t, e) \in Seq(S)
        /\ \A i, j \in 1 .. Len(Append(t, e)) : Append(t, e)[i] = Append(t, e)[j] => i = j
        /\ Range(Append(t, e)) = Range(t) \cup {e}
    BY <1>2, <1>4, Appended
  <1>6. \A x : x \in Range(s) <=> x \in Range(t) \cup {e}
    <2>1. \A x : (x \in Range(s) <=> Contains(s, x)) /\ (x \in Range(t) <=> Contains(t, x))
      BY <1>2, Ranged
    <2> QED BY <1>1, <1>2, <2>1 DEF Contains
  <1> QED BY <1>3, <1>5, <1>6

\* The first n prefixes, and the others.
LEMMA CutRange ==
    ASSUME NEW S, NEW s \in Seq(S), NEW n \in 0 .. Len(s),
           \A i, j \in 1 .. Len(s) : s[i] = s[j] => i = j
    PROVE  LET a == SubSeq(s, 1, n)
               b == SubSeq(s, n + 1, Len(s))
           IN  /\ a \in Seq(S) /\ b \in Seq(S)
               /\ \A i, j \in 1 .. Len(b) : b[i] = b[j] => i = j
               /\ Range(s) = Range(a) \cup Range(b) /\ Range(a) \cap Range(b) = {}
  <1> DEFINE a == SubSeq(s, 1, n)
             b == SubSeq(s, n + 1, Len(s))
  <1>1. Len(s) \in Nat /\ \A i \in 1 .. Len(s) : s[i] \in S
    BY LenProperties, ElementOfSeq
  <1>2. /\ a \in Seq(S) /\ Len(a) = n
        /\ \A i \in 1 .. n : a[i] = s[i]
    <2>1. \A i \in 1 .. n : s[i] \in S  BY <1>1
    <2>2. n \in Int /\ n >= 0 /\ 1 \in Int  BY <1>1
    <2>3. /\ a \in Seq(S) /\ Len(a) = IF 1 <= n THEN n - 1 + 1 ELSE 0
          /\ \A i \in 1 .. n - 1 + 1 : a[i] = s[1 + i - 1]
      BY <2>1, <2>2, SubSeqProperties
    <2> QED BY <2>2, <2>3
  <1>3. /\ b \in Seq(S) /\ Len(b) = Len(s) - n
        /\ \A i \in 1 .. Len(s) - n : b[i] = s[n + i]
    <2>1. \A i \in n + 1 .. Len(s) : s[i] \in S  BY <1>1
    <2>2. n + 1 \in Int /\ Len(s) \in Int /\ n <= Len(s)  BY <1>1
    <2>3. /\ b \in Seq(S)
          /\ Len(b) = IF n + 1 <= Len(s) THEN Len(s) - (n + 1) + 1 ELSE 0
          /\ \A i \in 1 .. Len(s) - (n + 1) + 1 : b[i] = s[n + 1 + i - 1]
      BY <2>1, <2>2, SubSeqProperties
    <2> QED BY <2>2, <2>3
  <1> HIDE DEF a, b
  <1>4. /\ Range(s) = {s[i] : i \in 1 .. Len(s)}
        /\ Range(a) = {a[i] : i \in 1 .. Len(a)}
        /\ Range(b) = {b[i] : i \in 1 .. Len(b)}
    BY <1>2, <1>3, Ranged
  <1>5. \A i, j \in 1 .. Len(b) : b[i] = b[j] => i = j
    <2> SUFFICES ASSUME NEW i \in 1 .. Len(b), NEW j \in 1 .. Len(b), b[i] = b[j]
                 PROVE  i = j
      OBVIOUS
    <2>1. n + i \in 1 .. Len(s) /\ n + j \in 1 .. Len(s) /\ s[n + i] = s[n + j]
      BY <1>1, <1>3
    <2>2. n + i = n + j  BY <2>1
    <2> QED BY <2>2, <1>3
  <1>6. Range(s) = Range(a) \cup Range(b)
    <2>1. ASSUME NEW i \in 1 .. Len(s)
          PROVE  s[i] \in Range(a) \cup Range(b)
      <3>1. CASE i <= n
        <4>1. i \in 1 .. Len(a) /\ a[i] = s[i]  BY <3>1, <1>1, <1>2
        <4> QED BY <4>1, <1>4
      <3>2. CASE i > n
        <4>1. i - n \in 1 .. Len(b) /\ b[i - n] = s[n + (i - n)] /\ n + (i - n) = i
          BY <3>2, <1>1, <1>3
        <4> QED BY <4>1, <1>4
      <3> QED BY <3>1, <3>2, <1>1
    <2>2. ASSUME NEW i \in 1 .. Len(a)
          PROVE  a[i] \in Range(s)
      <3>1. i \in 1 .. Len(s) /\ a[i] = s[i]  BY <1>1, <1>2
      <3> QED BY <3>1, <1>4
    <2>3. ASSUME NEW i \in 1 .. Len(b)
          PROVE  b[i] \in Range(s)
      <3>1. n + i \in 1 .. Len(s) /\ b[i] = s[n + i]  BY <1>1, <1>3
      <3> QED BY <3>1, <1>4
    <2>4. Range(s) \subseteq Range(a) \cup Range(b)  BY ONLY <2>1, <1>4
    <2>5. Range(a) \subseteq Range(s)  BY ONLY <2>2, <1>4
    <2>6. Range(b) \subseteq Range(s)  BY ONLY <2>3, <1>4
    <2> QED BY ONLY <2>4, <2>5, <2>6
  <1>7. Range(a) \cap Range(b) = {}
    <2> SUFFICES ASSUME NEW i \in 1 .. Len(a), NEW j \in 1 .. Len(b), a[i] = b[j]
                 PROVE  FALSE
      BY <1>4
    <2>1. i \in 1 .. Len(s) /\ n + j \in 1 .. Len(s) /\ s[i] = s[n + j]
      BY <1>1, <1>2, <1>3
    <2>2. i = n + j  BY <2>1
    <2> QED BY <2>2, <1>2, <1>3
  <1> QED BY <1>2, <1>3, <1>5, <1>6, <1>7 DEF a, b

\* The weight of a prefix, and of prefixes with one more.
LEMMA OneWeighs ==
    ASSUME NEW k \in PrefixKeys
    PROVE  IsFiniteSet(Contents({k})) /\ Cardinality(Contents({k})) = Size[k]
  <1>1. Size[k] \in Nat \ {0}  BY SimulatorAssumption
  <1>2. Contents({k}) = {k} \X (1 .. Size[k])  BY DEF Contents
  <1>3. IsFiniteSet({k}) /\ Cardinality({k}) = 1  BY FS_Singleton
  <1>4. IsFiniteSet(1 .. Size[k]) /\ Cardinality(1 .. Size[k]) = Size[k]
    BY <1>1, FS_Interval, SMTT(20)
  <1>5. /\ IsFiniteSet({k} \X (1 .. Size[k]))
        /\ Cardinality({k} \X (1 .. Size[k])) = Cardinality({k}) * Cardinality(1 .. Size[k])
    BY ONLY <1>3, <1>4, FS_Product
  <1>6. Cardinality({k} \X (1 .. Size[k])) = Size[k]
    <2>1. \A w \in Nat : 1 * w = w  OBVIOUS
    <2> QED BY ONLY <1>1, <1>3, <1>4, <1>5, <2>1
  <1> QED BY ONLY <1>2, <1>5, <1>6

\* Sets of prefixes with none in common weigh what they weigh one by one.
LEMMA WeighsTogether ==
    ASSUME NEW A, NEW B, A \cap B = {},
           IsFiniteSet(Contents(A)), IsFiniteSet(Contents(B))
    PROVE  /\ IsFiniteSet(Contents(A \cup B))
           /\ Cardinality(Contents(A \cup B))
                = Cardinality(Contents(A)) + Cardinality(Contents(B))
           /\ Cardinality(Contents(A)) \in Nat /\ Cardinality(Contents(B)) \in Nat
  <1>1. Contents(A \cup B) = Contents(A) \cup Contents(B)  BY DEF Contents
  <1>2. Contents(A) \cap Contents(B) = {}  BY DEF Contents
  <1>3. Cardinality(Contents(A)) \in Nat /\ Cardinality(Contents(B)) \in Nat
    BY FS_CardinalityType
  <1>4. /\ IsFiniteSet(Contents(A) \cup Contents(B))
        /\ Cardinality(Contents(A) \cup Contents(B))
             = Cardinality(Contents(A)) + Cardinality(Contents(B))
               - Cardinality(Contents(A) \cap Contents(B))
    BY FS_Union
  <1>5. Cardinality(Contents(A) \cap Contents(B)) = 0  BY <1>2, FS_EmptySet
  <1>6. Cardinality(Contents(A) \cup Contents(B))
          = Cardinality(Contents(A)) + Cardinality(Contents(B))
    BY ONLY <1>3, <1>4, <1>5
  <1> QED BY ONLY <1>1, <1>3, <1>4, <1>6

\* A part of the prefixes is finite too.
LEMMA PartFinite ==
    ASSUME NEW A, NEW B, IsFiniteSet(Contents(A \cup B))
    PROVE  IsFiniteSet(Contents(A)) /\ IsFiniteSet(Contents(B))
  <1>1. Contents(A) \subseteq Contents(A \cup B) /\ Contents(B) \subseteq Contents(A \cup B)
    BY DEF Contents
  <1> QED BY <1>1, FS_Subset

\* The least of some numbers.
LEMMA LeastOne ==
    ASSUME NEW T, T \subseteq Nat, T # {}
    PROVE  Min(T) \in T
  <1>1. \E i \in T : \A j \in T : ~(j < i)
    <2> PICK less : less = OpToRel(<, Nat)  OBVIOUS
    <2>1. IsWellFoundedOn(less, Nat)  BY NatLessThanWellFounded
    <2>2. \E i \in T : \A j \in T : <<j, i>> \notin less  BY <2>1, WFMin
    <2>3. \A i, j \in Nat : j < i => <<j, i>> \in less  BY DEF OpToRel
    <2> QED BY <2>2, <2>3
  <1>2. \E i \in T : \A j \in T : i <= j  BY <1>1
  <1> QED BY <1>2 DEF Min

\* lookup and insert of a prefix that is there.
LEMMA MovedWeighs ==
    ASSUME NEW s, NEW held, Weighed(s, held), NEW k \in PrefixKeys, Contains(s, k)
    PROVE  /\ Weighed(MovedToEnd(s, k), held)
           /\ \A e : Contains(MovedToEnd(s, k), e) <=> Contains(s, e)
  <1> DEFINE t == MovedToEnd(s, k)
  <1>1. s \in Seq(PrefixKeys) /\ \A i, j \in 1 .. Len(s) : s[i] = s[j] => i = j
    BY DEF Weighed
  <1>2. /\ t \in Seq(PrefixKeys)
        /\ \A i, j \in 1 .. Len(t) : t[i] = t[j] => i = j
        /\ Range(t) = Range(s)
    <2>1. Contains(s, k)  OBVIOUS
    <2> QED BY ONLY <1>1, <2>1, k \in PrefixKeys, MovedRange, Zenon
  <1> HIDE DEF t
  <1>3. \A e : Contains(t, e) <=> Contains(s, e)
    <2>1. \A e : (e \in Range(s) <=> Contains(s, e)) /\ (e \in Range(t) <=> Contains(t, e))
      BY <1>1, <1>2, Ranged
    <2> QED BY <2>1, <1>2
  <1> QED BY <1>2, <1>3 DEF Weighed, Weight, t

\* insert of a new prefix: enough of the oldest go, and the bytes follow.
LEMMA EnteredWeighs ==
    ASSUME NEW s, NEW held, Weighed(s, held), NEW k \in PrefixKeys, ~Contains(s, k),
           Size[k] <= Capacity
    PROVE  Weighed(Entered(s, held, k)[1], Entered(s, held, k)[2])
  <1>1. /\ s \in Seq(PrefixKeys) /\ \A i, j \in 1 .. Len(s) : s[i] = s[j] => i = j
        /\ IsFiniteSet(Contents(Range(s))) /\ held = Cardinality(Contents(Range(s)))
        /\ held \in Nat /\ Len(s) \in Nat /\ Size[k] \in Nat /\ Capacity \in Nat
    BY FS_CardinalityType, LenProperties, SimulatorAssumption DEF Weighed, Weight
  <1> DEFINE enough == {m \in 0 .. Len(s) : held + Size[k] <= Capacity + Weight(SubSeq(s, 1, m))}
             n == Min(enough)
             a == SubSeq(s, 1, n)
             b == SubSeq(s, n + 1, Len(s))
             t == Append(b, k)
             left == held + Size[k] - Weight(a)
  <1>2. n \in 0 .. Len(s) /\ held + Size[k] <= Capacity + Weight(a)
    <2>1. SubSeq(s, 1, Len(s)) = s
      <3>1. /\ SubSeq(s, 1, Len(s)) \in Seq(PrefixKeys)
            /\ Len(SubSeq(s, 1, Len(s))) = Len(s)
            /\ \A i \in 1 .. Len(s) : SubSeq(s, 1, Len(s))[i] = s[i]
        <4>1. \A i \in 1 .. Len(s) : s[i] \in PrefixKeys  BY <1>1, ElementOfSeq
        <4>2. 1 \in Int /\ Len(s) \in Int  BY <1>1
        <4>3. /\ SubSeq(s, 1, Len(s)) \in Seq(PrefixKeys)
              /\ Len(SubSeq(s, 1, Len(s))) = IF 1 <= Len(s) THEN Len(s) - 1 + 1 ELSE 0
              /\ \A i \in 1 .. Len(s) - 1 + 1 : SubSeq(s, 1, Len(s))[i] = s[1 + i - 1]
          BY <4>1, <4>2, SubSeqProperties
        <4> QED BY <4>3, <1>1
      <3> QED BY <1>1, <3>1, SeqEqual
    <2>2. held + Size[k] <= Capacity + Weight(SubSeq(s, 1, Len(s)))
      <3>1. Weight(SubSeq(s, 1, Len(s))) = Weight(s) /\ Weight(s) = held
        BY <2>1 DEF Weighed
      <3> QED BY <1>1, <3>1
    <2>3. Len(s) \in enough
      <3>1. Len(s) \in 0 .. Len(s)  BY <1>1
      <3> QED BY ONLY <2>2, <3>1
    <2>4. enough \subseteq Nat /\ enough # {}  BY <2>3, <1>1
    <2> HIDE DEF enough
    <2>5. n \in enough  BY <2>4, LeastOne
    <2> USE DEF enough
    <2> QED BY <2>5
  <1>3. Entered(s, held, k) = <<t, left>>
    BY DEF Entered, Evictions
  <1> HIDE DEF n, enough
  <1>4. /\ a \in Seq(PrefixKeys) /\ b \in Seq(PrefixKeys)
        /\ \A i, j \in 1 .. Len(b) : b[i] = b[j] => i = j
        /\ Range(s) = Range(a) \cup Range(b) /\ Range(a) \cap Range(b) = {}
    BY <1>1, <1>2, CutRange
  <1> HIDE DEF a, b
  <1>5. /\ IsFiniteSet(Contents(Range(a))) /\ IsFiniteSet(Contents(Range(b)))
        /\ held = Weight(a) + Weight(b) /\ Weight(a) \in Nat /\ Weight(b) \in Nat
    <2>1. IsFiniteSet(Contents(Range(a))) /\ IsFiniteSet(Contents(Range(b)))
      BY <1>1, <1>4, PartFinite
    <2> QED BY <1>1, <1>4, <2>1, WeighsTogether DEF Weight
  <1>6. ~Contains(b, k)
    <2>1. \A e : (e \in Range(s) <=> Contains(s, e)) /\ (e \in Range(b) <=> Contains(b, e))
      BY <1>1, <1>4, Ranged
    <2> QED BY <1>4, <2>1
  <1>7. /\ t \in Seq(PrefixKeys)
        /\ \A i, j \in 1 .. Len(t) : t[i] = t[j] => i = j
        /\ Range(t) = Range(b) \cup {k}
    BY <1>4, <1>6, Appended
  <1> HIDE DEF t
  <1>8. IsFiniteSet(Contents(Range(t))) /\ Weight(t) = Weight(b) + Size[k]
    <2>1. Range(b) \cap {k} = {}
      <3>1. k \notin Range(b)  BY <1>4, <1>6, Ranged
      <3> QED BY <3>1
    <2>2. IsFiniteSet(Contents({k})) /\ Cardinality(Contents({k})) = Size[k]  BY OneWeighs
    <2> QED BY <1>5, <1>7, <2>1, <2>2, WeighsTogether DEF Weight
  <1>9. left = Weight(t) /\ left <= Capacity  BY <1>1, <1>2, <1>5, <1>8
  <1>10. Weighed(t, left)  BY <1>7, <1>8, <1>9 DEF Weighed
  <1> HIDE DEF left
  <1> QED BY <1>3, <1>10

\* A step that leaves the caches alone and starts no prefill.
LEMMA QuietCached ==
    ASSUME CacheInv, UNCHANGED <<entries, bytes>>,
           \A x \in Requests :
               reqs'[x].phase = "prefill" =>
                   /\ reqs[x].phase = "prefill" /\ reqs'[x].pool = reqs[x].pool
                   /\ reqs'[x].hit = reqs[x].hit /\ reqs'[x].key = reqs[x].key
    PROVE  CacheInv'
  <1>1. \A q \in Requests : In(q, {"prefill"})' => reqs'[q].pool \in Cached
    BY DEF CacheInv, In
  <1>2. HitStays'  BY DEF CacheInv, HitStays, In
  <1> QED BY <1>1, <1>2 DEF CacheInv, Weighed

\* The request that gets the slot looks its prefix up.
LEMMA ServedCached ==
    ASSUME SlotTypes, CacheInv, NEW q \in Requests, NEW r \in Request,
           reqs' = [reqs EXCEPT ![q] = Serving(r)], entries' = LookedUp(r), bytes' = bytes
    PROVE  CacheInv'
  <1>1. \A x \in Requests : reqs'[x] = IF x = q THEN Serving(r) ELSE reqs[x]
    BY DEF SlotTypes
  <1>2. /\ Serving(r).pool = r.pool /\ Serving(r).key = r.key
        /\ Serving(r).phase = "prefill" => r.pool \in Cached
        /\ Serving(r).phase = "prefill" /\ Serving(r).hit =>
               r.key \in PrefixKeys /\ Contains(entries[r.pool], r.key)
        /\ r.pool \in Cached /\ Serving(r).hit => Serving(r).phase = "prefill"
    <2>1. r.pool \in Pools /\ r.key \in PrefixKeys \cup {NoPrefix}  BY DEF Request
    <2> DEFINE hit == r.key # NoPrefix /\ Contains(entries[r.pool], r.key)
    <2>2. CASE r.pool = "decode"
      <3>1. Serving(r) = [r EXCEPT !.phase = "decode"]  BY <2>2 DEF Serving
      <3> QED BY <2>1, <2>2, <3>1 DEF Request, Cached
    <2>3. CASE r.pool # "decode"
      <3>1. Serving(r) = [r EXCEPT !.phase = "prefill", !.hit = hit]  BY <2>3 DEF Serving
      <3> HIDE DEF hit
      <3>2. /\ Serving(r).pool = r.pool /\ Serving(r).key = r.key
            /\ Serving(r).phase = "prefill" /\ Serving(r).hit = hit
        BY <3>1 DEF Request
      <3>3. r.pool \in Cached  BY <2>1, <2>3 DEF Pools, Cached
      <3> QED BY <2>1, <3>2, <3>3 DEF hit
    <2> QED BY <2>2, <2>3
  <1>3. /\ entries' \in [Cached -> Seq(PrefixKeys)]
        /\ \A p \in Cached : /\ Weighed(entries'[p], bytes'[p])
                             /\ \A e : Contains(entries'[p], e) <=> Contains(entries[p], e)
    <2> DEFINE looked == r.pool \in Cached /\ Serving(r).hit
    <2>1. CASE ~looked
      <3>1. entries' = entries  BY <2>1 DEF LookedUp
      <3> QED BY <3>1 DEF CacheInv
    <2>2. CASE looked
      <3> DEFINE p == r.pool
                 s == entries[p]
                 t == MovedToEnd(s, r.key)
      <3>1. p \in Cached /\ r.key \in PrefixKeys /\ Contains(s, r.key)
        BY <1>2, <2>2
      <3>2. Weighed(s, bytes[p])  BY <3>1 DEF CacheInv
      <3>3. Weighed(t, bytes[p]) /\ \A e : Contains(t, e) <=> Contains(s, e)
        BY <3>1, <3>2, MovedWeighs
      <3>4. entries' = [entries EXCEPT ![p] = t]
        BY <2>2 DEF LookedUp
      <3> HIDE DEF t, p
      <3>5. t \in Seq(PrefixKeys)  BY <3>3 DEF Weighed
      <3>6. entries \in [Cached -> Seq(PrefixKeys)] /\ bytes' = bytes  BY DEF CacheInv
      <3>7. /\ entries' \in [Cached -> Seq(PrefixKeys)]
            /\ \A y \in Cached : entries'[y] = IF y = p THEN t ELSE entries[y]
        BY ONLY <3>1, <3>4, <3>5, <3>6
      <3>8. \A y \in Cached : Weighed(entries[y], bytes[y])  BY DEF CacheInv
      <3> QED BY ONLY <3>1, <3>3, <3>6, <3>7, <3>8
    <2> QED BY <2>1, <2>2
  <1>4. bytes' \in [Cached -> Nat]  BY DEF CacheInv
  <1>5. \A x \in Requests : In(x, {"prefill"})' => reqs'[x].pool \in Cached
    BY <1>1, <1>2 DEF CacheInv, In
  <1>6. HitStays'
    <2> SUFFICES ASSUME NEW x \in Requests, reqs'[x].phase = "prefill", reqs'[x].hit
                 PROVE  Contains(entries'[reqs'[x].pool], reqs'[x].key)
      BY DEF HitStays, In
    <2>1. reqs'[x].pool \in Cached  BY <1>5 DEF In
    <2>2. Contains(entries[reqs'[x].pool], reqs'[x].key)
      BY <1>1, <1>2 DEF CacheInv, HitStays, In
    <2> QED BY <1>3, <2>1, <2>2
  <1> QED BY <1>3, <1>4, <1>5, <1>6 DEF CacheInv

LEMMA AcquireCached ==
    ASSUME SlotTypes, CacheInv, NEW q \in Requests, NEW r \in Request, Acquire(q, r),
           bytes' = bytes
    PROVE  CacheInv'
  <1>1. CASE Locked(r.pool)
    <2>1. reqs' = [reqs EXCEPT ![q] = [r EXCEPT !.phase = "queued"]] /\ entries' = entries
      BY <1>1 DEF Acquire
    <2>2. [r EXCEPT !.phase = "queued"].phase = "queued"  BY DEF Request
    <2>3. \A x \in Requests : reqs'[x].phase = "prefill" => reqs'[x] = reqs[x]
      BY <2>1, <2>2 DEF SlotTypes
    <2> QED BY <2>1, <2>3, QuietCached
  <1>2. CASE ~Locked(r.pool)
    <2>1. reqs' = [reqs EXCEPT ![q] = Serving(r)] /\ entries' = LookedUp(r)
      BY <1>2 DEF Acquire
    <2> QED BY <2>1, ServedCached
  <1> QED BY <1>1, <1>2

\* Whoever gives a slot back, nobody starts a prefill.
LEMMA GivenBackPrefills ==
    ASSUME SlotTypes, NEW q \in Requests, NEW r \in Request, r.phase # "prefill",
           GiveBack(reqs[q].pool, q, r)
    PROVE  \A x \in Requests : reqs'[x].phase = "prefill" => x # q /\ reqs'[x] = reqs[x]
  <1> DEFINE p == reqs[q].pool
  <1>1. p \in Pools /\ queue[p] \in Seq(Requests)  BY DEF SlotTypes, Request
  <1>2. CASE queue[p] = <<>>
    BY <1>2 DEF GiveBack, SlotTypes
  <1>3. CASE queue[p] # <<>>
    <2> DEFINE h == Head(queue[p])
    <2>1. h \in Requests  BY <1>1, <1>3, HeadTailProperties, EmptySeq
    <2>2. reqs' = [reqs EXCEPT ![q] = r, ![h].phase = "granted"]  BY <1>3 DEF GiveBack
    <2> HIDE DEF h
    <2> DEFINE mid == [reqs EXCEPT ![q] = r]
    <2>3. /\ mid \in [Requests -> Request] /\ mid[q] = r
          /\ \A x \in Requests : x # q => mid[x] = reqs[x]
      BY DEF SlotTypes
    <2>4. reqs' = [mid EXCEPT ![h].phase = "granted"]  BY <2>2
    <2> HIDE DEF mid
    <2>5. mid[h] \in Request  BY <2>1, <2>3
    <2>6. [mid[h] EXCEPT !.phase = "granted"].phase = "granted"  BY <2>5 DEF Request
    <2>7. \A x \in Requests : reqs'[x] = IF x = h THEN [mid[h] EXCEPT !.phase = "granted"]
                                                  ELSE mid[x]
      BY ONLY <2>1, <2>3, <2>4
    <2>8. \A x \in Requests : reqs'[x].phase = "prefill" => x # h /\ reqs'[x] = mid[x]
      BY ONLY <2>6, <2>7
    <2>9. \A x \in Requests : reqs'[x].phase = "prefill" => x # q
      BY <2>3, <2>8
    <2> QED BY ONLY <2>3, <2>8, <2>9
  <1> QED BY <1>2, <1>3

\* The end of a prefill: its prefix is entered, and no other prefill is under way there.
LEMMA PrefilledCached ==
    ASSUME SlotInv, CacheInv, NEW q \in Requests, PrefillDone(q)
    PROVE  CacheInv'
  <1> DEFINE p     == reqs[q].pool
             k     == reqs[q].key
             cache == Inserted(entries[p], bytes[p], k)
  <1>1. SlotTypes /\ reqs[q] \in Request /\ reqs[q].phase = "prefill" /\ p \in Cached
        /\ k \in PrefixKeys \cup {NoPrefix}
    BY DEF SlotInv, SlotTypes, Request, PrefillDone, In, CacheInv
  <1>2. Weighed(cache[1], cache[2])
    <2> DEFINE s == entries[p]
               held == bytes[p]
    <2>1. Weighed(s, held)  BY <1>1 DEF CacheInv
    <2>2. cache = Inserted(s, held, k)  OBVIOUS
    <2> HIDE DEF s, held, cache, k
    <2>3. CASE k = NoPrefix \/ Size[k] > Capacity
      BY <2>1, <2>2, <2>3 DEF Inserted
    <2>4. CASE ~(k = NoPrefix \/ Size[k] > Capacity) /\ Contains(s, k)
      <3>1. k \in PrefixKeys  BY <1>1, <2>4
      <3>2. cache = <<MovedToEnd(s, k), held>>  BY <2>2, <2>4 DEF Inserted
      <3> QED BY <2>1, <2>4, <3>1, <3>2, MovedWeighs
    <2>5. CASE ~(k = NoPrefix \/ Size[k] > Capacity) /\ ~Contains(s, k)
      <3>1. k \in PrefixKeys /\ Size[k] <= Capacity
        BY <1>1, <2>5, SimulatorAssumption
      <3>2. cache = Entered(s, held, k)  BY <2>2, <2>5 DEF Inserted
      <3> QED BY <2>1, <2>5, <3>1, <3>2, EnteredWeighs
    <2> QED BY <2>3, <2>4, <2>5
  <1>3. entries' = [entries EXCEPT ![p] = cache[1]] /\ bytes' = [bytes EXCEPT ![p] = cache[2]]
    BY DEF PrefillDone
  <1>4. \A x \in Requests : reqs'[x].phase = "prefill" => x # q /\ reqs'[x] = reqs[x]
    <2>1. CASE reqs' = [reqs EXCEPT ![q] = Prefilled(q, "decode")]
      <3>1. Prefilled(q, "decode").phase = "decode"  BY <1>1 DEF Prefilled, Request
      <3> QED BY <1>1, <2>1, <3>1 DEF SlotTypes
    <2>2. ASSUME NEW r \in {Over(q), Prefilled(q, "transfer")}, Release(q, r)
          PROVE  \A x \in Requests : reqs'[x].phase = "prefill" => x # q /\ reqs'[x] = reqs[x]
      <3>1. r \in Request /\ r.phase # "prefill"
        BY <1>1 DEF Over, Prefilled, Request, Phases
      <3> QED BY <1>1, <2>2, <3>1, GivenBackPrefills DEF Release
    <2> QED BY <2>1, <2>2 DEF PrefillDone
  <1> HIDE DEF cache
  <1>5. cache[1] \in Seq(PrefixKeys) /\ cache[2] \in Nat
    BY <1>2, FS_CardinalityType DEF Weighed, Weight
  <1>6. /\ entries' \in [Cached -> Seq(PrefixKeys)] /\ bytes' \in [Cached -> Nat]
        /\ \A y \in Cached : /\ entries'[y] = IF y = p THEN cache[1] ELSE entries[y]
                             /\ bytes'[y] = IF y = p THEN cache[2] ELSE bytes[y]
    BY <1>1, <1>3, <1>5 DEF CacheInv
  <1>7. \A y \in Cached : Weighed(entries'[y], bytes'[y])
    BY <1>2, <1>6 DEF CacheInv
  <1>8. \A x \in Requests : In(x, {"prefill"})' => reqs'[x].pool \in Cached
    BY <1>4 DEF CacheInv, In
  <1>9. HitStays'
    <2> SUFFICES ASSUME NEW x \in Requests, reqs'[x].phase = "prefill", reqs'[x].hit
                 PROVE  Contains(entries'[reqs'[x].pool], reqs'[x].key)
      BY DEF HitStays, In
    <2>1. x # q /\ reqs'[x] = reqs[x] /\ reqs[x].phase = "prefill"  BY <1>4
    <2>2. reqs[x].pool \in Cached /\ Contains(entries[reqs[x].pool], reqs[x].key)
      BY <2>1 DEF CacheInv, HitStays, In
    <2>3. reqs[x].pool # p
      <3> SUFFICES ASSUME reqs[x].pool = p PROVE FALSE  OBVIOUS
      <3>1. p \in Pools /\ Holding(x, p) /\ Holding(q, p)
        BY <1>1, <2>1 DEF Holding, In, Holds, Serves, Cached, Pools
      <3> QED BY <2>1, <3>1 DEF SlotInv, SlotConserved
    <2> QED BY <1>6, <2>1, <2>2, <2>3
  <1> QED BY <1>6, <1>7, <1>8, <1>9 DEF CacheInv

-----------------------------------------------------------------------------
\* PrefixCache.__init__: the caches start empty.
THEOREM CacheInitially == Init => CacheInv
<1> SUFFICES ASSUME Init PROVE CacheInv
  OBVIOUS
<1>1. Weighed(<<>>, 0)
  <2> DEFINE s == <<>>
  <2>1. s \in Seq(PrefixKeys) /\ Len(s) = 0  OBVIOUS
  <2> HIDE DEF s
  <2>2. 1 .. Len(s) = {}  BY <2>1
  <2>3. Range(s) = {}
    <3>1. Range(s) = {s[i] : i \in 1 .. Len(s)}  BY <2>1, Ranged
    <3> QED BY ONLY <2>2, <3>1
  <2>4. Contents(Range(s)) = {}  BY <2>3 DEF Contents
  <2>5. IsFiniteSet(Contents(Range(s))) /\ Weight(s) = 0  BY <2>4, FS_EmptySet DEF Weight
  <2>6. Weighed(s, 0)  BY <2>1, <2>2, <2>5, SimulatorAssumption DEF Weighed
  <2> QED BY <2>6 DEF s
<1>2. \A q \in Requests : ~In(q, {"prefill"})  BY DEF Init, In
<1>3. entries = [p \in Cached |-> <<>>] /\ bytes = [p \in Cached |-> 0]  BY DEF Init
<1>4. <<>> \in Seq(PrefixKeys)  OBVIOUS
<1> QED BY <1>1, <1>2, <1>3, <1>4 DEF CacheInv, HitStays

\* Every step keeps the bytes at the weight of the entries and every prefix in use.
THEOREM CacheStep == SlotInv /\ CacheInv /\ [Next]_vars => CacheInv'
<1> SUFFICES ASSUME SlotInv, CacheInv, [Next]_vars PROVE CacheInv'
  OBVIOUS
<1>0. SlotTypes /\ \A q \in Requests : reqs[q] \in Request
  BY DEF SlotInv, SlotTypes
<1>1. CASE UNCHANGED vars
  BY <1>1, QuietCached DEF vars
<1>2. ASSUME NEW q \in Requests, NEW m \in Modes, NEW k \in PrefixKeys \cup {NoPrefix}, Arrive(q, m, k)
      PROVE  CacheInv'
  <2> DEFINE r == [phase |-> "idle", mode |-> m, key |-> k,
                   pool |-> IF m = "combined" THEN "combined" ELSE "prefill",
                   hit |-> FALSE, gone |-> FALSE]
  <2>1. r \in Request  BY DEF Request, Phases, Pools
  <2>2. Acquire(q, r) /\ bytes' = bytes  BY <1>2 DEF Arrive
  <2> HIDE DEF r
  <2> QED BY <1>0, <2>1, <2>2, AcquireCached
<1>3. ASSUME NEW q \in Requests, Resume(q)
      PROVE  CacheInv'
  <2>1. /\ reqs' = [reqs EXCEPT ![q] = Serving(reqs[q])] /\ entries' = LookedUp(reqs[q])
        /\ bytes' = bytes
    BY <1>3 DEF Resume
  <2> QED BY <1>0, <2>1, ServedCached
<1>4. ASSUME NEW q \in Requests, NEW r \in Request, r.phase # "prefill",
             reqs' = [reqs EXCEPT ![q] = r], UNCHANGED <<entries, bytes>>
      PROVE  CacheInv'
  <2>1. \A x \in Requests : reqs'[x].phase = "prefill" => reqs'[x] = reqs[x]
    BY <1>0, <1>4 DEF SlotTypes
  <2> QED BY <1>4, <2>1, QuietCached
<1>5. ASSUME NEW q \in Requests, GiveBack(reqs[q].pool, q, Over(q)), UNCHANGED <<entries, bytes>>
      PROVE  CacheInv'
  <2>1. Over(q) \in Request /\ Over(q).phase # "prefill"  BY <1>0 DEF Over, Request, Phases
  <2>2. \A x \in Requests : reqs'[x].phase = "prefill" => reqs'[x] = reqs[x]
    BY <1>0, <1>5, <2>1, GivenBackPrefills
  <2> QED BY <1>5, <2>2, QuietCached
<1>6. ASSUME NEW q \in Requests, reqs' = [reqs EXCEPT ![q] = Over(q)], UNCHANGED <<entries, bytes>>
      PROVE  CacheInv'
  <2>1. Over(q) \in Request /\ Over(q).phase # "prefill"  BY <1>0 DEF Over, Request, Phases
  <2> QED BY <1>4, <1>6, <2>1
<1>7. ASSUME NEW q \in Requests, NEW new \in {"leaving", "returning", "orphan"},
             reqs' = [reqs EXCEPT ![q].phase = new], UNCHANGED <<entries, bytes>>
      PROVE  CacheInv'
  <2> DEFINE r == [reqs[q] EXCEPT !.phase = new]
  <2>1. r \in Request /\ r.phase # "prefill"
    BY <1>0 DEF Request, Phases, Waits, Serves
  <2>2. reqs' = [reqs EXCEPT ![q] = r]  BY <1>7
  <2> HIDE DEF r
  <2> QED BY <1>4, <1>7, <2>1, <2>2
<1>8. ASSUME NEW q \in Requests, Unwind(q)
      PROVE  CacheInv'
  BY <1>5, <1>6, <1>8 DEF Unwind
<1>9. ASSUME NEW q \in Requests, TransferDone(q)
      PROVE  CacheInv'
  <2>1. [reqs[q] EXCEPT !.pool = "decode"] \in Request  BY <1>0 DEF Request, Pools
  <2>2. CASE Acquire(q, [reqs[q] EXCEPT !.pool = "decode"])
    <3>1. bytes' = bytes  BY <1>9 DEF TransferDone
    <3> QED BY <1>0, <2>1, <2>2, <3>1, AcquireCached
  <2>3. CASE reqs' = [reqs EXCEPT ![q] = Over(q)] /\ UNCHANGED <<entries, bytes>>
    BY <1>6, <2>3
  <2> QED BY <1>9, <2>2, <2>3 DEF TransferDone
<1>10. ASSUME NEW q \in Requests, DecodeDone(q)
       PROVE  CacheInv'
  BY <1>5, <1>10 DEF DecodeDone, Release
<1>11. ASSUME NEW q \in Requests, Cancel(q)
       PROVE  CacheInv'
  <2>1. /\ UNCHANGED <<entries, bytes>>
        /\ \/ reqs' = [reqs EXCEPT ![q].phase = "leaving"]
           \/ reqs' = [reqs EXCEPT ![q].phase = "returning"]
           \/ GiveBack(reqs[q].pool, q, Over(q))
           \/ reqs' = [reqs EXCEPT ![q] = Over(q)]
    BY <1>11 DEF Cancel, Release
  <2> QED BY <1>5, <1>6, <1>7, <2>1
<1>12. ASSUME NEW q \in Requests, Orphan(q)
       PROVE  CacheInv'
  BY <1>7, <1>12 DEF Orphan
<1>13. ASSUME NEW q \in Requests, Abandon(q)
       PROVE  CacheInv'
  <2> DEFINE r == [reqs[q] EXCEPT !.gone = TRUE]
  <2>1. /\ r.phase = reqs[q].phase /\ r.pool = reqs[q].pool
        /\ r.hit = reqs[q].hit /\ r.key = reqs[q].key
    BY <1>0 DEF Request
  <2>2. reqs' = [reqs EXCEPT ![q] = r] /\ UNCHANGED <<entries, bytes>>
    BY <1>13 DEF Abandon
  <2> HIDE DEF r
  <2>3. \A x \in Requests : reqs'[x] = IF x = q THEN r ELSE reqs[x]
    BY <1>0, <2>2 DEF SlotTypes
  <2> QED BY <2>1, <2>2, <2>3, QuietCached
<1> QED
  BY <1>1, <1>2, <1>3, <1>8, <1>9, <1>10, <1>11, <1>12, <1>13, PrefilledCached DEF Next,
     Progress

\* The prefix caches are sound for any prefixes and any capacity: the bytes follow the
\* entries, fit, and a prefix that a prefill skips stays until the prefill is done.
THEOREM CacheAlwaysSound == Spec => []CacheSound
<1>1. Init => SlotInv /\ GaugeInv /\ CacheInv
  BY SlotInitially, GaugesInitially, CacheInitially
<1>2. SlotInv /\ GaugeInv /\ CacheInv /\ [Next]_vars => (SlotInv /\ GaugeInv /\ CacheInv)'
  BY SlotStep, GaugesStep, CacheStep
<1>3. SlotInv /\ GaugeInv /\ CacheInv => CacheSound
  <2> SUFFICES ASSUME SlotInv, GaugeInv, CacheInv PROVE CacheSound
    OBVIOUS
  <2>1. \A p \in Cached : bytes[p] = Weight(entries[p]) /\ bytes[p] <= Capacity
                          /\ bytes[p] \in 0 .. Capacity
    BY SimulatorAssumption DEF CacheInv, Weighed
  <2>2. TypeOK
    BY <2>1 DEF TypeOK, SlotInv, SlotTypes, GaugeInv, Counts, CacheInv
  <2>3. \A p \in Cached : IsInjective(entries[p])
    <3>1. \A p \in Cached : DOMAIN entries[p] = 1 .. Len(entries[p])
      BY LenProperties DEF CacheInv
    <3> QED BY <3>1 DEF CacheInv, Weighed, IsInjective
  <2> QED BY <2>1, <2>2, <2>3 DEF CacheSound, CacheWeighs, CacheInv
<1> QED BY <1>1, <1>2, <1>3, PTL DEF Spec
=============================================================================
