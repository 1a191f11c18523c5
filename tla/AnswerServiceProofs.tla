------------------------ MODULE AnswerServiceProofs ------------------------
(***************************************************************************)
(* What AnswerService promises holds in every state, for every value of    *)
(* its constants.  The inductive invariant says of each request what the   *)
(* ledger has of it: while it is in flight its row runs within its lease,  *)
(* so that nobody else is admitted; once the model was asked, the row is   *)
(* there until its retention is over; and a result tells what the row has. *)
(***************************************************************************)
EXTENDS AnswerService, LedgerProofs

Here(q) == ~In(q, {"idle"})

\* The row of q is its own, and dates from shortly before the model was asked.
RowOwned(q) ==
    reqs[q].rid \in DOMAIN ledger =>
        LET row == ledger[reqs[q].rid]
        IN  /\ row.user = reqs[q].user /\ row.idem = reqs[q].idem
            /\ reqs[q].asked => /\ row.created <= reqs[q].since
                                /\ reqs[q].since <= row.created + StartDelay

\* The row of a request that asked the model goes only when it is too old.
RowLasts(q) ==
    reqs[q].asked =>
        /\ reqs[q].since <= clock
        /\ reqs[q].rid \in DOMAIN ledger
           \/ reqs[q].since + LedgerKeep < clock + StartDelay

\* A request in flight has the slot, and its lease covers its deadline.
SlotLeased(q) ==
    In(q, InFlight) =>
        /\ reqs[q].rid \in Running(ledger)
        /\ reqs[q].since <= clock
        /\ IF In(q, {"created", "sources"})
           THEN /\ ledger[reqs[q].rid].created = reqs[q].since
                /\ clock <= reqs[q].since + StartDelay
           ELSE clock <= reqs[q].since + Deadline

ResultReported(q) ==
    In(q, {"result"}) /\ reqs[q].rid \in DOMAIN ledger =>
        LET row == ledger[reqs[q].rid]
        IN  /\ row.status = reqs[q].status
            /\ row.charged = IF row.status = "ok" /\ reqs[q].total # Unknown
                             THEN reqs[q].total ELSE Estimate

\* A request has an identifier once it was admitted, and asks the model after that.
Numbered(q) ==
    /\ reqs[q].rid \in 0 .. issued
    /\ reqs[q].rid = 0 <=> In(q, {"answer", "rotate"})
    /\ In(q, {"answer", "rotate", "created", "sources"}) => ~reqs[q].asked
    /\ In(q, {"model", "failed", "result"}) => reqs[q].asked

Sound(q) ==
    Here(q) => Numbered(q) /\ RowOwned(q) /\ RowLasts(q) /\ SlotLeased(q) /\ ResultReported(q)

OwnIdentifiers ==
    \A p, q \in Requests :
        Here(p) /\ Here(q) /\ p # q /\ reqs[p].rid = reqs[q].rid => reqs[p].rid = 0

\* One running row, one row per idempotency key, and a running row is charged what was
\* reserved.
LedgerSound ==
    /\ SingleSlot(ledger)
    /\ UniqueKeys(ledger)
    /\ \A r \in Running(ledger) : ledger[r].charged = Estimate

\* GaugeCounts, and that only requests that are over are counted besides.
Flying == {q \in Requests : In(q, InFlight)}
Counted == {q \in Requests : In(q, InFlight \cup {"closed"})}

GaugeSound ==
    /\ gauge \in Nat
    /\ Cardinality(Flying) <= gauge
    /\ gauge <= Cardinality(Flying) + faults
    /\ gauge <= Cardinality(Counted)

ServiceInv ==
    /\ TypeOK
    /\ \A q \in Requests : Sound(q)
    /\ OwnIdentifiers
    /\ LedgerSound
    /\ InferenceOnce
    /\ GaugeSound

-----------------------------------------------------------------------------
(***************************************************************************)
(* A request that is there has the fields of one.                          *)
(***************************************************************************)
LEMMA HereTyped ==
    ASSUME TypeOK, NEW q \in Requests, Here(q)
    PROVE  reqs[q] \in Request
BY DEF TypeOK, Here, In, Idle

LEMMA Moved ==
    ASSUME TypeOK, NEW q \in Requests, NEW new \in Request \cup {Idle},
           reqs' = [reqs EXCEPT ![q] = new]
    PROVE  /\ reqs'[q] = new
           /\ \A p \in Requests \ {q} : reqs'[p] = reqs[p]
           /\ reqs' \in [Requests -> Request \cup {Idle}]
BY DEF TypeOK

\* What the process forgets of a request that is over.
LEMMA OverTyped ==
    ASSUME TypeOK, NEW q \in Requests, Here(q), NEW phase \in {"closed", "lost"}
    PROVE  /\ Over(q, phase) \in Request
           /\ Over(q, phase).phase = phase
           /\ Over(q, phase).rid = reqs[q].rid /\ Over(q, phase).asked = reqs[q].asked
           /\ Over(q, phase).user = reqs[q].user /\ Over(q, phase).idem = reqs[q].idem
           /\ reqs[q].asked => Over(q, phase).since = reqs[q].since
<1>1. reqs[q] \in Request
  BY HereTyped
<1>2. phase \in Phases /\ 0 \in Instant /\ "cancelled" \in Outcomes
  BY LedgerAssumption DEF Phases, Instant, Outcomes
<1> DEFINE since == IF reqs[q].asked THEN reqs[q].since ELSE 0
<1>3. since \in Instant
  BY <1>1, <1>2 DEF Request
<1>4. Over(q, phase) = [reqs[q] EXCEPT !.phase = phase, !.since = since, !.heard = {},
                                       !.total = Unknown, !.status = "cancelled"]
  BY DEF Over
<1>5. reqs[q].asked => since = reqs[q].since
  OBVIOUS
<1> HIDE DEF since
<1> QED
  BY <1>1, <1>2, <1>3, <1>4, <1>5 DEF Request

-----------------------------------------------------------------------------
(***************************************************************************)
(* What stays sound: a request that nothing happens to and whose row is    *)
(* not touched, and the relations between requests when none of them gets  *)
(* an identifier or asks the model.                                        *)
(***************************************************************************)
LEMMA SoundStays ==
    ASSUME TypeOK, NEW p \in Requests, Sound(p), reqs'[p] = reqs[p],
           clock' = clock, issued' = issued,
           reqs[p].rid \in DOMAIN ledger' <=> reqs[p].rid \in DOMAIN ledger,
           reqs[p].rid \in DOMAIN ledger => ledger'[reqs[p].rid] = ledger[reqs[p].rid]
    PROVE  Sound(p)'
BY DEF Sound, Here, In, Numbered, RowOwned, RowLasts, SlotLeased, ResultReported, Running

\* q keeps what relates it to other requests, or is as good as new.
SameIdentity(q) ==
    Here(q)' =>
        \/ reqs'[q].rid = 0 /\ ~reqs'[q].asked
        \/ /\ Here(q) /\ reqs'[q].rid = reqs[q].rid
           /\ reqs'[q].user = reqs[q].user /\ reqs'[q].idem = reqs[q].idem
           /\ reqs'[q].asked => reqs[q].asked /\ reqs'[q].since = reqs[q].since

LEMMA RelationsStay ==
    ASSUME OwnIdentifiers, InferenceOnce, \A q \in Requests : SameIdentity(q)
    PROVE  OwnIdentifiers' /\ InferenceOnce'
<1>1. OwnIdentifiers'
  BY DEF OwnIdentifiers, SameIdentity
<1>2. InferenceOnce'
  BY DEF InferenceOnce, SameIdentity, Here, In
<1> QED
  BY <1>1, <1>2

LEMMA OneMoves ==
    ASSUME ServiceInv, NEW q \in Requests, \A p \in Requests \ {q} : reqs'[p] = reqs[p],
           UNCHANGED <<clock, ledger, issued>>, Sound(q)', SameIdentity(q)
    PROVE  /\ (\A p \in Requests : Sound(p))'
           /\ OwnIdentifiers' /\ LedgerSound' /\ InferenceOnce'
<1>1. ASSUME NEW p \in Requests \ {q} PROVE Sound(p)' /\ SameIdentity(p)
  BY <1>1, SoundStays DEF ServiceInv, SameIdentity, Here, In
<1>2. LedgerSound'
  BY DEF ServiceInv, LedgerSound, SingleSlot, UniqueKeys, Running
<1> QED
  BY <1>1, <1>2, RelationsStay DEF ServiceInv

-----------------------------------------------------------------------------
(***************************************************************************)
(* The gauge.                                                              *)
(***************************************************************************)
LEMMA FlyingFinite ==
    /\ IsFiniteSet(Flying) /\ Cardinality(Flying) \in Nat
    /\ IsFiniteSet(Counted) /\ Cardinality(Counted) \in Nat
    /\ Cardinality(Counted) <= Cardinality(Requests) /\ Cardinality(Requests) \in Nat
<1>1. Flying \subseteq Requests /\ Counted \subseteq Requests
  BY DEF Flying, Counted
<1> QED
  BY <1>1, ServiceAssumption, FS_Subset, FS_CardinalityType

LEMMA FlyingFiniteNext ==
    /\ IsFiniteSet(Flying') /\ Cardinality(Flying') \in Nat
    /\ IsFiniteSet(Counted') /\ Cardinality(Counted') \in Nat
    /\ Cardinality(Counted') <= Cardinality(Requests)
<1>1. Flying' \subseteq Requests /\ Counted' \subseteq Requests
  BY DEF Flying, Counted
<1> QED
  BY <1>1, ServiceAssumption, FS_Subset, FS_CardinalityType

LEMMA GaugeStays ==
    ASSUME GaugeSound, faults \in Nat, UNCHANGED <<gauge, faults>>,
           Flying' = Flying, Counted \subseteq Counted'
    PROVE  GaugeSound'
<1>1. Cardinality(Counted) <= Cardinality(Counted')
  BY FlyingFiniteNext, FS_Subset
<1> QED
  BY <1>1, FlyingFinite, FlyingFiniteNext DEF GaugeSound

\* q was counted; it ends, and is not counted any more.
LEMMA GaugeFalls ==
    ASSUME GaugeSound, faults \in Nat, gauge' = gauge - 1, faults' = faults,
           NEW q \in Flying, Flying' = Flying \ {q}, Counted \ {q} \subseteq Counted'
    PROVE  GaugeSound'
<1>1. q \in Counted
  BY DEF Flying, Counted, In
<1>2. Cardinality(Flying') = Cardinality(Flying) - 1
  BY FlyingFinite, FS_RemoveElement
<1>3. Cardinality(Counted \ {q}) = Cardinality(Counted) - 1
  BY <1>1, FlyingFinite, FS_RemoveElement
<1>4. Cardinality(Counted \ {q}) <= Cardinality(Counted')
  BY FlyingFiniteNext, FS_Subset
<1> QED
  BY <1>2, <1>3, <1>4, FlyingFinite, FlyingFiniteNext DEF GaugeSound

\* It ends, but store.finish raised and it goes on being counted.
LEMMA GaugeSticks ==
    ASSUME GaugeSound, faults \in Nat, gauge' = gauge, faults' = faults + 1,
           NEW q \in Flying, Flying' = Flying \ {q}, Counted' = Counted
    PROVE  GaugeSound'
<1>1. Cardinality(Flying') = Cardinality(Flying) - 1
  BY FlyingFinite, FS_RemoveElement
<1> QED
  BY <1>1, FlyingFinite DEF GaugeSound

LEMMA GaugeRises ==
    ASSUME GaugeSound, faults \in Nat, gauge' = gauge + 1, faults' = faults,
           NEW q, q \notin Counted, Flying' = Flying \cup {q}, Counted' = Counted \cup {q}
    PROVE  GaugeSound'
<1>1. q \notin Flying
  BY DEF Flying, Counted, In
<1>2. /\ Cardinality(Flying') = Cardinality(Flying) + 1
      /\ Cardinality(Counted') = Cardinality(Counted) + 1
  BY <1>1, FlyingFinite, FS_AddElement
<1> QED
  BY <1>2, FlyingFinite DEF GaugeSound

-----------------------------------------------------------------------------
(***************************************************************************)
(* The type invariant of a step, and the steps that move one request and   *)
(* leave the ledger alone.                                                 *)
(***************************************************************************)
LEMMA TypeFollows ==
    ASSUME GaugeSound', clock' \in Instant, issued' \in Nat,
           ledger' \in [DOMAIN ledger' -> Row], DOMAIN ledger' \subseteq 1 .. issued',
           live' \subseteq Users, banned' \subseteq Users,
           reqs' \in [Requests -> Request \cup {Idle}],
           crashes' \in 0 .. MaxCrashes, faults' \in 0 .. MaxFaults
    PROVE  TypeOK'
<1>1. gauge' \in 0 .. Cardinality(Requests)
  BY FlyingFinite, FlyingFiniteNext DEF GaugeSound
<1> QED
  BY <1>1 DEF TypeOK

LEMMA RequestMoves ==
    ASSUME ServiceInv, NEW q \in Requests, NEW new \in Request \cup {Idle},
           reqs' = [reqs EXCEPT ![q] = new],
           UNCHANGED <<clock, ledger, issued>>,
           Sound(q)', SameIdentity(q), GaugeSound',
           live' \subseteq Users, banned' \subseteq Users,
           crashes' \in 0 .. MaxCrashes, faults' \in 0 .. MaxFaults
    PROVE  ServiceInv'
<1>1. /\ \A p \in Requests \ {q} : reqs'[p] = reqs[p]
      /\ reqs' \in [Requests -> Request \cup {Idle}]
  BY Moved DEF ServiceInv
<1>2. (\A p \in Requests : Sound(p))' /\ OwnIdentifiers' /\ LedgerSound' /\ InferenceOnce'
  BY <1>1, OneMoves
<1>3. TypeOK'
  BY <1>1, TypeFollows DEF ServiceInv, TypeOK
<1> QED
  BY <1>2, <1>3 DEF ServiceInv

\* Who is counted when q alone moves to a phase.
LEMMA Recount ==
    ASSUME NEW q \in Requests, \A p \in Requests \ {q} : reqs'[p] = reqs[p]
    PROVE  /\ Flying' = (Flying \ {q}) \cup IF In(q, InFlight)' THEN {q} ELSE {}
           /\ Counted' = (Counted \ {q})
                            \cup IF In(q, InFlight \cup {"closed"})' THEN {q} ELSE {}
BY DEF Flying, Counted, In

-----------------------------------------------------------------------------
(***************************************************************************)
(* The initial states, the clock and the identities.                       *)
(***************************************************************************)
LEMMA InitSound == Init => ServiceInv
<1> SUFFICES ASSUME Init PROVE ServiceInv
  OBVIOUS
<1> USE DEF Init
<1>1. \A q \in Requests : ~Here(q)
  BY DEF Here, In, Idle
<1>2. Flying = {} /\ Cardinality({}) = 0
  BY FS_EmptySet DEF Flying, In, Idle, InFlight
<1>3. TypeOK
  BY LedgerAssumption, ServiceAssumption, FlyingFinite DEF TypeOK, Instant
<1>4. LedgerSound
  BY DEF LedgerSound, SingleSlot, UniqueKeys, Running
<1>5. InferenceOnce
  BY DEF InferenceOnce, In, Idle
<1>6. GaugeSound
  BY <1>2, FlyingFinite DEF GaugeSound
<1> QED
  BY <1>1, <1>3, <1>4, <1>5, <1>6 DEF ServiceInv, Sound, OwnIdentifiers

LEMMA TickSound == ASSUME ServiceInv, Tick PROVE ServiceInv'
<1> USE DEF ServiceInv
<1>1. clock \in Nat /\ clock' = clock + 1 /\ clock' \in Instant
  BY LedgerAssumption DEF Tick, TypeOK, Instant
<1>2. ASSUME NEW q \in Requests PROVE Sound(q)'
  <2>1. CASE ~Here(q)
    BY <2>1 DEF Sound, Here, In, Tick
  <2>2. CASE Here(q)
    <3>1. reqs[q].since \in Nat /\ StartDelay \in Nat /\ Deadline \in Nat /\ LedgerKeep \in Nat
      BY <2>2, HereTyped, LedgerAssumption, ServiceAssumption DEF Request, Instant
    <3>2. Sound(q)
      OBVIOUS
    <3>3. RowLasts(q)'
      BY <1>1, <2>2, <3>1, <3>2 DEF Sound, RowLasts, Tick
    <3>4. SlotLeased(q)'
      BY <1>1, <2>2, <3>1, <3>2 DEF Sound, SlotLeased, Tick, In, InFlight, Running
    <3>5. Numbered(q)' /\ RowOwned(q)' /\ ResultReported(q)'
      BY <2>2, <3>2 DEF Sound, Numbered, RowOwned, ResultReported, Tick, In
    <3> QED
      BY <3>3, <3>4, <3>5 DEF Sound
  <2> QED
    BY <2>1, <2>2
<1>3. OwnIdentifiers' /\ InferenceOnce'
  BY DEF Tick, OwnIdentifiers, InferenceOnce, Here, In
<1>4. LedgerSound'
  BY DEF Tick, LedgerSound, SingleSlot, UniqueKeys, Running
<1>5. GaugeSound'
  BY DEF Tick, GaugeSound, Flying, Counted, In
<1>6. TypeOK'
  BY <1>1, <1>5, TypeFollows DEF Tick, TypeOK
<1> QED
  BY <1>2, <1>3, <1>4, <1>5, <1>6

LEMMA AuthenticateSound ==
    ASSUME ServiceInv, NEW q \in Requests, NEW h \in {"answer", "rotate"},
           NEW u \in Users, NEW i \in Idems, Authenticate(q, h, u, i)
    PROVE  ServiceInv'
<1> DEFINE new == [phase |-> h, user |-> u, idem |-> i, late |-> u \in banned,
                   rid |-> 0, since |-> 0, heard |-> {}, total |-> Unknown,
                   asked |-> FALSE, status |-> "cancelled"]
<1>1. new \in Request
  BY LedgerAssumption DEF Request, Phases, Instant, Outcomes
<1>2. reqs' = [reqs EXCEPT ![q] = new] /\ reqs'[q] = new
  BY Moved, <1>1 DEF Authenticate, ServiceInv
<1>3. new.phase = h /\ new.rid = 0 /\ ~new.asked
  OBVIOUS
<1> HIDE DEF new
<1>4. 0 \notin DOMAIN ledger /\ issued \in Nat
  BY DEF ServiceInv, TypeOK
<1>5. Sound(q)'
  BY <1>2, <1>3, <1>4 DEF Sound, Numbered, RowOwned, RowLasts, SlotLeased, ResultReported,
                          In, InFlight, Authenticate
<1>6. SameIdentity(q)
  BY <1>2, <1>3 DEF SameIdentity
<1>7. Flying' = Flying /\ Counted \subseteq Counted'
  BY <1>1, <1>2, <1>3, Moved, Recount
     DEF ServiceInv, Flying, Counted, In, InFlight, Authenticate
<1>8. GaugeSound'
  BY <1>7, GaugeStays DEF ServiceInv, TypeOK, Authenticate
<1> QED
  BY <1>1, <1>2, <1>5, <1>6, <1>8, RequestMoves DEF ServiceInv, TypeOK, Authenticate

\* A request becomes idle: its rotation is done, or it was refused.
LEMMA EndsSound ==
    ASSUME ServiceInv, NEW q \in Requests, In(q, {"answer", "rotate"}),
           reqs' = [reqs EXCEPT ![q] = Idle], live' \subseteq Users,
           UNCHANGED <<clock, ledger, issued, banned, gauge, crashes, faults>>
    PROVE  ServiceInv'
<1>1. reqs'[q] = Idle /\ \A p \in Requests \ {q} : reqs'[p] = reqs[p]
  BY Moved DEF ServiceInv
<1>2. Sound(q)' /\ SameIdentity(q)
  BY <1>1 DEF Sound, SameIdentity, Here, In, Idle
<1>3. Flying' = Flying /\ Counted \subseteq Counted'
  BY <1>1, Recount DEF Flying, Counted, In, InFlight, Idle
<1>4. GaugeSound'
  BY <1>3, GaugeStays DEF ServiceInv, TypeOK
<1> QED
  BY <1>2, <1>4, RequestMoves DEF ServiceInv, TypeOK

LEMMA RotateSound ==
    ASSUME ServiceInv, NEW q \in Requests, Rotate(q)
    PROVE  ServiceInv'
<1>1. reqs[q].user \in Users
  BY HereTyped DEF Rotate, ServiceInv, Here, In, Request
<1> QED
  BY <1>1, EndsSound DEF Rotate, In, ServiceInv, TypeOK

LEMMA RefuseSound ==
    ASSUME ServiceInv, NEW q \in Requests, Refuse(q)
    PROVE  ServiceInv'
BY EndsSound DEF Refuse, In, ServiceInv, TypeOK

LEMMA RevokeSound ==
    ASSUME ServiceInv, NEW u \in Users, Revoke(u)
    PROVE  ServiceInv'
<1>1. \A q \in Requests : Sound(q)'
  BY DEF Revoke, ServiceInv, Sound, Here, In, Numbered, RowOwned, RowLasts, SlotLeased,
         ResultReported, Running
<1>2. OwnIdentifiers' /\ LedgerSound' /\ InferenceOnce' /\ GaugeSound'
  BY DEF Revoke, ServiceInv, OwnIdentifiers, Here, In, LedgerSound, SingleSlot, UniqueKeys,
         Running, InferenceOnce, GaugeSound, Flying, Counted
<1>3. TypeOK'
  BY DEF Revoke, ServiceInv, TypeOK
<1> QED
  BY <1>1, <1>2, <1>3 DEF ServiceInv

-----------------------------------------------------------------------------
(***************************************************************************)
(* The response stream, as long as it leaves the ledger alone.             *)
(***************************************************************************)
LEMMA StartSound ==
    ASSUME ServiceInv, NEW q \in Requests, Start(q)
    PROVE  ServiceInv'
<1> DEFINE new == [reqs[q] EXCEPT !.phase = "sources"]
<1>1. Here(q) /\ reqs[q] \in Request /\ reqs[q].phase = "created"
  BY HereTyped DEF Start, ServiceInv, Here, In
<1>2. new \in Request /\ reqs' = [reqs EXCEPT ![q] = new] /\ reqs'[q] = new
  BY <1>1 DEF Start, ServiceInv, TypeOK, Request, Phases, InFlight
<1>3. /\ new.phase = "sources" /\ new.rid = reqs[q].rid /\ new.asked = reqs[q].asked
      /\ new.user = reqs[q].user /\ new.idem = reqs[q].idem /\ new.since = reqs[q].since
  BY <1>1 DEF Request
<1> HIDE DEF new
<1>4. Sound(q)'
  BY <1>1, <1>2, <1>3 DEF ServiceInv, Sound, Numbered, RowOwned, RowLasts, SlotLeased,
                          ResultReported, Here, In, InFlight, Running, Start
<1>5. SameIdentity(q)
  BY <1>1, <1>2, <1>3 DEF SameIdentity
<1>6. Flying' = Flying /\ Counted \subseteq Counted'
  BY <1>1, <1>2, <1>3, Moved, Recount DEF ServiceInv, Flying, Counted, In, InFlight
<1>7. GaugeSound'
  BY <1>6, GaugeStays DEF ServiceInv, TypeOK, Start
<1> QED
  BY <1>2, <1>4, <1>5, <1>7, RequestMoves DEF ServiceInv, TypeOK, Start

LEMMA HearSound ==
    ASSUME ServiceInv, NEW q \in Requests, NEW news \in SUBSET {"text", "finish"},
           NEW n \in Totals \cup {Unknown}, Hear(q, news, n)
    PROVE  ServiceInv'
<1> DEFINE new == [reqs[q] EXCEPT !.heard = @ \cup news, !.total = n]
<1>1. Here(q) /\ reqs[q] \in Request /\ reqs[q].phase = "model"
  BY HereTyped DEF Hear, ServiceInv, Here, In
<1>2. new \in Request /\ reqs' = [reqs EXCEPT ![q] = new] /\ reqs'[q] = new
  BY <1>1 DEF Hear, ServiceInv, TypeOK, Request
<1>3. /\ new.phase = "model" /\ new.rid = reqs[q].rid /\ new.asked = reqs[q].asked
      /\ new.user = reqs[q].user /\ new.idem = reqs[q].idem /\ new.since = reqs[q].since
  BY <1>1 DEF Request
<1> HIDE DEF new
<1>4. Sound(q)'
  BY <1>1, <1>2, <1>3 DEF ServiceInv, Sound, Numbered, RowOwned, RowLasts, SlotLeased,
                          ResultReported, Here, In, InFlight, Running, Hear
<1>5. SameIdentity(q)
  BY <1>1, <1>2, <1>3 DEF SameIdentity
<1>6. Flying' = Flying /\ Counted \subseteq Counted'
  BY <1>1, <1>2, <1>3, Moved, Recount DEF ServiceInv, Flying, Counted, In, InFlight
<1>7. GaugeSound'
  BY <1>6, GaugeStays DEF ServiceInv, TypeOK, Hear
<1> QED
  BY <1>2, <1>4, <1>5, <1>7, RequestMoves DEF ServiceInv, TypeOK, Hear

\* The model's stream ends in an error or a timeout.
LEMMA FailedSound ==
    ASSUME ServiceInv, NEW q \in Requests, In(q, {"model"}),
           NEW status \in {"error", "timeout"}, Failed(q, status)
    PROVE  ServiceInv'
<1> DEFINE new == [reqs[q] EXCEPT !.phase = "failed", !.status = status]
<1>1. Here(q) /\ reqs[q] \in Request /\ reqs[q].phase = "model"
  BY HereTyped DEF ServiceInv, Here, In
<1>2. new \in Request /\ reqs' = [reqs EXCEPT ![q] = new] /\ reqs'[q] = new
  BY <1>1 DEF Failed, ServiceInv, TypeOK, Request, Phases, InFlight, Outcomes
<1>3. /\ new.phase = "failed" /\ new.rid = reqs[q].rid /\ new.asked = reqs[q].asked
      /\ new.user = reqs[q].user /\ new.idem = reqs[q].idem /\ new.since = reqs[q].since
  BY <1>1 DEF Request
<1> HIDE DEF new
<1>4. Sound(q)'
  BY <1>1, <1>2, <1>3 DEF ServiceInv, Sound, Numbered, RowOwned, RowLasts, SlotLeased,
                          ResultReported, Here, In, InFlight, Running, Failed
<1>5. SameIdentity(q)
  BY <1>1, <1>2, <1>3 DEF SameIdentity
<1>6. Flying' = Flying /\ Counted \subseteq Counted'
  BY <1>1, <1>2, <1>3, Moved, Recount DEF ServiceInv, Flying, Counted, In, InFlight
<1>7. GaugeSound'
  BY <1>6, GaugeStays DEF ServiceInv, TypeOK, Failed
<1> QED
  BY <1>2, <1>4, <1>5, <1>7, RequestMoves DEF ServiceInv, TypeOK, Failed

\* The model is asked once per identifier and key: whoever asked it before with the same
\* key has its row still, or asked it so long ago that the row is too old.
LEMMA CallModelSound ==
    ASSUME ServiceInv, NEW q \in Requests, CallModel(q)
    PROVE  ServiceInv'
<1> DEFINE new == [reqs[q] EXCEPT !.phase = "model", !.asked = TRUE, !.since = clock]
<1>1. Here(q) /\ reqs[q] \in Request /\ reqs[q].phase = "sources"
  BY HereTyped DEF CallModel, ServiceInv, Here, In
<1>2. new \in Request /\ reqs' = [reqs EXCEPT ![q] = new] /\ reqs'[q] = new
  BY <1>1 DEF CallModel, ServiceInv, TypeOK, Request, Phases, InFlight
<1>3. /\ new.phase = "model" /\ new.rid = reqs[q].rid /\ new.asked
      /\ new.user = reqs[q].user /\ new.idem = reqs[q].idem /\ new.since = clock
  BY <1>1 DEF Request
<1> HIDE DEF new
<1>4. /\ \A p \in Requests \ {q} : reqs'[p] = reqs[p]
      /\ reqs' \in [Requests -> Request \cup {Idle}]
  BY <1>2, Moved DEF ServiceInv
<1>5. clock \in Nat /\ Deadline \in Nat /\ StartDelay \in Nat /\ LedgerKeep \in Nat
  BY LedgerAssumption, ServiceAssumption DEF ServiceInv, TypeOK, Instant
<1>6. /\ reqs[q].rid \in DOMAIN ledger /\ Sound(q) /\ reqs[q].rid # 0
      /\ ledger[reqs[q].rid].user = reqs[q].user /\ ledger[reqs[q].rid].idem = reqs[q].idem
  BY <1>1 DEF ServiceInv, Sound, SlotLeased, Numbered, RowOwned, In, InFlight, Running
<1>7. Sound(q)'
  BY <1>1, <1>2, <1>3, <1>5, <1>6 DEF Sound, Numbered, RowOwned, RowLasts, SlotLeased,
                          ResultReported, Here, In, InFlight, Running, CallModel
<1>8. \A p \in Requests : Sound(p)'
  BY <1>4, <1>7, SoundStays DEF ServiceInv, CallModel
<1>9. OwnIdentifiers'
  BY <1>1, <1>2, <1>3, <1>4 DEF ServiceInv, OwnIdentifiers, Here, In
<1>10. ASSUME NEW p \in Requests \ {q}, Here(p), reqs[p].asked,
              reqs[p].user = reqs[q].user, reqs[p].idem = reqs[q].idem
       PROVE  reqs[p].since + LedgerKeep < clock + StartDelay /\ reqs[p].since <= clock
  <2>1. Sound(p)
    BY DEF ServiceInv
  <2>2. reqs[p].rid # reqs[q].rid
    BY <1>1, <1>6, <1>10 DEF ServiceInv, OwnIdentifiers
  <2>3. reqs[p].rid \notin DOMAIN ledger
    BY <1>6, <1>10, <2>1, <2>2 DEF Sound, RowOwned, ServiceInv, LedgerSound, UniqueKeys
  <2> QED
    BY <1>10, <2>1, <2>3 DEF Sound, RowLasts
<1>11. InferenceOnce'
  <2> SUFFICES ASSUME NEW p \in Requests, NEW r \in Requests, Here(p)', Here(r)', p # r,
                      reqs'[p].asked, reqs'[r].asked, reqs'[p].user = reqs'[r].user,
                      reqs'[p].idem = reqs'[r].idem, reqs'[p].since <= reqs'[r].since
               PROVE  reqs'[p].since + LedgerKeep < reqs'[r].since + StartDelay
    BY DEF InferenceOnce, Here
  <2>1. CASE p # q /\ r # q
    BY <1>4, <2>1 DEF ServiceInv, InferenceOnce, Here, In
  <2>2. CASE r = q
    BY <1>2, <1>3, <1>4, <1>10, <2>2 DEF Here, In
  <2>3. CASE p = q
    <3>1. Here(r) /\ reqs[r].asked /\ reqs'[r] = reqs[r]
      BY <1>4, <2>3 DEF Here, In
    <3>2. reqs[r].since \in Nat
      BY <3>1, HereTyped, LedgerAssumption DEF ServiceInv, Request, Instant
    <3>3. reqs[r].since = clock
      BY <1>2, <1>3, <1>5, <1>10, <2>3, <3>1, <3>2
    <3> QED
      BY <1>2, <1>3, <1>10, <2>3, <3>1, <3>3
  <2> QED
    BY <2>1, <2>2, <2>3
<1>12. LedgerSound'
  BY DEF CallModel, ServiceInv, LedgerSound, SingleSlot, UniqueKeys, Running
<1>13. Flying' = Flying /\ Counted \subseteq Counted'
  BY <1>1, <1>2, <1>3, <1>4, Recount DEF Flying, Counted, In, InFlight
<1>14. GaugeSound'
  BY <1>13, GaugeStays DEF ServiceInv, TypeOK, CallModel
<1>15. TypeOK'
  BY <1>4, <1>14, TypeFollows DEF ServiceInv, TypeOK, CallModel
<1> QED
  BY <1>8, <1>9, <1>11, <1>12, <1>14, <1>15 DEF ServiceInv

\* A response that is over leaves its row as it is: its result was sent, or the call
\* of store.finish raised.
LEMMA OverSound ==
    ASSUME ServiceInv, NEW q \in Requests, In(q, {"result"} \cup InFlight),
           reqs' = [reqs EXCEPT ![q] = Over(q, "closed")],
           UNCHANGED <<clock, ledger, issued, live, banned, crashes>>,
           faults' \in 0 .. MaxFaults, GaugeSound'
    PROVE  ServiceInv'
<1>1. Here(q) /\ reqs[q].phase \in {"result"} \cup InFlight
  BY DEF Here, In, InFlight
<1> DEFINE new == Over(q, "closed")
<1>2. /\ new \in Request /\ new.phase = "closed"
      /\ new.rid = reqs[q].rid /\ new.asked = reqs[q].asked
      /\ new.user = reqs[q].user /\ new.idem = reqs[q].idem
      /\ reqs[q].asked => new.since = reqs[q].since
  BY <1>1, OverTyped DEF ServiceInv
<1> HIDE DEF new
<1>3. reqs' = [reqs EXCEPT ![q] = new] /\ reqs'[q] = new
  BY <1>2, Moved DEF ServiceInv, new
<1>4. Sound(q)'
  BY <1>1, <1>2, <1>3 DEF ServiceInv, Sound, Numbered, RowOwned, RowLasts, SlotLeased,
                          ResultReported, Here, In, InFlight
<1>5. SameIdentity(q)
  BY <1>1, <1>2, <1>3 DEF SameIdentity
<1> QED
  BY <1>2, <1>3, <1>4, <1>5, RequestMoves DEF ServiceInv, TypeOK

LEMMA ResultSentSound ==
    ASSUME ServiceInv, NEW q \in Requests, ResultSent(q)
    PROVE  ServiceInv'
<1>1. In(q, {"result"}) /\ reqs' = [reqs EXCEPT ![q] = Over(q, "closed")]
  BY DEF ResultSent
<1>2. /\ \A p \in Requests \ {q} : reqs'[p] = reqs[p]
      /\ In(q, {"closed"})'
  BY <1>1, OverTyped, Moved DEF ServiceInv, Here, In
<1>3. Flying' = Flying /\ Counted \subseteq Counted'
  BY <1>1, <1>2, Recount DEF Flying, Counted, In, InFlight
<1>4. GaugeSound'
  BY <1>3, GaugeStays DEF ServiceInv, TypeOK, ResultSent
<1> QED
  BY <1>1, <1>4, OverSound DEF ResultSent, In, ServiceInv, TypeOK

-----------------------------------------------------------------------------
(***************************************************************************)
(* finish.                                                                 *)
(***************************************************************************)
\* The row of a request that is settled runs and holds what was reserved, and no other
\* request has it.
LEMMA SettlesOwnRow ==
    ASSUME ServiceInv, NEW q \in Requests, In(q, InFlight)
    PROVE  /\ reqs[q].rid \in Running(ledger) /\ reqs[q].rid \in DOMAIN ledger
           /\ ledger[reqs[q].rid].charged = Estimate
           /\ \A p \in Requests \ {q} : Here(p) => reqs[p].rid # reqs[q].rid
<1>1. Here(q) /\ ~In(q, {"answer", "rotate"})
  BY DEF Here, In, InFlight
<1>2. reqs[q].rid # 0 /\ reqs[q].rid \in Running(ledger)
  BY <1>1 DEF ServiceInv, Sound, Numbered, SlotLeased
<1> QED
  BY <1>1, <1>2 DEF ServiceInv, LedgerSound, OwnIdentifiers, Running

\* The request after a finish that succeeds.
Finished(q, status, phase) ==
    IF phase = "closed" THEN Over(q, phase)
    ELSE [reqs[q] EXCEPT !.phase = phase, !.status = status]

LEMMA FinishedTyped ==
    ASSUME ServiceInv, NEW q \in Requests, In(q, InFlight),
           NEW status \in Outcomes, NEW phase \in {"result", "closed"}
    PROVE  LET new == Finished(q, status, phase)
           IN  /\ new \in Request /\ new.phase = phase
               /\ new.rid = reqs[q].rid /\ new.asked = reqs[q].asked
               /\ new.user = reqs[q].user /\ new.idem = reqs[q].idem
               /\ reqs[q].asked => new.since = reqs[q].since
               /\ phase = "result" => new.status = status /\ new.total = reqs[q].total
<1>1. Here(q) /\ reqs[q] \in Request
  BY HereTyped DEF ServiceInv, Here, In, InFlight
<1>2. CASE phase = "closed"
  BY <1>1, <1>2, OverTyped DEF Finished, ServiceInv
<1>3. CASE phase = "result"
  BY <1>1, <1>3 DEF Finished, Request, Phases
<1> QED
  BY <1>2, <1>3

LEMMA FinishSettles ==
    ASSUME ServiceInv, NEW q \in Requests, In(q, InFlight),
           NEW status \in Outcomes, NEW phase \in {"result", "closed"},
           phase = "result" => reqs[q].asked,
           ledger' = Settled(q, status), gauge' = gauge - 1,
           reqs' = [reqs EXCEPT ![q] = Finished(q, status, phase)],
           UNCHANGED <<clock, issued, live, banned, crashes, faults>>
    PROVE  ServiceInv'
<1> DEFINE new == Finished(q, status, phase)
           rid == reqs[q].rid
<1>1. Here(q) /\ reqs[q] \in Request /\ Sound(q) /\ reqs[q].phase \in InFlight
  BY HereTyped DEF ServiceInv, Here, In, InFlight
<1>2. /\ new \in Request /\ new.phase = phase
      /\ new.rid = rid /\ new.asked = reqs[q].asked
      /\ new.user = reqs[q].user /\ new.idem = reqs[q].idem
      /\ reqs[q].asked => new.since = reqs[q].since
      /\ phase = "result" => new.status = status /\ new.total = reqs[q].total
  BY FinishedTyped
<1> HIDE DEF new
<1>3. /\ reqs'[q] = new /\ \A p \in Requests \ {q} : reqs'[p] = reqs[p]
      /\ reqs' \in [Requests -> Request \cup {Idle}]
  BY <1>2, Moved DEF ServiceInv, new
<1>4. /\ rid \in Running(ledger) /\ rid \in DOMAIN ledger
      /\ ledger[rid].charged = Estimate
      /\ \A p \in Requests \ {q} : Here(p) => reqs[p].rid # rid
  BY SettlesOwnRow
<1>5. ledger \in [DOMAIN ledger -> Row] /\ reqs[q].total \in Nat \cup {Unknown}
  BY <1>1, ServiceAssumption DEF ServiceInv, TypeOK, Request
<1>6. ledger' = Settle(ledger, rid, status, reqs[q].total)
  BY <1>4 DEF Settled
<1>7. /\ Settles(ledger', ledger, rid) /\ ledger'[rid].status = status
      /\ ledger'[rid].charged = IF status = "ok" /\ reqs[q].total # Unknown
                                THEN reqs[q].total ELSE Estimate
  BY <1>4, <1>5, <1>6, SettleSettles
<1>8. DOMAIN ledger' = DOMAIN ledger /\ ledger' \in [DOMAIN ledger' -> Row]
  BY <1>4, <1>5, <1>6, SettleTyped
<1> HIDE DEF rid
<1>9. Sound(q)'
  <2>1. Numbered(q)'
    BY <1>1, <1>2, <1>3 DEF Sound, Numbered, In, InFlight, rid
  <2>2. RowOwned(q)'
    BY <1>1, <1>2, <1>3, <1>4, <1>7 DEF Sound, RowOwned, Settles, rid
  <2>3. RowLasts(q)'
    BY <1>1, <1>2, <1>3, <1>4, <1>8 DEF Sound, RowLasts, rid
  <2>4. SlotLeased(q)' /\ ResultReported(q)'
    BY <1>2, <1>3, <1>7 DEF SlotLeased, ResultReported, In, InFlight
  <2> QED
    BY <2>1, <2>2, <2>3, <2>4 DEF Sound
<1>10. ASSUME NEW p \in Requests PROVE Sound(p)'
  <2>1. CASE p = q
    BY <1>9, <2>1
  <2>2. CASE p # q /\ ~Here(p)
    BY <1>3, <2>2 DEF Sound, Here, In
  <2>3. CASE p # q /\ Here(p)
    <3>1. Sound(p) /\ reqs'[p] = reqs[p]
      BY <1>3, <2>3 DEF ServiceInv
    <3>2. reqs[p].rid \in DOMAIN ledger => ledger'[reqs[p].rid] = ledger[reqs[p].rid]
      BY <1>4, <1>7, <2>3 DEF Settles
    <3> QED
      BY <1>8, <3>1, <3>2, SoundStays DEF ServiceInv
  <2> QED
    BY <2>1, <2>2, <2>3
<1>11. \A p \in Requests : SameIdentity(p)
  BY <1>1, <1>2, <1>3 DEF SameIdentity, Here, In, rid
<1>12. OwnIdentifiers' /\ InferenceOnce'
  BY <1>11, RelationsStay DEF ServiceInv
<1>13. LedgerSound'
  <2>1. Running(ledger') = {}
    BY <1>7 DEF ServiceInv, LedgerSound, SingleSlot, Settles, Running
  <2>2. UniqueKeys(ledger')
    BY <1>7 DEF ServiceInv, LedgerSound, UniqueKeys, Settles
  <2> QED
    BY <2>1, <2>2 DEF LedgerSound, SingleSlot
<1>14. q \in Flying /\ Flying' = Flying \ {q} /\ Counted \ {q} \subseteq Counted'
  BY <1>1, <1>2, <1>3, Recount DEF Flying, In, InFlight
<1>15. GaugeSound'
  BY <1>14, GaugeFalls DEF ServiceInv, TypeOK
<1>16. TypeOK'
  BY <1>3, <1>8, <1>15, TypeFollows DEF ServiceInv, TypeOK
<1> QED
  BY <1>10, <1>12, <1>13, <1>15, <1>16 DEF ServiceInv

LEMMA FinishSound ==
    ASSUME ServiceInv, NEW q \in Requests, In(q, InFlight),
           NEW status \in Outcomes, NEW phase \in {"result", "closed"},
           phase = "result" => reqs[q].asked,
           Finish(q, status, phase)
    PROVE  ServiceInv'
<1>1. CASE /\ ledger' = Settled(q, status) /\ gauge' = gauge - 1
           /\ reqs' = [reqs EXCEPT ![q] = Finished(q, status, phase)]
           /\ UNCHANGED faults
  BY <1>1, FinishSettles DEF Finish
<1>2. CASE /\ faults < MaxFaults /\ faults' = faults + 1
           /\ reqs' = [reqs EXCEPT ![q] = Over(q, "closed")]
           /\ UNCHANGED <<ledger, gauge>>
  <2>1. /\ \A p \in Requests \ {q} : reqs'[p] = reqs[p]
        /\ In(q, {"closed"})'
    BY <1>2, OverTyped, Moved DEF ServiceInv, Here, In, InFlight
  <2>2. q \in Flying /\ Flying' = Flying \ {q} /\ Counted' = Counted
    BY <2>1, Recount DEF Flying, Counted, In, InFlight
  <2>3. GaugeSound'
    BY <1>2, <2>2, GaugeSticks DEF ServiceInv, TypeOK
  <2>4. faults' \in 0 .. MaxFaults
    BY <1>2, ServiceAssumption DEF ServiceInv, TypeOK
  <2> QED
    BY <1>2, <2>3, <2>4, OverSound DEF Finish, In
<1> QED
  BY <1>1, <1>2 DEF Finish, Finished

LEMMA ModelSound ==
    ASSUME ServiceInv, NEW q \in Requests, Model(q)
    PROVE  ServiceInv'
<1>1. ASSUME NEW news \in SUBSET {"text", "finish"}, Hear(q, news, reqs[q].total)
      PROVE  ServiceInv'
  <2>1. reqs[q].total \in Totals \cup {Unknown}
    BY <1>1, HereTyped DEF Hear, Here, In, ServiceInv, Request
  <2> QED
    BY <1>1, <2>1, HearSound
<1>2. ASSUME NEW n \in Totals \cup {Unknown}, Hear(q, {}, n)
      PROVE  ServiceInv'
  BY <1>2, HearSound
<1>3. CASE EndOfStream(q)
  <2>1. In(q, {"model"}) /\ In(q, InFlight) /\ reqs[q].asked
    BY <1>3 DEF EndOfStream, ServiceInv, Sound, Numbered, Here, In, InFlight
  <2>2. CASE Finish(q, "ok", "result")
    BY <2>1, <2>2, FinishSound DEF Outcomes
  <2>3. CASE Failed(q, "error")
    BY <2>1, <2>3, FailedSound
  <2> QED
    BY <1>3, <2>2, <2>3 DEF EndOfStream
<1>4. CASE ModelFails(q)
  BY <1>4, FailedSound DEF ModelFails
<1> QED
  BY <1>1, <1>2, <1>3, <1>4 DEF Model

LEMMA ErrorSentSound ==
    ASSUME ServiceInv, NEW q \in Requests, In(q, {"failed"}),
           NEW phase \in {"result", "closed"}, Finish(q, reqs[q].status, phase)
    PROVE  ServiceInv'
<1>1. In(q, InFlight) /\ Here(q)
  BY DEF In, InFlight, Here
<1>2. reqs[q].asked /\ reqs[q].status \in Outcomes
  BY <1>1, HereTyped DEF ServiceInv, Sound, Numbered, In, Request
<1> QED
  BY <1>1, <1>2, FinishSound

LEMMA ProgressSound ==
    ASSUME ServiceInv, NEW q \in Requests, Progress(q)
    PROVE  ServiceInv'
<1>1. CASE Timeout(q)
  BY <1>1, FailedSound DEF Timeout
<1>2. CASE ErrorSent(q)
  BY <1>2, ErrorSentSound DEF ErrorSent
<1> QED
  BY <1>1, <1>2, StartSound, CallModelSound, ResultSentSound DEF Progress

LEMMA DisconnectSound ==
    ASSUME ServiceInv, NEW q \in Requests, Disconnect(q)
    PROVE  ServiceInv'
<1>1. CASE In(q, {"created", "sources", "model"}) /\ Finish(q, "cancelled", "closed")
  <2>1. In(q, InFlight) /\ "cancelled" \in Outcomes
    BY <1>1 DEF In, InFlight, Outcomes
  <2> QED
    BY <1>1, <2>1, FinishSound
<1>2. CASE In(q, {"failed"}) /\ Finish(q, reqs[q].status, "closed")
  BY <1>2, ErrorSentSound
<1> QED
  BY <1>1, <1>2, ResultSentSound DEF Disconnect

-----------------------------------------------------------------------------
(***************************************************************************)
(* A crash forgets the requests and leaves the ledger.                     *)
(***************************************************************************)
LEMMA CrashSound ==
    ASSUME ServiceInv, Crash
    PROVE  ServiceInv'
<1>1. ASSUME NEW q \in Requests
      PROVE  /\ reqs'[q] \in Request \cup {Idle}
             /\ ~In(q, InFlight)'
             /\ SameIdentity(q) /\ Sound(q)'
  <2>1. CASE In(q, {"idle"})
    <3>1. reqs'[q] = reqs[q]
      BY <2>1 DEF Crash, In, InFlight
    <3> QED
      BY <2>1, <3>1 DEF ServiceInv, TypeOK, SameIdentity, Sound, Here, In, InFlight
  <2>2. CASE In(q, {"answer", "rotate"})
    <3>1. reqs'[q] = Idle
      BY <2>2 DEF Crash
    <3> QED
      BY <3>1 DEF SameIdentity, Sound, Here, In, InFlight, Idle
  <2>3. CASE In(q, {"result"} \cup InFlight)
    <3>1. Here(q) /\ Sound(q) /\ ~In(q, {"answer", "rotate"})
      BY <2>3 DEF Here, In, InFlight, ServiceInv
    <3> DEFINE new == Over(q, "lost")
    <3>2. reqs'[q] = new
      BY <2>3 DEF Crash, In, InFlight
    <3>3. /\ new \in Request /\ new.phase = "lost"
          /\ new.rid = reqs[q].rid /\ new.asked = reqs[q].asked
          /\ new.user = reqs[q].user /\ new.idem = reqs[q].idem
          /\ reqs[q].asked => new.since = reqs[q].since
      BY <3>1, OverTyped DEF ServiceInv
    <3> HIDE DEF new
    <3>4. Sound(q)'
      BY <3>1, <3>2, <3>3 DEF Sound, Numbered, RowOwned, RowLasts, SlotLeased,
                              ResultReported, Here, In, InFlight, Crash
    <3>5. SameIdentity(q)
      BY <3>1, <3>2, <3>3 DEF SameIdentity
    <3> QED
      BY <3>2, <3>3, <3>4, <3>5 DEF In, InFlight
  <2>4. CASE In(q, {"closed", "lost"})
    <3>1. reqs'[q] = reqs[q]
      BY <2>4 DEF Crash, In, InFlight
    <3>2. SameIdentity(q) /\ ~In(q, InFlight)'
      BY <2>4, <3>1 DEF SameIdentity, Here, In, InFlight
    <3>3. Sound(q)'
      BY <3>1, SoundStays DEF ServiceInv, Crash
    <3> QED
      BY <3>1, <3>2, <3>3 DEF ServiceInv, TypeOK
  <2> QED
    <3>1. Here(q) => reqs[q].phase \in Phases
      BY HereTyped DEF ServiceInv, Request
    <3> QED
      BY <2>1, <2>2, <2>3, <2>4, <3>1 DEF Here, In, Phases, InFlight
<1>2. reqs' \in [Requests -> Request \cup {Idle}]
  <2>1. reqs' = [q \in Requests |-> reqs'[q]]
    BY DEF Crash
  <2> QED
    BY <1>1, <2>1
<1>3. OwnIdentifiers' /\ InferenceOnce'
  BY <1>1, RelationsStay DEF ServiceInv
<1>4. LedgerSound'
  BY DEF Crash, ServiceInv, LedgerSound, SingleSlot, UniqueKeys, Running
<1>5. Flying' = {}
  BY <1>1 DEF Flying
<1>6. GaugeSound'
  BY <1>5, FlyingFiniteNext, FS_EmptySet DEF Crash, ServiceInv, TypeOK, GaugeSound
<1>7. crashes' \in 0 .. MaxCrashes
  BY ServiceAssumption DEF Crash, ServiceInv, TypeOK
<1>8. TypeOK'
  BY <1>2, <1>6, <1>7, TypeFollows DEF Crash, ServiceInv, TypeOK
<1> QED
  BY <1>1, <1>3, <1>4, <1>6, <1>8 DEF ServiceInv

-----------------------------------------------------------------------------
(***************************************************************************)
(* Admission.  The row of whoever is in flight has not lapsed, because the *)
(* lease is twice the deadline: nobody else is admitted.                   *)
(***************************************************************************)
\* What the cleanup does to the row of a request in flight: nothing.
LEMMA LeaseHolds ==
    ASSUME ServiceInv, NEW p \in Requests, In(p, InFlight)
    PROVE  reqs[p].rid \in Running(Swept(ledger, clock))
<1> DEFINE rid == reqs[p].rid
           row == ledger[rid]
<1>1. Here(p) /\ reqs[p] \in Request /\ Sound(p) /\ reqs[p].phase \in InFlight
  BY HereTyped DEF ServiceInv, Here, In, InFlight
<1>2. rid \in DOMAIN ledger /\ row.status = "running" /\ row \in Row
  BY <1>1 DEF Sound, SlotLeased, Running, ServiceInv, TypeOK
<1>3. row.created \in Nat /\ reqs[p].since \in Nat /\ clock \in Nat
  BY <1>1, <1>2, LedgerAssumption DEF Row, Request, Instant, ServiceInv, TypeOK
<1>4. StartDelay \in Nat /\ Deadline \in Nat /\ LedgerKeep \in Nat /\ StartDelay <= Deadline
      /\ 2 * Deadline <= LedgerKeep
  BY LedgerAssumption, ServiceAssumption
<1>5. clock <= row.created + 2 * Deadline
  <2>1. CASE In(p, {"created", "sources"})
    <3>1. row.created = reqs[p].since /\ clock <= reqs[p].since + StartDelay
      BY <1>1, <2>1 DEF Sound, SlotLeased
    <3> QED
      BY <1>3, <1>4, <3>1
  <2>2. CASE ~In(p, {"created", "sources"})
    <3>1. clock <= reqs[p].since + Deadline
      BY <1>1, <2>2 DEF Sound, SlotLeased
    <3>2. reqs[p].asked
      BY <1>1, <2>2 DEF Sound, Numbered, In, InFlight
    <3>3. reqs[p].since <= row.created + StartDelay
      BY <1>1, <1>2, <3>2 DEF Sound, RowOwned
    <3> QED
      BY <1>3, <1>4, <3>1, <3>3
  <2> QED
    BY <2>1, <2>2
<1>6. rid \in Kept(ledger, clock) /\ ~Lapsed(row, clock)
  BY <1>2, <1>3, <1>4, <1>5 DEF Kept, Lapsed
<1>7. Swept(ledger, clock)[rid].status = "running"
  BY <1>2, <1>6 DEF Swept, Row
<1> QED
  BY <1>6, <1>7 DEF Running, Swept

LEMMA AdmitSound ==
    ASSUME ServiceInv, NEW q \in Requests, Admit(q)
    PROVE  ServiceInv'
<1> DEFINE swept == Swept(ledger, clock)
           rid   == issued + 1
           new   == [reqs[q] EXCEPT !.phase = "created", !.rid = rid, !.since = clock]
<1>1. Here(q) /\ reqs[q] \in Request /\ reqs[q].phase = "answer" /\ Sound(q)
  BY HereTyped DEF Admit, ServiceInv, Here, In
<1>2. clock \in Instant /\ issued \in Nat /\ rid \in Nat /\ rid > issued
  BY DEF ServiceInv, TypeOK
<1>3. new \in Request /\ reqs' = [reqs EXCEPT ![q] = new]
  BY <1>1, <1>2 DEF Admit, ServiceInv, TypeOK, Request, Phases, InFlight
<1>4. /\ reqs'[q] = new /\ \A p \in Requests \ {q} : reqs'[p] = reqs[p]
      /\ reqs' \in [Requests -> Request \cup {Idle}]
  BY <1>3, Moved DEF ServiceInv
<1>5. /\ new.phase = "created" /\ new.rid = rid /\ new.since = clock
      /\ new.user = reqs[q].user /\ new.idem = reqs[q].idem /\ new.asked = reqs[q].asked
  BY <1>1 DEF Request
<1>6. ~new.asked
  BY <1>1, <1>5 DEF Sound, Numbered, In
<1> HIDE DEF new
<1>7. ledger \in [DOMAIN ledger -> Row] /\ DOMAIN ledger \subseteq 1 .. issued
  BY DEF ServiceInv, TypeOK
<1>8. Thins(swept, ledger) /\ WellFormed(swept)
  BY <1>2, <1>7, NumberedWellFormed, SweptThins
<1>9. ~Duplicate(swept, Call(q)) /\ Running(swept) = {}
  BY DEF Admit, Verdict, Busy
<1>10. \A p \in Requests : ~In(p, InFlight)
  BY <1>9, LeaseHolds
<1>11. NewRow(Call(q)) \in Row
  BY <1>1, <1>2, ServiceAssumption DEF NewRow, Call, Row, Request, Statuses
<1>12. /\ DOMAIN ledger' = DOMAIN swept \cup {rid} /\ DOMAIN ledger' \subseteq 1 .. issued'
       /\ ledger' \in [DOMAIN ledger' -> Row]
  <2>1. DOMAIN swept \subseteq 1 .. issued /\ swept \in [DOMAIN swept -> Row]
    BY <1>7, <1>8 DEF Thins, WellFormed
  <2> QED
    BY <1>2, <1>11, <2>1, InsertTyped DEF Admit
<1>13. /\ rid \notin DOMAIN swept /\ ledger'[rid] = NewRow(Call(q))
       /\ \A r \in DOMAIN swept : ledger'[r] = swept[r]
  BY <1>2, <1>7, <1>8 DEF Thins, Admit, Insert
<1>14. /\ ledger'[rid].user = reqs[q].user /\ ledger'[rid].idem = reqs[q].idem
       /\ ledger'[rid].created = clock /\ ledger'[rid].status = "running"
       /\ ledger'[rid].charged = Estimate
  BY <1>13 DEF NewRow, Call
<1>15. issued' = rid /\ clock' = clock
  BY DEF Admit
<1>16. DOMAIN swept = Kept(ledger, clock)
  BY DEF Swept
<1> HIDE DEF swept, rid
<1>17. Sound(q)'
  BY <1>1, <1>2, <1>4, <1>5, <1>6, <1>12, <1>14, <1>15, ServiceAssumption
     DEF Sound, Numbered, RowOwned, RowLasts, SlotLeased, ResultReported, In, InFlight,
         Running, Instant
<1>18. ASSUME NEW p \in Requests \ {q}, Here(p) PROVE Sound(p)'
  <2>1. reqs'[p] = reqs[p] /\ reqs[p] \in Request /\ Sound(p) /\ ~In(p, InFlight)
    BY <1>4, <1>10, <1>18, HereTyped DEF ServiceInv
  <2>2. reqs[p].rid \in 0 .. issued /\ reqs[p].rid # rid
    BY <1>2, <1>18, <2>1 DEF Sound, Numbered, rid
  <2>3. reqs[p].rid \in DOMAIN ledger' =>
           /\ reqs[p].rid \in DOMAIN swept /\ reqs[p].rid \in DOMAIN ledger
           /\ ledger'[reqs[p].rid] = swept[reqs[p].rid]
    BY <1>8, <1>12, <1>13, <2>2 DEF Thins
  <2>4. Numbered(p)'
    BY <1>2, <1>15, <1>18, <2>1, <2>2 DEF Sound, Numbered, In, rid
  <2>5. RowOwned(p)'
    BY <1>8, <1>18, <2>1, <2>3 DEF Sound, RowOwned, Thins
  <2>6. RowLasts(p)'
    <3> SUFFICES ASSUME reqs[p].asked, reqs[p].rid \notin DOMAIN ledger'
                 PROVE  reqs[p].since + LedgerKeep < clock + StartDelay
      BY <1>15, <1>18, <2>1 DEF Sound, RowLasts
    <3>1. CASE reqs[p].rid \notin DOMAIN ledger
      BY <1>18, <2>1, <3>1 DEF Sound, RowLasts
    <3>2. CASE reqs[p].rid \in DOMAIN ledger
      <4> DEFINE created == ledger[reqs[p].rid].created
      <4>1. created \in Nat /\ reqs[p].since \in Nat /\ clock \in Nat
            /\ LedgerKeep \in Nat /\ StartDelay \in Nat
        BY <1>2, <1>7, <2>1, <3>2, LedgerAssumption, ServiceAssumption
           DEF Row, Request, Instant
      <4>2. reqs[p].since <= created + StartDelay
        BY <1>18, <2>1, <3>2 DEF Sound, RowOwned
      <4>3. ~(created + LedgerKeep >= clock)
        BY <1>12, <1>16, <3>2 DEF Kept
      <4> QED
        BY <4>1, <4>2, <4>3
    <3> QED
      BY <3>1, <3>2
  <2>7. SlotLeased(p)'
    BY <2>1 DEF SlotLeased, In
  <2>8. ResultReported(p)'
    <3>1. reqs[p].status \in Outcomes
      BY <2>1 DEF Request
    <3> QED
      BY <1>8, <1>18, <2>1, <2>3, <3>1 DEF Sound, ResultReported, Thins, In, Outcomes
  <2> QED
    BY <2>4, <2>5, <2>6, <2>7, <2>8 DEF Sound
<1>19. \A p \in Requests : Sound(p)'
  BY <1>4, <1>17, <1>18 DEF Sound, Here, In
<1>20. OwnIdentifiers'
  <2>1. ASSUME NEW p \in Requests \ {q}, Here(p)' PROVE reqs'[p].rid # reqs'[q].rid
    BY <1>2, <1>4, <1>5, <2>1 DEF ServiceInv, Sound, Numbered, Here, In, rid
  <2> QED
    BY <1>4, <2>1 DEF ServiceInv, OwnIdentifiers, Here, In
<1>21. InferenceOnce'
  BY <1>4, <1>5, <1>6 DEF ServiceInv, InferenceOnce, In
<1>22. LedgerSound'
  <2>1. Running(ledger') = {rid}
    BY <1>9, <1>12, <1>13, <1>14 DEF Running
  <2>2. UniqueKeys(ledger')
    <3>1. \A r, s \in DOMAIN swept :
             swept[r].user = swept[s].user /\ swept[r].idem = swept[s].idem => r = s
      BY <1>8 DEF Thins, ServiceInv, LedgerSound, UniqueKeys
    <3>2. \A r \in DOMAIN swept :
             ~(swept[r].user = reqs[q].user /\ swept[r].idem = reqs[q].idem)
      BY <1>9 DEF Duplicate, Call
    <3> QED
      BY <1>12, <1>13, <1>14, <3>1, <3>2 DEF UniqueKeys
  <2> QED
    BY <1>14, <2>1, <2>2 DEF LedgerSound, SingleSlot
<1>23. q \notin Counted
  BY <1>1 DEF Counted, In, InFlight
<1>24. Flying' = Flying \cup {q} /\ Counted' = Counted \cup {q}
  BY <1>4, <1>5, <1>23, Recount DEF Flying, Counted, In, InFlight
<1>25. GaugeSound'
  BY <1>23, <1>24, GaugeRises DEF Admit, ServiceInv, TypeOK
<1>26. TypeOK'
  BY <1>2, <1>4, <1>12, <1>15, <1>25, TypeFollows DEF Admit, ServiceInv, TypeOK
<1> QED
  BY <1>19, <1>20, <1>21, <1>22, <1>25, <1>26 DEF ServiceInv

-----------------------------------------------------------------------------
(***************************************************************************)
(* The theorems.                                                           *)
(***************************************************************************)
LEMMA StutterSound ==
    ASSUME ServiceInv, UNCHANGED vars
    PROVE  ServiceInv'
<1>1. (\A q \in Requests : Sound(q))'
  BY DEF vars, ServiceInv, Sound, Here, In, Numbered, RowOwned, RowLasts, SlotLeased,
         ResultReported, Running
<1>2. OwnIdentifiers' /\ LedgerSound' /\ InferenceOnce' /\ GaugeSound'
  BY DEF vars, ServiceInv, OwnIdentifiers, Here, In, LedgerSound, SingleSlot, UniqueKeys,
         Running, InferenceOnce, GaugeSound, Flying, Counted
<1>3. TypeOK'
  BY DEF vars, ServiceInv, TypeOK
<1> QED
  BY <1>1, <1>2, <1>3 DEF ServiceInv

LEMMA NextSound == ServiceInv /\ [Next]_vars => ServiceInv'
<1> SUFFICES ASSUME ServiceInv, [Next]_vars PROVE ServiceInv'
  OBVIOUS
<1>1. CASE Tick
  BY <1>1, TickSound
<1>2. CASE Identity
  BY <1>2, AuthenticateSound, RevokeSound, RotateSound DEF Identity
<1>3. ASSUME NEW q \in Requests,
             Admit(q) \/ Refuse(q) \/ Model(q) \/ Progress(q) \/ Disconnect(q)
      PROVE  ServiceInv'
  BY <1>3, AdmitSound, RefuseSound, ModelSound, ProgressSound, DisconnectSound
<1>4. CASE Crash
  BY <1>4, CrashSound
<1>5. CASE UNCHANGED vars
  BY <1>5, StutterSound
<1> QED
  BY <1>1, <1>2, <1>3, <1>4, <1>5 DEF Next

\* The types, what the ledger has of every request, and the gauge hold in every state.
THEOREM ServiceInvKept == Spec => []ServiceInv
<1> QED
  BY InitSound, NextSound, PTL DEF Spec

\* The model serves one answer at a time, whatever the order in which requests are
\* admitted, time out, are abandoned, or are lost with the gateway.
THEOREM OneUpstreamKept == Spec => []OneUpstream
<1>1. ServiceInv => OneUpstream
  <2> SUFFICES ASSUME ServiceInv, NEW p \in Requests, NEW q \in Requests,
                      In(p, {"model"}), In(q, {"model"}), p # q
               PROVE  FALSE
    BY DEF OneUpstream
  <2>1. /\ In(p, InFlight) /\ In(q, InFlight) /\ Here(p) /\ Here(q)
    BY DEF In, InFlight, Here
  <2>2. reqs[p].rid = reqs[q].rid
    BY <2>1, SettlesOwnRow DEF ServiceInv, LedgerSound, SingleSlot
  <2> QED
    BY <2>1, <2>2, SettlesOwnRow
<1> QED
  BY <1>1, ServiceInvKept, PTL

\* Two requests of a member with the same idempotency key do not both make the model
\* work while the ledger remembers the first.
THEOREM InferenceOnceKept == Spec => []InferenceOnce
<1>1. ServiceInv => InferenceOnce
  BY DEF ServiceInv
<1> QED
  BY <1>1, ServiceInvKept, PTL

\* What a client reads of its answer is what the ledger has, as long as it has the row.
THEOREM ResultMatchesLedgerKept == Spec => []ResultMatchesLedger
<1>1. ServiceInv => ResultMatchesLedger
  <2> SUFFICES ASSUME ServiceInv, NEW q \in Requests, In(q, {"result"}),
                      clock + StartDelay <= reqs[q].since + LedgerKeep
               PROVE  reqs[q].rid \in DOMAIN ledger /\ ResultReported(q)
    BY DEF ResultMatchesLedger, ResultReported, ServiceInv
  <2>1. Here(q) /\ Sound(q) /\ reqs[q] \in Request
    BY HereTyped DEF Here, In, ServiceInv
  <2>2. /\ reqs[q].since \in Nat /\ clock \in Nat /\ LedgerKeep \in Nat /\ StartDelay \in Nat
    BY <2>1, LedgerAssumption, ServiceAssumption DEF Request, Instant, ServiceInv, TypeOK
  <2>3. reqs[q].asked
    BY <2>1 DEF Sound, Numbered, In
  <2> QED
    BY <2>1, <2>2, <2>3 DEF Sound, RowLasts
<1> QED
  BY <1>1, ServiceInvKept, PTL

\* The gauge counts the requests in flight, and exceeds their number by at most the
\* calls of finish that raised.
THEOREM GaugeCountsKept == Spec => []GaugeCounts
<1>1. ServiceInv => GaugeCounts
  BY DEF ServiceInv, GaugeSound, GaugeCounts, Flying
<1> QED
  BY <1>1, ServiceInvKept, PTL

-----------------------------------------------------------------------------
(***************************************************************************)
(* The service implements the lease.                                       *)
(***************************************************************************)
LEMMA HeldBy ==
    ASSUME LedgerSound, NEW x \in Running(ledger)
    PROVE  Holder = x /\ Since = ledger[x].created
<1>1. Running(ledger) = {x}
  BY DEF LedgerSound, SingleSlot
<1> QED
  BY <1>1 DEF Holder, Since

\* The same in the next state.
LEMMA HeldByNext ==
    ASSUME LedgerSound', NEW x \in Running(ledger')
    PROVE  Holder' = x /\ Since' = ledger'[x].created
<1>1. Running(ledger') = {x}
  BY DEF LedgerSound, SingleSlot
<1> QED
  BY <1>1 DEF Holder, Since

\* A step that leaves the ledger and the clock alone is a stutter of the lease.
LEMMA LeaseStays ==
    ASSUME UNCHANGED <<clock, ledger, issued>>
    PROVE  UNCHANGED Lease!leaseVars
BY DEF Holder, Since, Lease!leaseVars

\* Whoever has the slot when another request is admitted has had it for its term.
LEMMA TakesOver ==
    ASSUME ServiceInv, NEW q \in Requests, Admit(q), NEW x \in Running(ledger)
    PROVE  ledger[x].created + 2 * Deadline < clock
<1>1. Running(Swept(ledger, clock)) = {}
  BY DEF Admit, Verdict, Busy
<1>2. x \in DOMAIN ledger /\ ledger[x] \in Row /\ ledger[x].status = "running"
  BY DEF Running, ServiceInv, TypeOK
<1>3. ledger[x].created \in Nat /\ clock \in Nat
  BY <1>2, LedgerAssumption DEF Row, Instant, ServiceInv, TypeOK
<1>4. Deadline \in Nat /\ LedgerKeep \in Nat /\ 2 * Deadline <= LedgerKeep
  BY LedgerAssumption
<1>5. CASE x \notin Kept(ledger, clock)
  BY <1>2, <1>3, <1>4, <1>5 DEF Kept
<1>6. CASE x \in Kept(ledger, clock)
  <2>1. Swept(ledger, clock)[x].status # "running"
    BY <1>1, <1>6 DEF Running, Swept
  <2>2. Lapsed(ledger[x], clock)
    BY <1>2, <1>6, <2>1 DEF Swept, Row
  <2> QED
    BY <2>2 DEF Lapsed
<1> QED
  BY <1>5, <1>6

LEMMA AdmitAcquires ==
    ASSUME ServiceInv, ServiceInv', NEW q \in Requests, Admit(q)
    PROVE  Lease!Acquire
<1> DEFINE x == issued + 1
<1>1. issued' = x /\ clock' = clock /\ clock \in Nat
  BY LedgerAssumption DEF Admit, ServiceInv, TypeOK, Instant
<1>2. x \in Running(ledger') /\ ledger'[x].created = clock
  BY DEF Admit, Insert, NewRow, Call, Running
<1>3. Holder' = x /\ Since' = clock
  BY <1>2, HeldByNext DEF ServiceInv
<1>4. Holder = Unknown \/ Since + 2 * Deadline < clock
  <2>1. CASE Running(ledger) = {}
    BY <2>1 DEF Holder
  <2>2. ASSUME NEW y \in Running(ledger) PROVE Since + 2 * Deadline < clock
    BY <2>2, HeldBy, TakesOver DEF ServiceInv
  <2> QED
    BY <2>1, <2>2
<1>5. clock \in 0 .. clock /\ clock <= clock + 0
  BY <1>1
<1> QED
  BY <1>1, <1>3, <1>4, <1>5 DEF Lease!Acquire

\* A finish gives up the slot of its own request, or raises and leaves it.
LEMMA FinishReleases ==
    ASSUME ServiceInv, NEW q \in Requests, In(q, InFlight),
           NEW status \in Outcomes, NEW phase, Finish(q, status, phase)
    PROVE  Lease!Release \/ UNCHANGED Lease!leaseVars
<1> DEFINE x == reqs[q].rid
<1>1. x \in Running(ledger) /\ reqs[q] \in Request
  BY SettlesOwnRow, HereTyped DEF ServiceInv, Here, In, InFlight
<1>2. CASE ledger' = Settled(q, status)
  <2>1. ledger' = Settle(ledger, x, status, reqs[q].total)
    BY <1>1, <1>2 DEF Settled
  <2>2. reqs[q].total \in Nat \cup {Unknown} /\ ledger \in [DOMAIN ledger -> Row]
    BY <1>1, ServiceAssumption DEF Request, ServiceInv, TypeOK
  <2>3. Settles(ledger', ledger, x)
    BY <1>1, <2>1, <2>2, SettleSettles
  <2>4. Running(ledger') = {}
    BY <2>3 DEF Settles, Running, ServiceInv, LedgerSound, SingleSlot
  <2>5. Holder = x /\ x # Unknown
    <3>1. x \in Nat
      BY <1>1 DEF Request
    <3> QED
      BY <1>1, <3>1, HeldBy, LedgerAssumption DEF ServiceInv
  <2>6. Holder' = Unknown /\ Since' = 0
    BY <2>4 DEF Holder, Since
  <2>7. clock' = clock /\ issued' = issued
    BY DEF Finish
  <2> QED
    BY <2>5, <2>6, <2>7 DEF Lease!Release
<1>3. CASE ledger' = ledger
  BY <1>3, LeaseStays DEF Finish
<1> QED
  BY <1>2, <1>3 DEF Finish

\* Only an admission, or the finish of a request in flight, touches the ledger.
LEMMA LedgerSteps ==
    ASSUME ServiceInv, [Next]_vars
    PROVE  \/ Tick \/ UNCHANGED <<clock, ledger, issued>>
           \/ \E q \in Requests : Admit(q)
           \/ \E q \in Requests, status \in Outcomes, phase \in {"result", "closed"} :
                 In(q, InFlight) /\ Finish(q, status, phase)
<1>1. CASE Identity
  BY <1>1 DEF Identity, Authenticate, Revoke, Rotate
<1>2. ASSUME NEW q \in Requests, Refuse(q) \/ Model(q) \/ Progress(q) \/ Disconnect(q)
      PROVE  \/ UNCHANGED <<clock, ledger, issued>>
             \/ \E status \in Outcomes, phase \in {"result", "closed"} :
                   In(q, InFlight) /\ Finish(q, status, phase)
  <2>1. \/ UNCHANGED <<clock, ledger, issued>>
        \/ In(q, {"model"}) /\ Finish(q, "ok", "result")
        \/ In(q, {"failed"}) /\ Finish(q, reqs[q].status, "result")
        \/ In(q, {"created", "sources", "model"}) /\ Finish(q, "cancelled", "closed")
        \/ In(q, {"failed"}) /\ Finish(q, reqs[q].status, "closed")
    BY <1>2 DEF Refuse, Model, Hear, EndOfStream, ModelFails, Failed, Progress, Start, CallModel,
                Timeout, ErrorSent, ResultSent, Disconnect
  <2>2. \/ In(q, {"model"}) \/ In(q, {"failed"}) \/ In(q, {"created", "sources", "model"})
        => In(q, InFlight)
    BY DEF In, InFlight
  <2>3. In(q, InFlight) => reqs[q].status \in Outcomes
    BY HereTyped DEF ServiceInv, Here, In, InFlight, Request
  <2>4. "ok" \in Outcomes /\ "cancelled" \in Outcomes
    BY DEF Outcomes
  <2> QED
    BY <2>1, <2>2, <2>3, <2>4
<1>3. CASE Crash
  BY <1>3 DEF Crash
<1>4. CASE UNCHANGED vars
  BY <1>4 DEF vars
<1> QED
  BY <1>1, <1>2, <1>3, <1>4 DEF Next

LEMMA ServiceStep ==
    ASSUME ServiceInv, ServiceInv', [Next]_vars
    PROVE  [Lease!LeaseTick \/ Lease!Acquire \/ Lease!Release]_(Lease!leaseVars)
<1>1. CASE Tick
  <2>1. UNCHANGED <<ledger, issued>> /\ clock < Horizon /\ clock' = clock + 1
    BY <1>1 DEF Tick
  <2>2. UNCHANGED <<Holder, Since>>
    BY <2>1 DEF Holder, Since
  <2> QED
    BY <2>1, <2>2 DEF Lease!LeaseTick
<1> QED
  BY <1>1, LedgerSteps, LeaseStays, AdmitAcquires, FinishReleases

\* No crash and no fault gives the slot of a request that may still ask the model to
\* another: the service refines the lease that the store refines.
THEOREM ServiceHoldsLease == Spec => HoldsLease
<1>1. Init => Lease!LeaseInit
  <2> SUFFICES ASSUME Init PROVE Lease!LeaseInit
    OBVIOUS
  <2>1. Running(ledger) = {}
    BY DEF Init, Running
  <2> QED
    BY <2>1 DEF Init, Holder, Since, Lease!LeaseInit
<1>2. ServiceInv /\ ServiceInv' /\ [Next]_vars
         => [Lease!LeaseTick \/ Lease!Acquire \/ Lease!Release]_(Lease!leaseVars)
  BY ServiceStep
<1> QED
  BY <1>1, <1>2, InitSound, NextSound, PTL DEF Spec, HoldsLease, Lease!LeaseSpec

\* A finish takes away no row but its own, and that only when it succeeds.
LEMMA FinishEnds ==
    ASSUME ServiceInv, NEW q \in Requests, In(q, InFlight),
           NEW status \in Outcomes, NEW phase \in {"result", "closed"}, Finish(q, status, phase),
           NEW r \in Running(ledger) \ Running(ledger')
    PROVE  /\ reqs[q].phase \in InFlight /\ reqs[q].rid = r
           /\ reqs'[q].phase \in {"result", "closed"} /\ faults' = faults
<1>1. Running(ledger) = {reqs[q].rid}
  BY SettlesOwnRow DEF ServiceInv, LedgerSound, SingleSlot
<1>2. /\ ledger' # ledger
      /\ reqs' = [reqs EXCEPT ![q] = Finished(q, status, phase)] /\ faults' = faults
  BY DEF Finish, Finished
<1>3. Finished(q, status, phase).phase = phase
  BY FinishedTyped, HereTyped DEF ServiceInv, Here, In, InFlight
<1>4. reqs'[q].phase = phase
  BY <1>2, <1>3 DEF ServiceInv, TypeOK
<1> QED
  BY <1>1, <1>2, <1>4 DEF In

\* A crash, a fault, a revocation and the requests of others leave a running row alone.
THEOREM SlotAlwaysKept == Spec => SlotKept
<1> DEFINE Done(r) == \E q \in Requests : reqs[q].phase \in InFlight /\ reqs[q].rid = r
                          /\ reqs'[q].phase \in {"result", "closed"} /\ faults' = faults
           Lapses(r) == ledger[r].created + 2 * Deadline < clock /\ issued' = issued + 1
<1>1. ASSUME ServiceInv, [Next]_vars, NEW r \in Running(ledger) \ Running(ledger')
      PROVE  Done(r) \/ Lapses(r)
  <2>1. ledger' # ledger
    BY <1>1
  <2>2. ~Tick
    BY <2>1 DEF Tick
  <2>3. ASSUME NEW q \in Requests, Admit(q) PROVE Lapses(r)
    BY <1>1, <2>3, TakesOver DEF Admit
  <2>4. ASSUME NEW q \in Requests, NEW status \in Outcomes, NEW phase \in {"result", "closed"},
               In(q, InFlight), Finish(q, status, phase)
        PROVE  Done(r)
    BY <1>1, <2>4, FinishEnds
  <2> QED
    BY <1>1, <2>1, <2>2, <2>3, <2>4, LedgerSteps
<1>2. ServiceInv /\ [Next]_vars =>
         [\A r \in Running(ledger) \ Running(ledger') :
            \/ \E q \in Requests : reqs[q].phase \in InFlight /\ reqs[q].rid = r
                                  /\ reqs'[q].phase \in {"result", "closed"} /\ faults' = faults
            \/ ledger[r].created + 2 * Deadline < clock /\ issued' = issued + 1]_vars
  BY <1>1
<1> QED
  BY <1>2, ServiceInvKept, PTL DEF Spec, SlotKept
=============================================================================
