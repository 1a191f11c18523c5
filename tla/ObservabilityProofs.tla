------------------------- MODULE ObservabilityProofs -------------------------
(***************************************************************************)
(* Proofs about what observers get from the gateway: the sampler of        *)
(* resources, the page of the dashboard, the reader of Prometheus, the     *)
(* request limit and the budget of spans.  Each part has an inductive      *)
(* invariant of its own, and a behaviour that follows one part keeps those *)
(* of all.                                                                 *)
(***************************************************************************)
EXTENDS Observability, SelectionProofs, FiniteSetTheorems, SequenceTheorems,
        WellFoundedInduction, TLAPS

-----------------------------------------------------------------------------
(* The sampler of resources.                                               *)

AtWork == {"sampling", "reading", "failing"}

\* A share of the CPU is of one interval, and no more than was used in it.
HonestRate(share) == share # Unmeasured => share.used \in 0 .. share.over

\* What a task that runs shows: the sample of its last attempt.  It sleeps since it took
\* the sample, or works since it slept its interval.
SampleKnown ==
    sampler.phase \notin {"dead", "stopped"} /\ latest # Unmeasured =>
        /\ lastEnded.ok /\ latest.at = lastEnded.at
        /\ sampler.phase = "sleeping" => latest.at = sampler.since
        /\ sampler.phase \in AtWork => sampler.since <= latest.at + Interval

\* The task is never later than the clock allows.
SamplerOnTime ==
    /\ sampler.since <= instant
    /\ sampler.phase = "sleeping" => instant <= sampler.since + Interval
    /\ sampler.phase \in AtWork => instant <= sampler.since + SampleTime

\* No more CPU was used since an instant than passed since then.
UseBounded ==
    /\ used <= instant
    /\ previous # Unmeasured =>
          /\ previous.at <= instant /\ previous.used <= used
          /\ used - previous.used <= instant - previous.at

MonitorInv ==
    /\ MonitorTypeOK
    /\ SamplerOnTime
    /\ UseBounded
    /\ SampleKnown
    /\ HonestRate(cores)
    /\ latest # Unmeasured => HonestRate(latest.cores)

LEMMA MonitorStarts == MonitorInit => MonitorInv
BY MonitorAssumption
   DEF MonitorInit, MonitorInv, MonitorTypeOK, SamplerOnTime, UseBounded, SampleKnown,
       HonestRate, AtWork, Phases, Instants

LEMMA MonitorStep == MonitorInv /\ [MonitorNext]_monitorVars => MonitorInv'
<1> SUFFICES ASSUME MonitorInv, [MonitorNext]_monitorVars
             PROVE  MonitorInv'
  OBVIOUS
<1> USE MonitorAssumption DEF Instants
<1>1. /\ instant \in Nat /\ instant <= LastInstant /\ used \in Nat
      /\ Interval \in Nat /\ SampleTime \in Nat /\ LastInstant \in Nat
      /\ sampler \in [phase : Phases, since : 0 .. LastInstant]
      /\ sampler.since \in Nat
  BY DEF MonitorInv, MonitorTypeOK
<1>2. CASE Wake
  BY <1>1, <1>2
     DEF Wake, Sampler, Becomes, MonitorInv, MonitorTypeOK, SamplerOnTime, UseBounded,
         SampleKnown, HonestRate, AtWork, Phases
<1>3. CASE ReadProcess
  <2> PICK share : share = IF previous # Unmeasured /\ instant > previous.at
                   THEN [used |-> used - previous.used, over |-> instant - previous.at]
                   ELSE Unmeasured
    OBVIOUS
  <2>1. share \in Rate \cup {Unmeasured} /\ HonestRate(share)
    BY <1>1 DEF MonitorInv, MonitorTypeOK, UseBounded, HonestRate, Rate
  <2>2. /\ cores' = share
        /\ previous' = [at |-> instant, used |-> used]
        /\ sampler.phase = "sampling" /\ sampler' = [sampler EXCEPT !.phase = "reading"]
        /\ UNCHANGED <<instant, used, latest, lastEnded>>
    BY <1>3 DEF ReadProcess, Sampler
  <2>3. MonitorTypeOK' /\ SamplerOnTime' /\ UseBounded' /\ SampleKnown'
    BY <1>1, <2>1, <2>2
       DEF MonitorInv, MonitorTypeOK, SamplerOnTime, UseBounded, SampleKnown, AtWork, Phases
  <2>4. HonestRate(cores)' /\ (latest # Unmeasured => HonestRate(latest.cores))'
    BY <2>1, <2>2 DEF MonitorInv, HonestRate
  <2> QED
    BY <2>3, <2>4 DEF MonitorInv
<1>4. CASE Publish
  BY <1>1, <1>4
     DEF Publish, Sampler, Becomes, MonitorInv, MonitorTypeOK, SamplerOnTime, UseBounded,
         SampleKnown, HonestRate, AtWork, Phases
<1>5. CASE Raise
  BY <1>1, <1>5
     DEF Raise, Sampler, Becomes, MonitorInv, MonitorTypeOK, SamplerOnTime, UseBounded,
         SampleKnown, HonestRate, AtWork, Phases
<1>6. CASE Drop
  BY <1>1, <1>6
     DEF Drop, Sampler, Becomes, MonitorInv, MonitorTypeOK, SamplerOnTime, UseBounded,
         SampleKnown, HonestRate, AtWork, Phases
<1>7. CASE DieSilently
  BY <1>1, <1>7
     DEF DieSilently, Sampler, Becomes, MonitorInv, MonitorTypeOK, SamplerOnTime, UseBounded,
         SampleKnown, HonestRate, AtWork, Phases
<1>8. CASE StopMonitor
  BY <1>1, <1>8
     DEF StopMonitor, Sampler, Becomes, MonitorInv, MonitorTypeOK, SamplerOnTime, UseBounded,
         SampleKnown, HonestRate, AtWork, Phases
<1>9. CASE MonitorTick
  BY <1>1, <1>9
     DEF MonitorTick, Sampler, Becomes, MonitorInv, MonitorTypeOK, SamplerOnTime, UseBounded,
         SampleKnown, HonestRate, AtWork, Phases
<1>10. CASE UNCHANGED monitorVars
  BY <1>1, <1>10
     DEF monitorVars, MonitorInv, MonitorTypeOK, SamplerOnTime, UseBounded, SampleKnown,
         HonestRate
<1> QED
  BY <1>2, <1>3, <1>4, <1>5, <1>6, <1>7, <1>8, <1>9, <1>10 DEF MonitorNext

LEMMA MonitorSafe == MonitorInv => AgeHonest
<1> SUFFICES ASSUME MonitorInv
             PROVE  AgeHonest
  OBVIOUS
<1>1. CASE sampler.phase \notin {"dead", "stopped"} /\ latest # Unmeasured
  <2>1. /\ instant \in Nat /\ sampler.since \in Nat /\ latest.at \in Nat
        /\ Interval \in Nat /\ SampleTime \in Nat
        /\ sampler.phase \in AtWork \cup {"sleeping"}
    BY <1>1, MonitorAssumption DEF MonitorInv, MonitorTypeOK, Instants, Phases, AtWork
  <2>2. instant <= latest.at + (Interval + SampleTime)
    BY <1>1, <2>1 DEF MonitorInv, SampleKnown, SamplerOnTime
  <2> QED
    BY <1>1, <2>1, <2>2 DEF MonitorInv, SampleKnown, AgeHonest, SampleAge, HonestRate
<1>2. CASE ~(sampler.phase \notin {"dead", "stopped"} /\ latest # Unmeasured)
  BY <1>2 DEF MonitorInv, AgeHonest, HonestRate
<1> QED
  BY <1>1, <1>2

\* snapshot: while the sampler's task runs, what is shown is the sample of its last attempt
\* and no older than a pause and a sample, and a CPU share is no more than the time it is of.
THEOREM AgeKept == FairSpec => []AgeHonest
<1>1. Init => MonitorInv
  BY MonitorStarts DEF Init
<1>2. MonitorInv /\ [Next]_vars => MonitorInv'
  <2>1. [Next]_vars => [MonitorNext]_monitorVars
    BY DEF Next, OthersStay, vars
  <2> QED
    BY <2>1, MonitorStep
<1> QED
  BY <1>1, <1>2, MonitorSafe, PTL DEF FairSpec

-----------------------------------------------------------------------------
(* The page of the dashboard.                                              *)

\* No request is of the epoch of the page.
NoneCurrent(requests) == \A f \in requests : ~f.current

\* A page with its requests: it waits for one answer of its key at most, waits for
\* something while it refreshes itself, and for nothing while it is hidden or signed out.
PageSound(page, requests) ==
    /\ page \in Dash /\ requests \subseteq Flight
    /\ page.open => page.key # Nobody
    /\ page.open /\ ~page.hidden /\ page.auto =>
          page.timer \/ \E f \in requests : f.current
    /\ page.hidden \/ page.key = Nobody => ~page.timer /\ NoneCurrent(requests)
    /\ \A f, g \in requests : f.current /\ g.current => f = g
    /\ \A f \in requests : f.current => f.key = page.key
    /\ page.shown \in {Nobody, page.key}

PageInv == PageSound(dash, flights)

LEMMA NoneAfterStop ==
    ASSUME NEW requests \in SUBSET Flight
    PROVE  Stopped(requests) \subseteq Flight /\ NoneCurrent(Stopped(requests))
BY DEF Stopped, Flight, NoneCurrent

\* One new request beside those that were stopped.
LEMMA OneAfterStop ==
    ASSUME NEW requests \in SUBSET Flight, NEW f \in Flight
    PROVE  /\ Stopped(requests) \cup {f} \subseteq Flight
           /\ \A g \in Stopped(requests) \cup {f} : g.current => g = f
<1>1. Stopped(requests) \subseteq Flight /\ NoneCurrent(Stopped(requests))
  BY NoneAfterStop
<1> QED
  BY <1>1 DEF NoneCurrent

LEMMA RefreshedSound ==
    ASSUME NEW page \in Dash, NEW requests \in SUBSET Flight,
           page.open => page.key # Nobody,
           page.hidden \/ page.key = Nobody => ~page.timer /\ NoneCurrent(requests),
           page.shown \in {Nobody, page.key},
           Refreshed(page, requests)
    PROVE  PageInv'
<1>1. CASE page.key = Nobody \/ page.hidden
  <2>1. dash' = page /\ flights' = requests
    BY <1>1 DEF Refreshed
  <2> QED
    BY <1>1, <2>1 DEF PageInv, PageSound, NoneCurrent
<1>2. CASE ~(page.key = Nobody \/ page.hidden)
  <2> PICK purpose \in {"requests", "catalog"} :
        purpose = IF page.tab = "metrics" THEN "catalog" ELSE "requests"
    OBVIOUS
  <2> PICK f : f = [key |-> page.key, for |-> purpose, current |-> TRUE]
    OBVIOUS
  <2>1. dash' = [page EXCEPT !.timer = FALSE] /\ flights' = Stopped(requests) \cup {f}
    BY <1>2 DEF Refreshed
  <2>2. page.key \in Persons /\ page.hidden = FALSE
    BY <1>2 DEF Dash
  <2>3. /\ flights' \subseteq Flight /\ f \in flights' /\ f.current /\ f.key = page.key
        /\ \A g \in flights' : g.current => g = f
    <3>1. f \in Flight /\ f.current /\ f.key = page.key
      BY <2>2 DEF Flight
    <3> QED
      BY <2>1, <3>1, OneAfterStop, ZenonT(40)
  <2>4. dash' \in Dash
    BY <2>1 DEF Dash
  <2>5. /\ dash'.open = page.open /\ dash'.key = page.key /\ dash'.hidden = page.hidden
        /\ dash'.auto = page.auto /\ dash'.shown = page.shown
    BY <2>1 DEF Dash
  <2> QED
    BY <1>2, <2>2, <2>3, <2>4, <2>5 DEF PageInv, PageSound
<1> QED
  BY <1>1, <1>2

LEMMA SelectedSound ==
    ASSUME NEW page \in Dash, NEW requests \in SUBSET Flight, NEW tab \in Tabs,
           page.open => page.key # Nobody,
           page.hidden \/ page.key = Nobody => ~page.timer /\ NoneCurrent(requests),
           page.shown \in {Nobody, page.key},
           tab = "metrics" /\ ~page.operator => PageSound(page, requests),
           TabSelected(page, tab, requests)
    PROVE  PageInv'
<1>1. CASE tab = "metrics" /\ ~page.operator
  BY <1>1 DEF TabSelected, PageInv
<1>2. CASE ~(tab = "metrics" /\ ~page.operator)
  <2> PICK turned : turned = [page EXCEPT !.tab = tab]
    OBVIOUS
  <2>1. turned \in Dash
    BY DEF Dash
  <2>2. /\ turned.open = page.open /\ turned.key = page.key /\ turned.hidden = page.hidden
        /\ turned.timer = page.timer /\ turned.shown = page.shown
    BY DEF Dash
  <2>3. Refreshed(turned, requests)
    BY <1>2 DEF TabSelected
  <2> QED
    BY <2>1, <2>2, <2>3, RefreshedSound
<1> QED
  BY <1>1, <1>2

\* A page that was signed out, and one whose timer was set or not, without requests.
LEMMA SignedOutSound ==
    ASSUME PageInv, NEW requests \in SUBSET Flight,
           dash' = SignedOut(dash), flights' = Stopped(requests)
    PROVE  PageInv'
<1>1. dash' \in Dash
  BY DEF PageInv, PageSound, SignedOut, Dash
<1>2. dash'.key = Nobody /\ dash'.open = FALSE /\ dash'.timer = FALSE /\ dash'.shown = Nobody
  BY DEF PageInv, PageSound, SignedOut, Dash
<1>3. flights' \subseteq Flight /\ NoneCurrent(flights')
  BY NoneAfterStop
<1> QED
  BY <1>1, <1>2, <1>3 DEF PageInv, PageSound, NoneCurrent

LEMMA ScheduledSound ==
    ASSUME NEW page \in Dash, NEW requests \in SUBSET Flight,
           page.open => page.key # Nobody, page.shown \in {Nobody, page.key},
           page.hidden \/ page.key = Nobody => NoneCurrent(requests),
           \A f, g \in requests : f.current /\ g.current => f = g,
           \A f \in requests : f.current => f.key = page.key,
           dash' = Scheduled(page), flights' = requests
    PROVE  PageInv'
<1> PICK set \in BOOLEAN : set <=> page.key # Nobody /\ page.auto /\ ~page.hidden
  OBVIOUS
<1>1. dash' = [page EXCEPT !.timer = set]
  BY DEF Scheduled, Dash
<1>2. dash' \in Dash
  BY <1>1 DEF Dash
<1>3. /\ dash'.open = page.open /\ dash'.key = page.key /\ dash'.hidden = page.hidden
      /\ dash'.auto = page.auto /\ dash'.shown = page.shown /\ dash'.timer = set
  BY <1>1 DEF Dash
<1> QED
  BY <1>2, <1>3 DEF PageInv, PageSound, NoneCurrent

LEMMA PageStarts == DashInit => PageInv
BY PageAssumption DEF DashInit, PageInv, PageSound, Dash, Flight, Tabs, NoneCurrent

LEMMA PageStep == PageInv /\ [DashNext]_dashVars => PageInv'
<1> SUFFICES ASSUME PageInv, [DashNext]_dashVars
             PROVE  PageInv'
  OBVIOUS
<1>1. /\ dash \in Dash /\ flights \in SUBSET Flight
      /\ dash.open => dash.key # Nobody
      /\ dash.hidden \/ dash.key = Nobody => ~dash.timer /\ NoneCurrent(flights)
      /\ \A f, g \in flights : f.current /\ g.current => f = g
      /\ \A f \in flights : f.current => f.key = dash.key
      /\ dash.shown \in {Nobody, dash.key}
  BY DEF PageInv, PageSound
<1>2. CASE Connect
  <2> PICK person \in Persons :
        /\ dash' = [dash EXCEPT !.key = person, !.shown = Nobody, !.timer = FALSE]
        /\ flights' = Stopped(flights) \cup
              {[key |-> person, for |-> "session", current |-> TRUE]}
    BY <1>2 DEF Connect
  <2>1. ~dash.open /\ ~dash.hidden
    BY <1>2 DEF Connect
  <2> PICK f : f = [key |-> person, for |-> "session", current |-> TRUE]
    OBVIOUS
  <2>2. /\ flights' \subseteq Flight /\ f \in flights' /\ f.current /\ f.key = person
        /\ \A g \in flights' : g.current => g = f
    <3>1. f \in Flight /\ f.current /\ f.key = person
      BY DEF Flight
    <3> QED
      BY <1>1, <3>1, OneAfterStop
  <2>3. dash' \in Dash
    BY <1>1 DEF Dash
  <2>4. /\ dash'.open = dash.open /\ dash'.key = person /\ dash'.hidden = dash.hidden
        /\ dash'.shown = Nobody
    BY <1>1 DEF Dash
  <2> QED
    BY <2>1, <2>2, <2>3, <2>4, PageAssumption DEF PageInv, PageSound
<1>3. CASE Fire
  <2> PICK page : page = [dash EXCEPT !.timer = FALSE]
    OBVIOUS
  <2>1. page \in Dash
    BY <1>1 DEF Dash
  <2>2. /\ page.open = dash.open /\ page.key = dash.key /\ page.hidden = dash.hidden
        /\ page.shown = dash.shown /\ page.timer = FALSE
    BY <1>1 DEF Dash
  <2>3. Refreshed(page, flights)
    BY <1>3 DEF Fire
  <2> QED
    BY <1>1, <2>1, <2>2, <2>3, RefreshedSound
<1>4. CASE Select
  <2> PICK tab \in Tabs : TabSelected(dash, tab, flights)
    BY <1>4 DEF Select
  <2> QED
    BY <1>1, SelectedSound DEF PageInv
<1>5. CASE Disconnect
  BY <1>1, <1>5, SignedOutSound DEF Disconnect
<1>6. CASE ToggleAuto
  <2> PICK page : page = [dash EXCEPT !.auto = ~dash.auto]
    OBVIOUS
  <2>1. page \in Dash
    BY <1>1 DEF Dash
  <2>2. /\ page.open = dash.open /\ page.key = dash.key /\ page.hidden = dash.hidden
        /\ page.shown = dash.shown
    BY <1>1 DEF Dash
  <2>3. dash' = Scheduled(page) /\ flights' = flights
    BY <1>6 DEF ToggleAuto
  <2> QED
    BY <1>1, <2>1, <2>2, <2>3, ScheduledSound
<1>7. CASE Hide
  <2>1. dash' \in Dash
    BY <1>1, <1>7 DEF Hide, Dash
  <2>2. /\ dash'.open = dash.open /\ dash'.key = dash.key /\ dash'.hidden = TRUE
        /\ dash'.shown = dash.shown /\ dash'.timer = FALSE
    BY <1>1, <1>7 DEF Hide, Dash
  <2>3. flights' \subseteq Flight /\ NoneCurrent(flights')
    BY <1>1, <1>7, NoneAfterStop DEF Hide
  <2> QED
    BY <1>1, <2>1, <2>2, <2>3 DEF PageInv, PageSound, NoneCurrent
<1>8. CASE Unhide
  <2> PICK page : page = [dash EXCEPT !.hidden = FALSE]
    OBVIOUS
  <2>1. page \in Dash
    BY <1>1 DEF Dash
  <2>2. /\ page.open = dash.open /\ page.key = dash.key /\ page.timer = dash.timer
        /\ page.shown = dash.shown
    BY <1>1 DEF Dash
  <2>3. Refreshed(page, flights) /\ dash.hidden
    BY <1>8 DEF Unhide
  <2> QED
    BY <1>1, <2>1, <2>2, <2>3, RefreshedSound
<1>9. ASSUME NEW f \in flights, ~f.current,
             UNCHANGED dash, flights' = flights \ {f}
      PROVE  PageInv'
  BY <1>9 DEF PageInv, PageSound, NoneCurrent
<1>10. ASSUME NEW f \in flights, f.current
       PROVE  /\ ~dash.hidden /\ dash.key # Nobody /\ f.key = dash.key
              /\ flights \ {f} \in SUBSET Flight /\ NoneCurrent(flights \ {f})
  BY <1>1, <1>10 DEF NoneCurrent
<1>11. ASSUME NEW f \in flights, SessionAnswer(f)
       PROVE  PageInv'
  <2>1. CASE ~f.current
    BY <1>9, <1>11, <2>1 DEF SessionAnswer, OfThisEpoch
  <2>2. CASE f.current
    <3> PICK operator \in BOOLEAN :
          TabSelected([dash EXCEPT !.open = TRUE, !.operator = operator],
                      IF operator THEN "metrics" ELSE "requests", flights \ {f})
      BY <1>11, <2>2 DEF SessionAnswer, OfThisEpoch
    <3> PICK page : page = [dash EXCEPT !.open = TRUE, !.operator = operator]
      OBVIOUS
    <3> PICK tab \in Tabs : tab = IF operator THEN "metrics" ELSE "requests"
      BY DEF Tabs
    <3>1. page \in Dash
      BY <1>1 DEF Dash
    <3>2. /\ page.key = dash.key /\ page.hidden = dash.hidden /\ page.timer = dash.timer
          /\ page.shown = dash.shown /\ page.operator = operator
      BY <1>1 DEF Dash
    <3>3. TabSelected(page, tab, flights \ {f}) /\ ~(tab = "metrics" /\ ~page.operator)
      BY <3>2
    <3> QED
      BY <1>1, <1>10, <2>2, <3>1, <3>2, <3>3, SelectedSound
  <2> QED
    BY <2>1, <2>2 DEF Flight
<1>12. ASSUME NEW f \in flights, DataAnswer(f)
       PROVE  PageInv'
  <2>1. CASE ~f.current
    BY <1>9, <1>12, <2>1 DEF DataAnswer, OfThisEpoch
  <2>2. CASE f.current
    <3> PICK page : page = [dash EXCEPT !.shown = f.key]
      OBVIOUS
    <3>1. page \in Dash /\ page.shown = f.key
      BY <1>1, <1>10, <2>2 DEF Dash
    <3>2. /\ page.open = dash.open /\ page.key = dash.key /\ page.hidden = dash.hidden
      BY <1>1 DEF Dash
    <3>3. CASE dash' = Scheduled(page) /\ flights' = flights \ {f}
      BY <1>1, <1>10, <2>2, <3>1, <3>2, <3>3, ScheduledSound DEF NoneCurrent
    <3>4. CASE /\ dash' = page
               /\ flights' = (flights \ {f}) \cup
                     {[key |-> dash.key, for |-> "chart", current |-> TRUE]}
      <4> PICK chart : chart = [key |-> dash.key, for |-> "chart", current |-> TRUE]
        OBVIOUS
      <4>1. chart \in Flight /\ chart.current /\ chart.key = dash.key
        BY <1>1, <1>10, <2>2 DEF Dash, Flight
      <4>2. chart \in flights' /\ \A g \in flights' : g \in Flight /\ (g.current => g = chart)
        BY <1>10, <2>2, <3>4, <4>1 DEF NoneCurrent
      <4> QED
        BY <1>1, <1>10, <2>2, <3>1, <3>2, <3>4, <4>1, <4>2 DEF PageInv, PageSound, NoneCurrent
    <3> QED
      BY <1>12, <2>2, <3>3, <3>4 DEF DataAnswer, OfThisEpoch
  <2> QED
    BY <2>1, <2>2 DEF Flight
<1>13. ASSUME NEW f \in flights, Failure(f)
       PROVE  PageInv'
  <2>1. CASE ~f.current
    BY <1>9, <1>13, <2>1 DEF Failure, OfThisEpoch
  <2>2. CASE f.current
    <3>1. CASE dash' = SignedOut(dash) /\ flights' = Stopped(flights \ {f})
      BY <1>10, <2>2, <3>1, SignedOutSound
    <3>2. CASE dash' = Scheduled(dash) /\ flights' = flights \ {f}
      BY <1>1, <1>10, <2>2, <3>2, ScheduledSound DEF NoneCurrent
    <3> QED
      BY <1>13, <2>2, <3>1, <3>2 DEF Failure, OfThisEpoch
  <2> QED
    BY <2>1, <2>2 DEF Flight
<1>14. CASE UNCHANGED dashVars
  BY <1>14 DEF dashVars, PageInv, PageSound, NoneCurrent
<1> QED
  BY <1>2, <1>3, <1>4, <1>5, <1>6, <1>7, <1>8, <1>11, <1>12, <1>13, <1>14
     DEF DashNext, SignOut, Leave

LEMMA PageSafe == PageInv => PollingExact /\ OwnDataShown
<1> SUFFICES ASSUME PageInv
             PROVE  PollingExact /\ OwnDataShown
  OBVIOUS
<1>1. Cardinality(Polling) <= 1
  <2>1. CASE Polling = {}
    BY <2>1, FS_EmptySet
  <2>2. CASE Polling # {}
    <3> PICK f \in Polling : TRUE
      BY <2>2
    <3>1. Polling = {f}
      BY DEF Polling, PageInv, PageSound
    <3>2. Cardinality({f}) = 1
      BY FS_Singleton
    <3> QED
      BY <3>1, <3>2
  <2> QED
    BY <2>1, <2>2
<1> QED
  BY <1>1 DEF PageInv, PageSound, NoneCurrent, PollingExact, OwnDataShown, Polling, DashTypeOK

LEMMA PageInvKept == FairSpec => []PageInv
<1>1. Init => PageInv
  BY PageStarts DEF Init
<1>2. PageInv /\ [Next]_vars => PageInv'
  <2>1. [Next]_vars => [DashNext]_dashVars
    BY DEF Next, OthersStay, vars
  <2> QED
    BY <2>1, PageStep
<1> QED
  BY <1>1, <1>2, PTL DEF FairSpec

\* refresh, schedule and stopWork: an open page that is visible and refreshes itself always
\* waits for one answer or for the timer, and a page that is hidden or signed out never does.
THEOREM PollingKept == FairSpec => []PollingExact
BY PageInvKept, PageSafe, PTL

\* request and the epochs: what the dashboard shows was asked for with the key of its session,
\* however late an answer for another key comes.
THEOREM OwnDataKept == FairSpec => []OwnDataShown
BY PageInvKept, PageSafe, PTL

-----------------------------------------------------------------------------
(* Finite sets of numbers, and the positions in a sequence.                *)

LEMMA FirstOne ==
    ASSUME NEW T, T \subseteq Nat, T # {}
    PROVE  \E i \in T : \A j \in T : i <= j
<1>1. \E i \in T : \A j \in T : ~(j < i)
  <2> PICK less : less = OpToRel(<, Nat)
    OBVIOUS
  <2>1. IsWellFoundedOn(less, Nat)
    BY NatLessThanWellFounded
  <2>2. \E i \in T : \A j \in T : <<j, i>> \notin less
    BY <2>1, WFMin
  <2>3. \A i, j \in Nat : j < i => <<j, i>> \in less
    BY DEF OpToRel
  <2> QED
    BY <2>2, <2>3
<1> QED
  BY <1>1

LEMMA IntervalSize ==
    ASSUME NEW k \in Nat
    PROVE  IsFiniteSet(1 .. k) /\ Cardinality(1 .. k) = k
<1>1. 1 \in Int /\ k \in Int
  OBVIOUS
<1>2. /\ IsFiniteSet(1 .. k)
      /\ Cardinality(1 .. k) = IF 1 > k THEN 0 ELSE k - 1 + 1
  BY <1>1, FS_Interval
<1> QED
  BY <1>2

\* Pruning leaves an end of the sequence, that begins with a time that is not too old.
LEMMA SinceSuffix ==
    ASSUME NEW times \in Seq(Nat), NEW moment \in Nat, NEW span \in Nat
    PROVE  /\ FirstSince(times, moment, span) \in 1 .. Len(times) + 1
           /\ \A j \in 1 .. FirstSince(times, moment, span) - 1 : times[j] + span <= moment
           /\ FirstSince(times, moment, span) <= Len(times) =>
                 times[FirstSince(times, moment, span)] + span > moment
           /\ Since(times, moment, span) \in Seq(Nat)
           /\ Len(Since(times, moment, span))
                 = (Len(times) + 1) - FirstSince(times, moment, span)
           /\ \A i \in 1 .. Len(Since(times, moment, span)) :
                 Since(times, moment, span)[i]
                    = times[(FirstSince(times, moment, span) - 1) + i]
<1>1. Len(times) \in Nat /\ \A i \in 1 .. Len(times) : times[i] \in Nat
  OBVIOUS
<1> DEFINE First(i) == /\ \A j \in 1 .. i - 1 : times[j] + span <= moment
                       /\ i <= Len(times) => times[i] + span > moment
<1>2. \E i \in 1 .. Len(times) + 1 : First(i)
  <2> DEFINE T == {i \in 1 .. Len(times) + 1 : i <= Len(times) => times[i] + span > moment}
  <2>1. T \subseteq Nat /\ Len(times) + 1 \in T
    BY <1>1
  <2> PICK i \in T : \A j \in T : i <= j
    BY <2>1, FirstOne
  <2>2. i \in 1 .. Len(times) + 1
    OBVIOUS
  <2>3. ASSUME NEW j \in 1 .. i - 1
        PROVE  times[j] + span <= moment
    <3>1. j \in 1 .. Len(times) /\ ~(i <= j)
      BY <1>1, <2>2
    <3>2. j \notin T
      BY <3>1
    <3> QED
      BY <1>1, <3>1, <3>2
  <2> QED
    BY <2>2, <2>3
<1>3. /\ FirstSince(times, moment, span) \in 1 .. Len(times) + 1
      /\ First(FirstSince(times, moment, span))
  BY <1>2 DEF FirstSince
<1>4. ASSUME NEW n \in 1 .. Len(times) + 1
      PROVE  /\ SubSeq(times, n, Len(times)) \in Seq(Nat)
             /\ Len(SubSeq(times, n, Len(times))) = (Len(times) + 1) - n
             /\ \A i \in 1 .. Len(SubSeq(times, n, Len(times))) :
                   SubSeq(times, n, Len(times))[i] = times[(n - 1) + i]
  BY <1>1
<1> QED
  BY <1>3, <1>4 DEF Since

-----------------------------------------------------------------------------
(* The budget of spans.                                                    *)

SpanTypeOK ==
    /\ clock \in Nat
    /\ attempts \in Seq(Nat) /\ sent \in Seq(Nat)
    /\ batches \in [Exporters -> 0 .. Batch]
    /\ spans \in [Results -> Nat]

\* The attempts are exactly what was accepted, and never more than the budget.
BudgetInv ==
    /\ SpanTypeOK
    /\ attempts = sent
    /\ Len(attempts) <= Budget
    /\ SpansAccounted

LEMMA SpansStart == SpanInit => BudgetInv
<1> SUFFICES ASSUME SpanInit
             PROVE  BudgetInv
  OBVIOUS
<1>1. SpanTypeOK /\ attempts = sent /\ Len(attempts) <= Budget
  BY BudgetAssumption DEF SpanInit, SpanTypeOK, Results
<1>2. InDelivery = {}
  BY BudgetAssumption DEF SpanInit, InDelivery
<1>3. Cardinality(InDelivery) = 0
  BY <1>2, FS_EmptySet
<1>4. \A r \in Results : spans[r] = 0
  BY DEF SpanInit
<1>5. SpansAccounted
  BY <1>3, <1>4 DEF SpansAccounted, Results
<1> QED
  BY <1>1, <1>5 DEF BudgetInv

\* The spans of the batches that are given.
SpansOf(of) == {s \in Exporters \X (1 .. Batch) : s[2] <= of[s[1]]}

\* A thread with an empty batch takes some spans: there are as many more.
LEMMA DeliveryOf ==
    ASSUME NEW of \in [Exporters -> 0 .. Batch], NEW other \in [Exporters -> 0 .. Batch],
           NEW e \in Exporters, NEW k \in 0 .. Batch, of[e] = 0, other[e] = k,
           \A x \in Exporters \ {e} : other[x] = of[x]
    PROVE  /\ Cardinality(SpansOf(of)) \in Nat
           /\ Cardinality(SpansOf(other)) = Cardinality(SpansOf(of)) + k
<1> DEFINE before == SpansOf(of)
           after  == SpansOf(other)
           taken  == {e} \X (1 .. k)
<1>1. Batch \in Nat /\ k \in Nat
  BY BudgetAssumption
<1>2. IsFiniteSet(Exporters \X (1 .. Batch))
  <2>1. IsFiniteSet(1 .. Batch)
    BY <1>1, IntervalSize
  <2> QED
    BY <2>1, BudgetAssumption, FS_Product
<1>3. before \subseteq Exporters \X (1 .. Batch) /\ IsFiniteSet(before)
  <2>1. before \subseteq Exporters \X (1 .. Batch)
    BY DEF SpansOf
  <2> QED
    BY <1>2, <2>1, FS_Subset
<1>4. IsFiniteSet(taken) /\ Cardinality(taken) = k
  <2>1. IsFiniteSet(1 .. k) /\ Cardinality(1 .. k) = k
    BY <1>1, IntervalSize
  <2>2. IsFiniteSet({e}) /\ Cardinality({e}) = 1
    BY FS_Singleton
  <2>3. IsFiniteSet(taken) /\ Cardinality(taken) = Cardinality({e}) * Cardinality(1 .. k)
    BY <2>1, <2>2, FS_Product
  <2> QED
    BY <1>1, <2>1, <2>2, <2>3
<1>5. before \cap taken = {}
  BY <1>1 DEF SpansOf
<1>6. after = before \cup taken
  <2>1. ASSUME NEW s \in Exporters \X (1 .. Batch)
        PROVE  s[2] <= other[s[1]] <=> s[2] <= of[s[1]] \/ s \in taken
    <3>1. s[1] \in Exporters /\ s[2] \in 1 .. Batch /\ s = <<s[1], s[2]>>
      OBVIOUS
    <3>2. CASE s[1] = e
      <4>1. other[s[1]] = k
        BY <3>2
      <4>2. s \in taken <=> s[2] \in 1 .. k
        BY <3>1, <3>2
      <4> QED
        BY <1>1, <3>1, <3>2, <4>1, <4>2
    <3>3. CASE s[1] # e
      BY <3>1, <3>3
    <3> QED
      BY <3>2, <3>3
  <2>2. taken \subseteq Exporters \X (1 .. Batch)
    BY <1>1
  <2> QED
    BY <2>1, <2>2 DEF SpansOf
<1>7. Cardinality(before) \in Nat /\ Cardinality(after) = Cardinality(before) + k
  <2>1. Cardinality(before \cap taken) = 0
    BY <1>5, FS_EmptySet
  <2>2. /\ Cardinality(before) \in Nat
        /\ Cardinality(before \cup taken)
              = Cardinality(before) + Cardinality(taken) - Cardinality(before \cap taken)
    BY <1>3, <1>4, FS_Union, FS_CardinalityType
  <2>3. \A m, n, o \in Nat : n = k /\ o = 0 => m + n - o = m + k
    BY <1>1
  <2>4. Cardinality(before \cup taken) = Cardinality(before) + k
    BY <1>1, <1>4, <2>1, <2>2, <2>3
  <2> QED
    BY <1>6, <2>2, <2>4
<1> QED
  BY <1>7

LEMMA DeliveryTaken ==
    ASSUME batches \in [Exporters -> 0 .. Batch], batches' \in [Exporters -> 0 .. Batch],
           NEW e \in Exporters, NEW k \in 0 .. Batch, batches[e] = 0, batches'[e] = k,
           \A x \in Exporters \ {e} : batches'[x] = batches[x]
    PROVE  /\ Cardinality(InDelivery) \in Nat
           /\ Cardinality(InDelivery') = Cardinality(InDelivery) + k
<1>1. InDelivery = SpansOf(batches) /\ InDelivery' = SpansOf(batches')
  BY DEF InDelivery, SpansOf
<1> QED
  BY <1>1, DeliveryOf

\* A sum that stays: what is given is dropped by the filter, by the budget, or delivered.
LEMMA SpansSum ==
    ASSUME spans \in [Results -> Nat], SpansAccounted,
           NEW given \in Nat, NEW clean \in Nat, NEW accepted \in Nat,
           spans'["given"] = spans["given"] + given,
           spans'["filtered"] = spans["filtered"] + (given - clean),
           spans'["budget_dropped"] = spans["budget_dropped"] + (clean - accepted),
           spans'["attempted"] = spans["attempted"], spans'["failed"] = spans["failed"],
           Cardinality(InDelivery) \in Nat,
           Cardinality(InDelivery') = Cardinality(InDelivery) + accepted
    PROVE  SpansAccounted'
<1>1. /\ spans["given"] \in Nat /\ spans["filtered"] \in Nat /\ spans["budget_dropped"] \in Nat
      /\ spans["attempted"] \in Nat /\ spans["failed"] \in Nat
  BY DEF Results
<1>2. spans["given"] = spans["filtered"] + spans["budget_dropped"] + spans["attempted"]
                       + spans["failed"] + Cardinality(InDelivery)
  BY DEF SpansAccounted
<1>3. spans'["given"] = spans'["filtered"] + spans'["budget_dropped"] + spans'["attempted"]
                        + spans'["failed"] + Cardinality(InDelivery')
  BY <1>1, <1>2
<1> QED
  BY <1>3 DEF SpansAccounted

\* The spans that export counts: given, dropped by the filter or by the budget, or in the
\* batch of the thread.
LEMMA ExportCounted ==
    ASSUME BudgetInv, NEW e \in Exporters, batches[e] = 0,
           NEW given \in Nat, NEW clean \in Nat, NEW accepted \in Nat,
           clean <= given, given <= Batch, accepted <= clean,
           batches' = [batches EXCEPT ![e] = accepted],
           spans' = [spans EXCEPT !["given"] = @ + given,
                                  !["filtered"] = @ + (given - clean),
                                  !["budget_dropped"] = @ + (clean - accepted)]
    PROVE  /\ batches' \in [Exporters -> 0 .. Batch]
           /\ spans' \in [Results -> Nat]
           /\ SpansAccounted'
<1>1. /\ batches \in [Exporters -> 0 .. Batch] /\ spans \in [Results -> Nat]
      /\ given - clean \in Nat /\ clean - accepted \in Nat
      /\ Batch \in Nat /\ accepted \in 0 .. Batch
  BY BudgetAssumption DEF BudgetInv, SpanTypeOK
<1>2. /\ spans["given"] \in Nat /\ spans["filtered"] \in Nat /\ spans["budget_dropped"] \in Nat
      /\ spans["attempted"] \in Nat /\ spans["failed"] \in Nat
  BY <1>1 DEF Results
<1>3. /\ spans' \in [Results -> Nat]
      /\ spans'["given"] = spans["given"] + given
      /\ spans'["filtered"] = spans["filtered"] + (given - clean)
      /\ spans'["budget_dropped"] = spans["budget_dropped"] + (clean - accepted)
      /\ spans'["attempted"] = spans["attempted"] /\ spans'["failed"] = spans["failed"]
  BY <1>1 DEF Results
<1>4. /\ batches' \in [Exporters -> 0 .. Batch] /\ batches'[e] = accepted
      /\ \A x \in Exporters \ {e} : batches'[x] = batches[x]
  BY <1>1
<1>5. /\ Cardinality(InDelivery) \in Nat
      /\ Cardinality(InDelivery') = Cardinality(InDelivery) + accepted
  BY <1>1, <1>4, DeliveryTaken
<1>6. SpansAccounted'
  BY <1>1, <1>3, <1>5, SpansSum DEF BudgetInv
<1> QED
  BY <1>3, <1>4, <1>6

LEMMA Joined ==
    ASSUME NEW s \in Seq(Nat), NEW t \in Seq(Nat)
    PROVE  s \o t \in Seq(Nat) /\ Len(s \o t) = Len(s) + Len(t)
OBVIOUS

LEMMA SpansExported ==
    ASSUME BudgetInv, NEW e \in Exporters, NEW given \in 1 .. Batch, NEW clean \in 0 .. given,
           Export(e, given, clean)
    PROVE  BudgetInv'
<1> PICK young : young = Young(attempts)
  OBVIOUS
<1> PICK accepted : accepted = Lesser(clean, Rest(young))
  OBVIOUS
<1>1. /\ clock \in Nat /\ Batch \in Nat /\ Budget \in Nat /\ clean \in Nat /\ given \in Nat
      /\ clean <= given /\ given <= Batch
  BY BudgetAssumption DEF BudgetInv, SpanTypeOK
<1>2. young \in Seq(Nat) /\ Len(young) \in Nat /\ Len(young) <= Budget
  <2>1. /\ Since(attempts, clock, Hour) \in Seq(Nat)
        /\ Len(Since(attempts, clock, Hour)) <= Len(attempts)
    <3>1. attempts \in Seq(Nat) /\ Hour \in Nat /\ Len(attempts) \in Nat
      BY BudgetAssumption DEF BudgetInv, SpanTypeOK
    <3>2. /\ Since(attempts, clock, Hour) \in Seq(Nat)
          /\ FirstSince(attempts, clock, Hour) \in 1 .. Len(attempts) + 1
          /\ Len(Since(attempts, clock, Hour))
                = (Len(attempts) + 1) - FirstSince(attempts, clock, Hour)
      BY <1>1, <3>1, SinceSuffix
    <3> QED
      BY <3>1, <3>2
  <2>2. Len(attempts) \in Nat /\ Len(attempts) <= Budget
    BY DEF BudgetInv, SpanTypeOK
  <2>3. young = Since(attempts, clock, Hour)
    BY DEF Young
  <2>4. Len(young) \in Nat
    BY <2>1, <2>3
  <2> QED
    BY <1>1, <2>1, <2>2, <2>3, <2>4
<1>3. /\ accepted \in Nat /\ accepted <= clean /\ Len(young) + accepted <= Budget
  <2>1. Lesser(Budget, Len(young)) = Len(young)
    BY <1>1, <1>2 DEF Lesser
  <2>2. accepted = Lesser(clean, Budget - Len(young))
    BY <2>1 DEF Rest
  <2>3. \A n \in Nat : n <= Budget =>
            /\ Lesser(clean, Budget - n) \in Nat /\ Lesser(clean, Budget - n) <= clean
            /\ n + Lesser(clean, Budget - n) <= Budget
    BY <1>1 DEF Lesser
  <2> QED
    BY <1>2, <2>2, <2>3
<1>4. /\ batches[e] = 0
      /\ attempts' = young \o [i \in 1 .. accepted |-> clock]
      /\ batches' = [batches EXCEPT ![e] = accepted]
      /\ sent' = Since(sent, clock, Hour) \o [i \in 1 .. accepted |-> clock]
      /\ spans' = [spans EXCEPT !["given"] = @ + given,
                                !["filtered"] = @ + (given - clean),
                                !["budget_dropped"] = @ + (clean - accepted)]
      /\ clock' = clock
  BY DEF Export
<1>5. /\ attempts' \in Seq(Nat) /\ Len(attempts') = Len(young) + accepted
      /\ attempts' = sent'
  <2> PICK more : more = [i \in 1 .. accepted |-> clock]
    OBVIOUS
  <2>1. more \in Seq(Nat) /\ Len(more) = accepted
    BY <1>1, <1>3
  <2>2. attempts' = young \o more /\ sent' = young \o more
    BY <1>4 DEF BudgetInv, Young
  <2>3. young \o more \in Seq(Nat) /\ Len(young \o more) = Len(young) + Len(more)
    BY <1>2, <2>1, Joined
  <2> QED
    BY <2>1, <2>2, <2>3
<1>6. /\ batches' \in [Exporters -> 0 .. Batch]
      /\ spans' \in [Results -> Nat]
      /\ SpansAccounted'
  BY <1>1, <1>3, <1>4, ExportCounted
<1> QED
  BY <1>1, <1>2, <1>3, <1>4, <1>5, <1>6 DEF BudgetInv, SpanTypeOK

LEMMA SpansDelivered ==
    ASSUME BudgetInv, NEW e \in Exporters, Deliver(e)
    PROVE  BudgetInv'
<1> PICK k \in 0 .. Batch : k = batches[e]
  BY DEF BudgetInv, SpanTypeOK
<1> PICK r \in {"attempted", "failed"} : spans' = [spans EXCEPT ![r] = @ + k]
  BY DEF Deliver
<1>1. /\ batches' = [batches EXCEPT ![e] = 0]
      /\ clock' = clock /\ attempts' = attempts /\ sent' = sent
  BY DEF Deliver
<1>2. k \in Nat /\ Batch \in Nat /\ batches \in [Exporters -> 0 .. Batch]
  BY BudgetAssumption DEF BudgetInv, SpanTypeOK
<1>3. /\ batches' \in [Exporters -> 0 .. Batch] /\ batches'[e] = 0
      /\ \A x \in Exporters \ {e} : batches[x] = batches'[x]
  BY <1>1, <1>2
<1>4. spans' \in [Results -> Nat]
  BY <1>2 DEF BudgetInv, SpanTypeOK, Results
<1>5. SpansAccounted'
  <2>1. /\ Cardinality(InDelivery') \in Nat
        /\ Cardinality(InDelivery) = Cardinality(InDelivery') + k
    <3>1. InDelivery = SpansOf(batches) /\ InDelivery' = SpansOf(batches')
      BY DEF InDelivery, SpansOf
    <3> QED
      BY <1>2, <1>3, <3>1, DeliveryOf
  <2>2. /\ \A q \in Results \ {r} : spans'[q] = spans[q]
        /\ spans'[r] = spans[r] + k
    BY DEF BudgetInv, SpanTypeOK, Results
  <2>3. \A q \in Results : spans[q] \in Nat
    BY DEF BudgetInv, SpanTypeOK
  <2>4. spans["given"] = spans["filtered"] + spans["budget_dropped"] + spans["attempted"]
                         + spans["failed"] + Cardinality(InDelivery)
    BY DEF BudgetInv, SpansAccounted
  <2>5. CASE r = "attempted"
    <3>1. /\ spans'["given"] = spans["given"] /\ spans'["filtered"] = spans["filtered"]
          /\ spans'["budget_dropped"] = spans["budget_dropped"]
          /\ spans'["attempted"] = spans["attempted"] + k /\ spans'["failed"] = spans["failed"]
      BY <2>2, <2>5 DEF Results
    <3> QED
      BY <1>2, <2>1, <2>3, <2>4, <3>1 DEF SpansAccounted, Results
  <2>6. CASE r = "failed"
    <3>1. /\ spans'["given"] = spans["given"] /\ spans'["filtered"] = spans["filtered"]
          /\ spans'["budget_dropped"] = spans["budget_dropped"]
          /\ spans'["attempted"] = spans["attempted"] /\ spans'["failed"] = spans["failed"] + k
      BY <2>2, <2>6 DEF Results
    <3> QED
      BY <1>2, <2>1, <2>3, <2>4, <3>1 DEF SpansAccounted, Results
  <2> QED
    BY <2>5, <2>6
<1> QED
  BY <1>1, <1>3, <1>4, <1>5 DEF BudgetInv, SpanTypeOK

LEMMA SpansStep == BudgetInv /\ [SpanNext]_spanVars => BudgetInv'
<1> SUFFICES ASSUME BudgetInv, [SpanNext]_spanVars
             PROVE  BudgetInv'
  OBVIOUS
<1>1. CASE SpanTick
  BY <1>1 DEF SpanTick, BudgetInv, SpanTypeOK, SpansAccounted, InDelivery
<1>2. CASE UNCHANGED spanVars
  BY <1>2 DEF spanVars, BudgetInv, SpanTypeOK, SpansAccounted, InDelivery
<1> QED
  BY <1>1, <1>2, SpansExported, SpansDelivered DEF SpanNext

LEMMA SpansSafe == BudgetInv => SpansInBudget
<1> SUFFICES ASSUME BudgetInv
             PROVE  HourlyBudget
  BY DEF SpansInBudget, BudgetInv
<1>1. Len(sent) \in Nat /\ Len(sent) <= Budget /\ Budget \in Nat /\ DOMAIN sent = 1 .. Len(sent)
  BY BudgetAssumption DEF BudgetInv, SpanTypeOK
<1>2. IsFiniteSet(1 .. Len(sent)) /\ Cardinality(1 .. Len(sent)) = Len(sent)
  BY <1>1, IntervalSize
<1> DEFINE counted == {i \in DOMAIN sent : sent[i] + Hour > clock}
<1>3. counted \subseteq 1 .. Len(sent)
  BY <1>1
<1>4. Cardinality(counted) \in Nat /\ Cardinality(counted) <= Cardinality(1 .. Len(sent))
  <2>1. IsFiniteSet(counted)
    BY <1>2, <1>3, FS_Subset
  <2> QED
    BY <1>2, <1>3, <2>1, FS_Subset, FS_CardinalityType
<1> QED
  BY <1>1, <1>2, <1>4 DEF HourlyBudget

\* export: in no period of an hour are more spans sent than the budget, whatever fails and
\* however the threads follow each other, and every span is counted by its fate.
THEOREM BudgetKept == FairSpec => []SpansInBudget
<1>1. Init => BudgetInv
  BY SpansStart DEF Init
<1>2. BudgetInv /\ [Next]_vars => BudgetInv'
  <2>1. [Next]_vars => [SpanNext]_spanVars
    BY DEF Next, OthersStay, vars
  <2> QED
    BY <2>1, SpansStep
<1> QED
  BY <1>1, <1>2, SpansSafe, PTL DEF FairSpec

-----------------------------------------------------------------------------
(* The limit of the dashboard.                                             *)

Windows == [start : Nat, count : Nat]

LimitTypeOK ==
    /\ monotonic \in Nat
    /\ users \in Seq(Members)
    /\ windows \in [Members -> Windows]
    /\ stay \in [Members -> Nat]
    /\ admits \in [Members -> Seq(Admission)]

\* What the table lets through because it forgot a member k times.
Allowed(k) == Limit * k

\* Of the first `before` admissions those that count when a window starts are less than the
\* limit, but for what was forgotten between them and the stay of the window.
BurstBefore(history, before, start, current) ==
    \A i \in 1 .. before :
        history[i].at + Window > start =>
            (before + 1) - i <= (Limit - 1) + Allowed(current - history[i].stay)

\* A window in the current stay and the admissions of its member: the last ones are those of
\* the window, the first of them at its start.
WindowSound(start, count, current, history) ==
    /\ count \in 1 .. Limit /\ count <= Len(history)
    /\ history[(Len(history) + 1) - count].at = start
    /\ history[(Len(history) + 1) - count].stay = current
    /\ BurstBefore(history, Len(history) - count, start, current)

\* The admissions of a member are in order, and bounded in each period that ends with one.
HistorySound(history, moment, current) ==
    /\ \A i \in 1 .. Len(history) : history[i].at <= moment /\ history[i].stay <= current
    /\ \A i, j \in 1 .. Len(history) :
          i <= j => history[i].at <= history[j].at /\ history[i].stay <= history[j].stay
    /\ \A i, j \in 1 .. Len(history) :
          i <= j /\ history[i].at + Window > history[j].at =>
              (j + 1) - i <= (2 * Limit - 1) + Allowed(history[j].stay - history[i].stay)

\* The last stay of a member that the table does not know is over.
StayOver(history, current) == history # <<>> => history[Len(history)].stay < current

\* The time of the last admission of u.
LastSeen(u) == admits[u][Len(admits[u])].at

\* The members of the table are in the order of their last admissions, and who is not among
\* them but was admitted was seen before them, and the table is full.
MembersSound ==
    /\ IsInjective(users) /\ Len(users) <= Table
    /\ \A i \in 1 .. Len(users) : admits[users[i]] # <<>>
    /\ \A i, j \in 1 .. Len(users) : i <= j => LastSeen(users[i]) <= LastSeen(users[j])
    /\ \A u \in Members :
          ~Known(u) /\ admits[u] # <<>> =>
              /\ Len(users) = Table
              /\ \A i \in 1 .. Len(users) : LastSeen(u) <= LastSeen(users[i])

LimitInv ==
    /\ LimitTypeOK
    /\ MembersSound
    /\ \A u \in Members :
          /\ HistorySound(admits[u], monotonic, stay[u])
          /\ IF Known(u)
             THEN WindowSound(windows[u].start, windows[u].count, stay[u], admits[u])
             ELSE StayOver(admits[u], stay[u])

\* A sequence of which one position is cut out.
LEMMA CutAt ==
    ASSUME NEW S, NEW keys \in Seq(S), NEW at \in 1 .. Len(keys)
    PROVE  /\ RemoveAt(keys, at) \in Seq(S) /\ Len(RemoveAt(keys, at)) = Len(keys) - 1
           /\ \A i \in 1 .. Len(keys) - 1 :
                 RemoveAt(keys, at)[i] = keys[IF i <= at - 1 THEN i ELSE i + 1]
<1> DEFINE left  == SubSeq(keys, 1, at - 1)
           right == SubSeq(keys, at + 1, Len(keys))
<1>1. Len(keys) \in Nat /\ at \in Nat /\ at >= 1 /\ at <= Len(keys)
  OBVIOUS
<1>2. /\ left \in Seq(S) /\ Len(left) = at - 1
      /\ \A i \in 1 .. at - 1 : left[i] = keys[i]
  BY <1>1
<1>3. /\ right \in Seq(S) /\ Len(right) = Len(keys) - at
      /\ \A i \in 1 .. Len(keys) - at : right[i] = keys[at + i]
  BY <1>1
<1>4. RemoveAt(keys, at) = left \o right
  BY DEF RemoveAt
<1> HIDE DEF left, right
<1>5. /\ left \o right \in Seq(S) /\ Len(left \o right) = Len(left) + Len(right)
      /\ \A i \in 1 .. Len(left) + Len(right) :
            (left \o right)[i] = IF i <= Len(left) THEN left[i] ELSE right[i - Len(left)]
  BY <1>2, <1>3, ConcatProperties
<1>6. Len(left) + Len(right) = Len(keys) - 1
  BY <1>1, <1>2, <1>3
<1>7. ASSUME NEW i \in 1 .. Len(keys) - 1
      PROVE  (left \o right)[i] = keys[IF i <= at - 1 THEN i ELSE i + 1]
  <2>1. CASE i <= at - 1
    BY <1>1, <1>2, <1>5, <1>6, <2>1
  <2>2. CASE ~(i <= at - 1)
    <3>1. i - (at - 1) \in 1 .. Len(keys) - at /\ at + (i - (at - 1)) = i + 1
      BY <1>1, <2>2
    <3> QED
      BY <1>2, <1>3, <1>5, <1>6, <2>2, <3>1, ZenonT(40)
  <2> QED
    BY <2>1, <2>2
<1> QED
  BY <1>4, <1>5, <1>6, <1>7

\* The order of which one position is cut out and a key added.
LEMMA CutAndAppended ==
    ASSUME NEW S, NEW keys \in Seq(S), NEW k \in S, NEW at \in 1 .. Len(keys)
    PROVE  /\ Append(RemoveAt(keys, at), k) \in Seq(S)
           /\ Len(Append(RemoveAt(keys, at), k)) = Len(keys)
           /\ Append(RemoveAt(keys, at), k)[Len(keys)] = k
           /\ \A i \in 1 .. Len(keys) - 1 :
                 Append(RemoveAt(keys, at), k)[i] = keys[IF i <= at - 1 THEN i ELSE i + 1]
<1>1. Len(keys) \in Nat
  OBVIOUS
<1>2. /\ RemoveAt(keys, at) \in Seq(S) /\ Len(RemoveAt(keys, at)) = Len(keys) - 1
      /\ \A i \in 1 .. Len(keys) - 1 :
            RemoveAt(keys, at)[i] = keys[IF i <= at - 1 THEN i ELSE i + 1]
  BY CutAt
<1>3. \A cut \in Seq(S) : Len(cut) = Len(keys) - 1 =>
         /\ Append(cut, k) \in Seq(S) /\ Len(Append(cut, k)) = Len(keys)
         /\ Append(cut, k)[Len(keys)] = k
         /\ \A i \in 1 .. Len(keys) - 1 : Append(cut, k)[i] = cut[i]
  <2> SUFFICES ASSUME NEW cut \in Seq(S), Len(cut) = Len(keys) - 1
               PROVE  /\ Append(cut, k) \in Seq(S) /\ Len(Append(cut, k)) = Len(keys)
                      /\ Append(cut, k)[Len(keys)] = k
                      /\ \A i \in 1 .. Len(keys) - 1 : Append(cut, k)[i] = cut[i]
    OBVIOUS
  <2>1. Len(cut) + 1 = Len(keys)
    BY <1>1
  <2>2. /\ Append(cut, k) \in Seq(S) /\ Len(Append(cut, k)) = Len(cut) + 1
        /\ \A i \in 1 .. Len(cut) : Append(cut, k)[i] = cut[i]
        /\ Append(cut, k)[Len(cut) + 1] = k
    BY AppendProperties
  <2> QED
    BY <2>1, <2>2
<1> QED
  BY <1>2, <1>3

\* An order of which one position moved to the end, if it has no key twice.
LEMMA PlacesDiffer ==
    ASSUME NEW keys, NEW moved, NEW n \in Nat, NEW at \in 1 .. n,
           \A i, j \in 1 .. n : keys[i] = keys[j] => i = j,
           DOMAIN moved = 1 .. n, moved[n] = keys[at],
           \A i \in 1 .. n - 1 : moved[i] = keys[IF i <= at - 1 THEN i ELSE i + 1]
    PROVE  IsInjective(moved)
<1> DEFINE Place(i) == IF i = n THEN at ELSE IF i <= at - 1 THEN i ELSE i + 1
<1>1. \A i \in 1 .. n : Place(i) \in 1 .. n /\ moved[i] = keys[Place(i)]
  OBVIOUS
<1>2. \A i, j \in 1 .. n : Place(i) = Place(j) => i = j
  OBVIOUS
<1> HIDE DEF Place
<1>3. ASSUME NEW i \in 1 .. n, NEW j \in 1 .. n, moved[i] = moved[j]
      PROVE  i = j
  <2>1. keys[Place(i)] = keys[Place(j)]
    BY <1>1, <1>3
  <2> QED
    BY <1>1, <1>2, <2>1
<1> QED
  BY <1>3 DEF IsInjective

\* The order of the keys stays one without repetition.
LEMMA MovedInjective ==
    ASSUME NEW S, NEW keys \in Seq(S), NEW k \in S, IsInjective(keys)
    PROVE  IsInjective(MovedToEnd(keys, k))
<1>1. /\ Len(keys) \in Nat /\ DOMAIN keys = 1 .. Len(keys)
      /\ \A i, j \in 1 .. Len(keys) : keys[i] = keys[j] => i = j
  BY DEF IsInjective
<1>2. CASE Contains(keys, k)
  <2>1. ASSUME NEW at \in 1 .. Len(keys), keys[at] = k
        PROVE  IsInjective(Append(RemoveAt(keys, at), k))
    <3>1. /\ Append(RemoveAt(keys, at), k) \in Seq(S)
          /\ Len(Append(RemoveAt(keys, at), k)) = Len(keys)
          /\ Append(RemoveAt(keys, at), k)[Len(keys)] = k
          /\ \A i \in 1 .. Len(keys) - 1 :
                Append(RemoveAt(keys, at), k)[i] = keys[IF i <= at - 1 THEN i ELSE i + 1]
      BY CutAndAppended
    <3>2. DOMAIN Append(RemoveAt(keys, at), k) = 1 .. Len(keys)
      BY <3>1, LenProperties
    <3> QED
      BY <1>1, <2>1, <3>1, <3>2, PlacesDiffer
  <2>2. /\ (CHOOSE i \in DOMAIN keys : keys[i] = k) \in 1 .. Len(keys)
        /\ keys[CHOOSE i \in DOMAIN keys : keys[i] = k] = k
    BY <1>1, <1>2 DEF Contains
  <2> QED
    BY <1>2, <2>1, <2>2, SMTT(20) DEF MovedToEnd
<1>3. CASE ~Contains(keys, k)
  <2>1. MovedToEnd(keys, k) = Append(keys, k)
    BY <1>3 DEF MovedToEnd
  <2>2. /\ Append(keys, k) \in Seq(S) /\ Len(Append(keys, k)) = Len(keys) + 1
        /\ \A i \in 1 .. Len(keys) : Append(keys, k)[i] = keys[i]
        /\ Append(keys, k)[Len(keys) + 1] = k
    BY AppendProperties
  <2>3. DOMAIN Append(keys, k) = 1 .. Len(keys) + 1
    BY <2>2, LenProperties
  <2>4. \A i \in 1 .. Len(keys) : keys[i] # k
    BY <1>1, <1>3 DEF Contains
  <2> QED
    BY <1>1, <2>1, <2>2, <2>3, <2>4 DEF IsInjective
<1> QED
  BY <1>2, <1>3

\* The keys of an order but the newest are among those given.
Keeps(moved, keys) ==
    \A i \in 1 .. Len(moved) - 1 : \E j \in 1 .. Len(keys) : moved[i] = keys[j]

\* The positions of the moved order, and where the keys in them were.
LEMMA MovedOrder ==
    ASSUME NEW S, NEW keys \in Seq(S), NEW k \in S
    PROVE  /\ MovedToEnd(keys, k) \in Seq(S)
           /\ Len(MovedToEnd(keys, k)) \in Nat \ {0}
           /\ MovedToEnd(keys, k)[Len(MovedToEnd(keys, k))] = k
           /\ Keeps(MovedToEnd(keys, k), keys)
<1>1. Len(keys) \in Nat /\ DOMAIN keys = 1 .. Len(keys)
  OBVIOUS
<1>2. CASE Contains(keys, k)
  <2> PICK at \in 1 .. Len(keys) : MovedToEnd(keys, k) = Append(RemoveAt(keys, at), k)
    <3>1. (CHOOSE i \in DOMAIN keys : keys[i] = k) \in 1 .. Len(keys)
      BY <1>1, <1>2 DEF Contains
    <3> QED
      BY <1>2, <3>1 DEF MovedToEnd
  <2>1. \A i \in 1 .. Len(keys) - 1 : (IF i <= at - 1 THEN i ELSE i + 1) \in 1 .. Len(keys)
    BY <1>1
  <2>2. /\ MovedToEnd(keys, k) \in Seq(S) /\ Len(MovedToEnd(keys, k)) = Len(keys)
        /\ MovedToEnd(keys, k)[Len(keys)] = k
        /\ \A i \in 1 .. Len(keys) - 1 :
              MovedToEnd(keys, k)[i] = keys[IF i <= at - 1 THEN i ELSE i + 1]
    BY CutAndAppended
  <2>3. \A i \in 1 .. Len(keys) - 1 :
           \E j \in 1 .. Len(keys) : MovedToEnd(keys, k)[i] = keys[j]
    BY <2>1, <2>2
  <2>4. Len(keys) \in Nat \ {0}
    BY <1>1
  <2> QED
    BY <2>2, <2>3, <2>4 DEF Keeps
<1>3. CASE ~Contains(keys, k)
  BY <1>1, <1>3 DEF MovedToEnd, Keeps
<1> QED
  BY <1>2, <1>3

\* A window is open for its length.
Open(start, moment) == moment < start + Window

\* What the bound grows by.
LEMMA AllowedGrows ==
    /\ Limit \in Nat /\ Limit >= 1 /\ Window \in Nat /\ Window >= 1 /\ Table \in Nat /\ Table >= 1
    /\ Allowed(0) = 0
    /\ \A k \in Nat : Allowed(k) \in Nat
    /\ \A k, l \in Nat : k < l => Allowed(k) + Limit <= Allowed(l)
<1>1. Limit \in Nat /\ Limit >= 1 /\ Window \in Nat /\ Window >= 1 /\ Table \in Nat /\ Table >= 1
  BY LimitAssumption
<1>2. Allowed(0) = 0 /\ \A k \in Nat : Allowed(k) \in Nat
  BY <1>1, SMTT(20) DEF Allowed
<1>3. ASSUME NEW k \in Nat, NEW l \in Nat, k < l
      PROVE  Allowed(k) + Limit <= Allowed(l)
  <2> PICK d \in Nat : l = (k + 1) + d
    <3>1. l - (k + 1) \in Nat /\ l = (k + 1) + (l - (k + 1))
      BY <1>3
    <3> QED
      BY <3>1
  <2>1. Limit * ((k + 1) + d) = Limit * k + Limit + Limit * d
    BY <1>1, SMTT(20)
  <2>2. Limit * d >= 0 /\ Limit * d \in Nat /\ Limit * k \in Nat
    BY <1>1, SMTT(20)
  <2> QED
    BY <1>1, <2>1, <2>2 DEF Allowed
<1> QED
  BY <1>1, <1>2, <1>3

LEMMA AdmissionParts ==
    ASSUME NEW history \in Seq(Admission)
    PROVE  /\ Len(history) \in Nat
           /\ \A i \in 1 .. Len(history) : history[i].at \in Nat /\ history[i].stay \in Nat
<1>1. \A i \in 1 .. Len(history) : history[i] \in Admission
  OBVIOUS
<1> QED
  BY <1>1 DEF Admission

\* The admissions and one more.
Grown(history, moment, current, long) ==
    /\ long \in Seq(Admission)
    /\ Len(long) = Len(history) + 1
    /\ \A i \in 1 .. Len(history) : long[i] = history[i]
    /\ long[Len(history) + 1] = [at |-> moment, stay |-> current]

LEMMA GrownParts ==
    ASSUME NEW history \in Seq(Admission), NEW moment, NEW current, NEW long,
           Grown(history, moment, current, long), NEW n \in Nat, n = Len(history)
    PROVE  /\ Limit \in Nat /\ Limit >= 1 /\ Window \in Nat /\ Window >= 1
           /\ Len(long) = n + 1 /\ \A i \in 1 .. n : long[i] = history[i]
           /\ long[n + 1].at = moment /\ long[n + 1].stay = current
<1>1. /\ Len(long) = n + 1 /\ \A i \in 1 .. n : long[i] = history[i]
      /\ long[n + 1] = [at |-> moment, stay |-> current]
  BY DEF Grown
<1> QED
  BY <1>1, AllowedGrows

LEMMA GrownSound ==
    ASSUME NEW history \in Seq(Admission), NEW moment \in Nat, NEW current \in Nat, NEW long,
           Grown(history, moment, current, long), HistorySound(history, moment, current),
           NEW start \in Nat, start <= moment,
           NEW count \in Nat, WindowSound(start, count, current, long)
    PROVE  HistorySound(long, moment, current)
<1> PICK n \in Nat : n = Len(history)
  OBVIOUS
<1>1. /\ Limit \in Nat /\ Limit >= 1 /\ Window \in Nat /\ Window >= 1
      /\ Len(long) = n + 1
      /\ \A i \in 1 .. n : long[i] = history[i]
      /\ long[n + 1].at = moment /\ long[n + 1].stay = current
  BY GrownParts
<1>2. \A i \in 1 .. n : /\ history[i].at \in Nat /\ history[i].at <= moment
                        /\ history[i].stay \in Nat /\ history[i].stay <= current
  BY AdmissionParts DEF HistorySound
<1>3. \A i \in 1 .. n + 1 : long[i].at <= moment /\ long[i].stay <= current
                            /\ long[i].at \in Nat /\ long[i].stay \in Nat
  <2> TAKE i \in 1 .. n + 1
  <2>1. CASE i = n + 1
    BY <1>1, <2>1
  <2>2. CASE i # n + 1
    <3>1. i \in 1 .. n
      BY <2>2
    <3> QED
      BY <1>1, <1>2, <3>1
  <2> QED
    BY <2>1, <2>2
<1>4. ASSUME NEW i \in 1 .. n + 1, NEW j \in 1 .. n + 1, i <= j
      PROVE  long[i].at <= long[j].at /\ long[i].stay <= long[j].stay
  <2>1. CASE j = n + 1
    BY <1>1, <1>3, <2>1
  <2>2. CASE j # n + 1
    <3>1. i \in 1 .. n /\ j \in 1 .. n
      BY <1>4, <2>2
    <3> QED
      BY <1>1, <1>4, <3>1 DEF HistorySound
  <2> QED
    BY <2>1, <2>2
<1>5. ASSUME NEW i \in 1 .. n + 1, long[i].at + Window > moment
      PROVE  (n + 2) - i <= (2 * Limit - 1) + Allowed(current - long[i].stay)
  <2>1. current - long[i].stay \in Nat
    BY <1>3
  <2> PICK more \in Nat : more = Allowed(current - long[i].stay)
    BY <2>1, AllowedGrows
  <2>2. count \in 1 .. Limit /\ count <= n + 1
    BY <1>1 DEF WindowSound
  <2>3. CASE i <= (n + 1) - count
    <3>1. long[i].at + Window > start
      BY <1>1, <1>3, <1>5
    <3>2. ((n + 1) - count) + 1 - i <= (Limit - 1) + more
      <4>1. i \in 1 .. (n + 1) - count
        BY <2>2, <2>3
      <4> QED
        BY <1>1, <3>1, <4>1 DEF WindowSound, BurstBefore
    <3>3. (n + 2) - i <= (2 * Limit - 1) + more
      BY <1>1, <2>2, <3>2, SMTT(30)
    <3> QED
      BY <3>3
  <2>4. CASE ~(i <= (n + 1) - count)
    <3>1. (n + 2) - i <= (2 * Limit - 1) + more
      BY <1>1, <2>2, <2>4
    <3> QED
      BY <3>1
  <2> QED
    BY <2>3, <2>4
<1>6. ASSUME NEW i \in 1 .. n + 1, NEW j \in 1 .. n + 1, i <= j, long[i].at + Window > long[j].at
      PROVE  (j + 1) - i <= (2 * Limit - 1) + Allowed(long[j].stay - long[i].stay)
  <2>1. CASE j = n + 1
    <3>1. (j + 1) - i = (n + 2) - i
      BY <2>1
    <3> QED
      BY <1>1, <1>5, <1>6, <2>1, <3>1
  <2>2. CASE j # n + 1
    <3>1. i \in 1 .. n /\ j \in 1 .. n
      BY <1>6, <2>2
    <3>2. long[i] = history[i] /\ long[j] = history[j]
      BY <1>1, <3>1
    <3> QED
      BY <1>6, <3>1, <3>2 DEF HistorySound
  <2> QED
    BY <2>1, <2>2
<1> QED
  BY <1>1, <1>3, <1>4, <1>6 DEF HistorySound

\* A request in a window that is open.
LEMMA GrownInWindow ==
    ASSUME NEW history \in Seq(Admission), NEW moment \in Nat, NEW current \in Nat, NEW long,
           Grown(history, moment, current, long),
           NEW start \in Nat, NEW count \in Nat, WindowSound(start, count, current, history),
           count < Limit
    PROVE  WindowSound(start, count + 1, current, long)
<1> PICK n \in Nat : n = Len(history)
  OBVIOUS
<1>1. /\ Limit \in Nat /\ Limit >= 1 /\ Len(long) = n + 1
      /\ \A i \in 1 .. n : long[i] = history[i]
      /\ count \in Nat /\ count >= 1 /\ count <= n
  BY AllowedGrows DEF Grown, WindowSound
<1>2. count + 1 \in 1 .. Limit /\ count + 1 <= n + 1
  BY <1>1
<1>3. ((n + 1) + 1) - (count + 1) = (n + 1) - count /\ (n + 1) - count \in 1 .. n
      /\ (n + 1) - (count + 1) = n - count
  BY <1>1
<1>4. \A i \in 1 .. n - count : long[i] = history[i]
  BY <1>1
<1>5. BurstBefore(long, n - count, start, current)
  BY <1>4 DEF WindowSound, BurstBefore
<1> QED
  BY <1>1, <1>2, <1>3, <1>5 DEF WindowSound

\* A request that opens a window after the last one of the same stay.
LEMMA GrownAnew ==
    ASSUME NEW history \in Seq(Admission), NEW moment \in Nat, NEW current \in Nat, NEW long,
           Grown(history, moment, current, long), HistorySound(history, moment, current),
           NEW start \in Nat, NEW count \in Nat, WindowSound(start, count, current, history),
           ~Open(start, moment)
    PROVE  WindowSound(moment, 1, current, long)
<1> PICK n \in Nat : n = Len(history)
  OBVIOUS
<1>0. count \in Nat /\ count >= 1 /\ count <= n /\ count <= Limit
  BY AllowedGrows DEF WindowSound
<1>6. /\ Limit \in Nat /\ Limit >= 1 /\ Window \in Nat /\ Window >= 1
      /\ Len(long) = n + 1 /\ \A i \in 1 .. n : long[i] = history[i]
      /\ long[n + 1].at = moment /\ long[n + 1].stay = current
  BY GrownParts, SMTT(30)
<1>1. /\ Limit \in Nat /\ Limit >= 1 /\ Window \in Nat /\ Len(long) = n + 1
      /\ \A i \in 1 .. n : long[i] = history[i]
      /\ long[n + 1].at = moment /\ long[n + 1].stay = current
      /\ count \in Nat /\ count >= 1 /\ count <= n /\ count <= Limit
  BY <1>0, <1>6
<1>2. \A i \in 1 .. n : /\ history[i].at \in Nat
                        /\ history[i].stay \in Nat /\ history[i].stay <= current
  BY AdmissionParts DEF HistorySound
<1>3. ASSUME NEW i \in 1 .. n, long[i].at + Window > moment
      PROVE  (n + 1) - i <= (Limit - 1) + Allowed(current - long[i].stay)
  <2>1. current - history[i].stay \in Nat
    BY <1>2
  <2> PICK more \in Nat : more = Allowed(current - history[i].stay)
    BY <2>1, AllowedGrows
  <2>2. history[i].at > start
    BY <1>1, <1>2, <1>3 DEF Open
  <2>3. (n + 1) - count \in 1 .. n /\ history[(n + 1) - count].at = start
    BY <1>1 DEF WindowSound
  <2>4. ~(i <= (n + 1) - count)
    <3>1. i <= (n + 1) - count => history[i].at <= history[(n + 1) - count].at
      BY <2>3 DEF HistorySound
    <3> QED
      BY <1>2, <2>2, <2>3, <3>1
  <2>5. (n + 1) - i <= (Limit - 1) + more
    BY <1>1, <2>4
  <2> QED
    BY <1>1, <2>5
<1>4. BurstBefore(long, n, moment, current)
  BY <1>3 DEF BurstBefore
<1>5. /\ 1 \in 1 .. Limit /\ 1 <= n + 1 /\ ((n + 1) + 1) - 1 = n + 1 /\ (n + 1) - 1 = n
  BY <1>1
<1> QED
  BY <1>1, <1>4, <1>5 DEF WindowSound

\* The first request of a stay.
LEMMA GrownOnReturn ==
    ASSUME NEW history \in Seq(Admission), NEW moment \in Nat, NEW current \in Nat, NEW long,
           Grown(history, moment, current, long), HistorySound(history, moment, current),
           StayOver(history, current)
    PROVE  WindowSound(moment, 1, current, long)
<1> PICK n \in Nat : n = Len(history)
  OBVIOUS
<1>1. /\ Limit \in Nat /\ Limit >= 1 /\ Window \in Nat /\ Window >= 1
      /\ Len(long) = n + 1 /\ \A i \in 1 .. n : long[i] = history[i]
      /\ long[n + 1].at = moment /\ long[n + 1].stay = current
  BY GrownParts
<1>2. \A i \in 1 .. n : /\ history[i].at \in Nat /\ history[i].at <= moment
                        /\ history[i].stay \in Nat /\ history[i].stay <= current
  BY AdmissionParts DEF HistorySound
<1>3. ASSUME NEW i \in 1 .. n, long[i].at + Window > moment
      PROVE  (n + 1) - i <= (Limit - 1) + Allowed(current - long[i].stay)
  <2>1. /\ n \in 1 .. n /\ i <= n /\ history[i].at + Window > history[n].at
        /\ history[n].stay \in Nat /\ history[n].stay < current
        /\ history[i].stay <= history[n].stay
    <3>1. n \in 1 .. n /\ i <= n
      OBVIOUS
    <3>2. history # <<>>
      BY <3>1
    <3>3. history[n].stay < current /\ history[i].stay <= history[n].stay
      BY <3>1, <3>2 DEF StayOver, HistorySound
    <3>4. history[i].at + Window > history[n].at
      BY <1>1, <1>2, <1>3, <3>1
    <3> QED
      BY <1>2, <3>1, <3>3, <3>4
  <2>2. (n + 1) - i <= (2 * Limit - 1) + Allowed(history[n].stay - history[i].stay)
    BY <2>1 DEF HistorySound
  <2>3. /\ history[n].stay - history[i].stay \in Nat /\ current - history[i].stay \in Nat
        /\ history[n].stay - history[i].stay < current - history[i].stay
    BY <1>2, <2>1
  <2> PICK less \in Nat, more \in Nat :
        /\ less = Allowed(history[n].stay - history[i].stay)
        /\ more = Allowed(current - history[i].stay)
        /\ less + Limit <= more
    BY <2>3, AllowedGrows
  <2>4. (n + 1) - i <= (Limit - 1) + more
    BY <1>1, <2>2, SMTT(30)
  <2> QED
    BY <1>1, <2>4
<1>4. BurstBefore(long, n, moment, current)
  BY <1>3 DEF BurstBefore
<1>5. /\ 1 \in 1 .. Limit /\ 1 <= n + 1 /\ ((n + 1) + 1) - 1 = n + 1 /\ (n + 1) - 1 = n
  BY <1>1
<1> QED
  BY <1>1, <1>4, <1>5 DEF WindowSound

\* Where the position of a suffix is in the whole.
LEMMA Shifted ==
    ASSUME NEW n \in Nat, NEW m \in Nat, NEW f \in Nat, f >= 1, f <= n + 1, m = (n + 1) - f,
           NEW i \in 1 .. m
    PROVE  (f - 1) + i \in 1 .. n
OBVIOUS

\* The admissions from one of them on.
Suffix(long, first, after) ==
    /\ after \in Seq(Admission)
    /\ first \in 1 .. Len(long) /\ Len(after) = (Len(long) + 1) - first
    /\ \A i \in 1 .. Len(after) : after[i] = long[(first - 1) + i]

LEMMA SuffixSound ==
    ASSUME NEW long \in Seq(Admission), NEW first, NEW after, Suffix(long, first, after),
           NEW moment \in Nat, NEW current \in Nat, HistorySound(long, moment, current),
           NEW start \in Nat, NEW count \in Nat, WindowSound(start, count, current, long),
           first <= (Len(long) + 1) - count
    PROVE  HistorySound(after, moment, current) /\ WindowSound(start, count, current, after)
<1> PICK n \in Nat : n = Len(long)
  OBVIOUS
<1> PICK m \in Nat : m = Len(after)
  <2>1. after \in Seq(Admission)
    BY DEF Suffix
  <2> QED
    BY <2>1
<1>1. /\ first \in 1 .. n /\ m = (n + 1) - first /\ first <= (n + 1) - count
      /\ \A i \in 1 .. m : after[i] = long[(first - 1) + i] /\ (first - 1) + i \in 1 .. n
  <2>1. first \in 1 .. n /\ m = (n + 1) - first
    BY DEF Suffix
  <2>2. \A i \in 1 .. m : (first - 1) + i \in 1 .. n
    BY <2>1
  <2> QED
    BY <2>1, <2>2 DEF Suffix
<1>2. \A i, j \in 1 .. m :
        /\ i <= j => (first - 1) + i <= (first - 1) + j
        /\ (((first - 1) + j) + 1) - ((first - 1) + i) = (j + 1) - i
  BY <1>1
<1>3. HistorySound(after, moment, current)
  <2>1. \A i \in 1 .. m : after[i].at <= moment /\ after[i].stay <= current
    BY <1>1 DEF HistorySound
  <2>2. \A i, j \in 1 .. m :
           i <= j => after[i].at <= after[j].at /\ after[i].stay <= after[j].stay
    BY <1>1, <1>2 DEF HistorySound
  <2>3. ASSUME NEW i \in 1 .. m, NEW j \in 1 .. m, i <= j, after[i].at + Window > after[j].at
        PROVE  (j + 1) - i <= (2 * Limit - 1) + Allowed(after[j].stay - after[i].stay)
    <3> PICK a \in 1 .. n, b \in 1 .. n :
          a <= b /\ after[i] = long[a] /\ after[j] = long[b] /\ (b + 1) - a = (j + 1) - i
      BY <1>1, <1>2, <2>3
    <3>1. (b + 1) - a <= (2 * Limit - 1) + Allowed(long[b].stay - long[a].stay)
      BY <2>3 DEF HistorySound
    <3> QED
      BY <3>1
  <2> QED
    BY <2>1, <2>2, <2>3 DEF HistorySound
<1>4. /\ count \in 1 .. Limit /\ count <= n /\ count >= 1 /\ Limit \in Nat
      /\ long[(n + 1) - count].at = start /\ long[(n + 1) - count].stay = current
  <2>1. /\ count \in 1 .. Limit /\ count <= n
        /\ long[(n + 1) - count].at = start /\ long[(n + 1) - count].stay = current
    BY DEF WindowSound
  <2> QED
    BY <2>1, AllowedGrows
<1> PICK f \in Nat : f = first /\ f >= 1 /\ f <= n /\ m = (n + 1) - f /\ f <= (n + 1) - count
  BY <1>1
<1>5. /\ count <= m /\ (m + 1) - count \in 1 .. m
      /\ (first - 1) + ((m + 1) - count) = (n + 1) - count
  <2>1. count <= m /\ count >= 1
    BY <1>4
  <2>2. (f - 1) + ((m + 1) - count) = (n + 1) - count
    OBVIOUS
  <2> QED
    BY <2>1, <2>2
<1>6. ASSUME NEW i \in 1 .. m - count, after[i].at + Window > start
      PROVE  ((m - count) + 1) - i <= (Limit - 1) + Allowed(current - after[i].stay)
  <2>1. i \in 1 .. m /\ (first - 1) + i \in 1 .. n - count
    <3>1. i \in Nat /\ i >= 1 /\ i <= m - count
      OBVIOUS
    <3>2. i <= m /\ (f - 1) + i >= 1 /\ (f - 1) + i <= n - count
      BY <3>1
    <3> QED
      BY <3>1, <3>2
  <2>2. ((n - count) + 1) - ((first - 1) + i) = ((m - count) + 1) - i
    <3>1. ((n - count) + 1) - ((f - 1) + i) = ((m - count) + 1) - i
      OBVIOUS
    <3> QED
      BY <3>1
  <2>3. after[i] = long[(first - 1) + i]
    BY <1>1, <2>1
  <2>4. ((n - count) + 1) - ((first - 1) + i)
           <= (Limit - 1) + Allowed(current - long[(first - 1) + i].stay)
    BY <1>6, <2>1, <2>3 DEF WindowSound, BurstBefore
  <2> QED
    BY <2>2, <2>3, <2>4
<1> QED
  BY <1>1, <1>3, <1>4, <1>5, <1>6 DEF WindowSound, BurstBefore

\* Where the admissions of the last window begin.
FirstIn(history, moment, first) ==
    /\ first \in 1 .. Len(history) + 1
    /\ \A j \in 1 .. first - 1 : history[j].at + Window <= moment
    /\ first <= Len(history) => history[first].at + Window > moment

\* What is left of a history from some position on.
LEMMA SuffixOf ==
    ASSUME NEW history \in Seq(Admission), NEW first \in 1 .. Len(history) + 1
    PROVE  /\ SubSeq(history, first, Len(history)) \in Seq(Admission)
           /\ Len(SubSeq(history, first, Len(history))) = (Len(history) + 1) - first
           /\ \A i \in 1 .. (Len(history) + 1) - first :
                 SubSeq(history, first, Len(history))[i] = history[(first - 1) + i]
<1> PICK n \in Nat : n = Len(history)
  OBVIOUS
<1> PICK left : left = SubSeq(history, first, n)
  OBVIOUS
<1>1. /\ first \in Int /\ n \in Int /\ first >= 1 /\ first <= n + 1
      /\ \A i \in first .. n : history[i] \in Admission
  OBVIOUS
<1>2. /\ left \in Seq(Admission)
      /\ Len(left) = IF first <= n THEN n - first + 1 ELSE 0
      /\ \A i \in 1 .. n - first + 1 : left[i] = history[first + i - 1]
  BY <1>1, SubSeqProperties
<1>3. Len(left) = (n + 1) - first
  BY <1>1, <1>2
<1>4. ASSUME NEW i \in 1 .. (n + 1) - first
      PROVE  left[i] = history[(first - 1) + i]
  <2>1. i \in 1 .. n - first + 1 /\ first + i - 1 = (first - 1) + i
    BY <1>1
  <2> QED
    BY <1>2, <2>1
<1> QED
  BY <1>2, <1>3, <1>4

LEMMA RecentFirst ==
    ASSUME LimitTypeOK, NEW u \in Members
    PROVE  /\ FirstIn(admits[u], monotonic, FirstRecent(u))
           /\ Recent(u) \in Seq(Admission)
           /\ Len(Recent(u)) = (Len(admits[u]) + 1) - FirstRecent(u)
           /\ \A i \in 1 .. Len(Recent(u)) : Recent(u)[i] = admits[u][(FirstRecent(u) - 1) + i]
<1> PICK history \in Seq(Admission) : history = admits[u]
  BY DEF LimitTypeOK
<1>1. /\ Len(history) \in Nat /\ monotonic \in Nat /\ Window \in Nat
      /\ \A i \in 1 .. Len(history) : history[i].at \in Nat
  BY AdmissionParts, AllowedGrows DEF LimitTypeOK
<1> PICK times \in Seq(Nat) :
      /\ times = Moments(history) /\ Len(times) = Len(history)
      /\ \A i \in 1 .. Len(history) : times[i] = history[i].at
  <2>1. Moments(history) = [i \in 1 .. Len(history) |-> history[i].at]
    BY DEF Moments
  <2> QED
    BY <1>1, <2>1
<1> PICK first : first = FirstSince(times, monotonic, Window)
  OBVIOUS
<1>2. /\ first \in 1 .. Len(history) + 1
      /\ \A j \in 1 .. first - 1 : times[j] + Window <= monotonic
      /\ first <= Len(history) => times[first] + Window > monotonic
  BY <1>1, SinceSuffix
<1>3. /\ \A j \in 1 .. first - 1 : j \in 1 .. Len(history)
      /\ first <= Len(history) => first \in 1 .. Len(history)
  BY <1>1, <1>2
<1>4. FirstIn(history, monotonic, first)
  BY <1>2, <1>3 DEF FirstIn
<1>5. first = FirstRecent(u) /\ Recent(u) = SubSeq(history, first, Len(history))
  BY DEF FirstRecent, Recent
<1>6. /\ SubSeq(history, first, Len(history)) \in Seq(Admission)
      /\ Len(SubSeq(history, first, Len(history))) = (Len(history) + 1) - first
      /\ \A i \in 1 .. (Len(history) + 1) - first :
            SubSeq(history, first, Len(history))[i] = history[(first - 1) + i]
  BY <1>1, <1>2, SuffixOf
<1> QED
  BY <1>4, <1>5, <1>6

LEMMA OneAppended ==
    ASSUME NEW kept \in Seq(Admission), NEW one \in Admission
    PROVE  /\ Append(kept, one) \in Seq(Admission)
           /\ Len(Append(kept, one)) = Len(kept) + 1
           /\ \A i \in 1 .. Len(kept) : Append(kept, one)[i] = kept[i]
           /\ Append(kept, one)[Len(kept) + 1] = one
BY AppendProperties

\* The admissions of u after another one are the last of those with it.
LEMMA RecentGrown ==
    ASSUME LimitTypeOK, NEW u \in Members, NEW long,
           Grown(admits[u], monotonic, stay[u], long)
    PROVE  Suffix(long, FirstRecent(u),
                  Append(Recent(u), [at |-> monotonic, stay |-> stay[u]]))
<1> PICK history \in Seq(Admission) : history = admits[u]
  BY DEF LimitTypeOK
<1> PICK kept \in Seq(Admission) : kept = Recent(u)
  BY RecentFirst
<1> PICK one \in Admission : one = [at |-> monotonic, stay |-> stay[u]]
  BY DEF LimitTypeOK, Admission
<1> PICK n \in Nat, m \in Nat : n = Len(history) /\ m = Len(kept)
  OBVIOUS
<1>0. /\ FirstRecent(u) \in 1 .. n + 1 /\ m = (n + 1) - FirstRecent(u)
      /\ \A i \in 1 .. m : kept[i] = history[(FirstRecent(u) - 1) + i]
  BY RecentFirst DEF FirstIn
<1> PICK first \in Nat :
      /\ first = FirstRecent(u) /\ first >= 1 /\ first <= n + 1 /\ m = (n + 1) - first
  BY <1>0
<1>1. \A i \in 1 .. m : kept[i] = history[(first - 1) + i]
  BY <1>0
<1>2. /\ Len(long) = n + 1 /\ long \in Seq(Admission)
      /\ \A i \in 1 .. n : long[i] = history[i]
      /\ long[n + 1] = one
  BY DEF Grown
<1> PICK after : after = Append(kept, one)
  OBVIOUS
<1>6. /\ after \in Seq(Admission) /\ Len(after) = m + 1
      /\ \A i \in 1 .. m : after[i] = kept[i]
      /\ after[m + 1] = one
  <2>1. /\ Append(kept, one) \in Seq(Admission)
        /\ Len(Append(kept, one)) = Len(kept) + 1
        /\ \A i \in 1 .. Len(kept) : Append(kept, one)[i] = kept[i]
        /\ Append(kept, one)[Len(kept) + 1] = one
    BY OneAppended
  <2> QED
    BY <2>1
<1>3. first \in 1 .. Len(long) /\ Len(after) = (Len(long) + 1) - first
  BY <1>2, <1>6
<1>4. ASSUME NEW i \in 1 .. m + 1
      PROVE  after[i] = long[(first - 1) + i]
  <2>1. CASE i = m + 1
    <3>1. (first - 1) + i = n + 1
      BY <2>1
    <3> QED
      BY <1>2, <1>6, <2>1, <3>1
  <2>2. CASE i # m + 1
    <3>1. i \in 1 .. m
      BY <2>2, SMTT(30)
    <3>2. (first - 1) + i \in 1 .. n
      BY <3>1, Shifted
    <3> QED
      BY <1>1, <1>2, <1>6, <3>1, <3>2
  <2> QED
    BY <2>1, <2>2
<1>5. Suffix(long, first, after)
  BY <1>2, <1>3, <1>4, <1>6 DEF Suffix
<1> QED
  BY <1>5

\* The admissions of a window that is open are of the last window.
LEMMA WindowStays ==
    ASSUME NEW history \in Seq(Admission), NEW moment \in Nat, NEW first,
           FirstIn(history, moment, first),
           NEW start \in Nat, NEW count \in Nat, NEW current \in Nat,
           WindowSound(start, count, current, history), Open(start, moment)
    PROVE  first <= (Len(history) + 1) - count
<1>1. /\ Len(history) \in Nat /\ first \in 1 .. Len(history) + 1
      /\ count \in Nat /\ start \in Nat /\ Window \in Nat /\ Limit \in Nat
      /\ count >= 1 /\ count <= Len(history)
  BY AllowedGrows DEF FirstIn, WindowSound
<1> SUFFICES ASSUME ~(first <= (Len(history) + 1) - count)
             PROVE  FALSE
  OBVIOUS
<1>2. (Len(history) + 1) - count \in 1 .. first - 1
  BY <1>1
<1>3. history[(Len(history) + 1) - count].at + Window <= moment
  BY <1>2 DEF FirstIn
<1>4. start + Window <= moment
  BY <1>3 DEF WindowSound
<1> QED
  BY <1>1, <1>4 DEF Open

LEMMA OneMore ==
    ASSUME NEW n \in Nat, NEW f \in Nat, NEW c \in Nat, f <= (n + 1) - c
    PROVE  c + 1 \in Nat /\ f <= ((n + 1) + 1) - (c + 1)
OBVIOUS

\* The window and the admissions of a member after it was admitted.
LEMMA AdmittedSound ==
    ASSUME LimitInv, NEW u \in Members, ~Full(u), NEW after,
           after = Append(Recent(u), [at |-> monotonic, stay |-> stay[u]])
    PROVE  /\ [Current(u) EXCEPT !.count = @ + 1] \in Windows
           /\ after \in Seq(Admission) /\ after # <<>> /\ after[Len(after)].at = monotonic
           /\ HistorySound(after, monotonic, stay[u])
           /\ WindowSound([Current(u) EXCEPT !.count = @ + 1].start,
                          [Current(u) EXCEPT !.count = @ + 1].count, stay[u], after)
<1> PICK history \in Seq(Admission), current \in Nat, window \in Windows :
      history = admits[u] /\ current = stay[u] /\ window = windows[u]
  BY DEF LimitInv, LimitTypeOK
<1>1. /\ monotonic \in Nat /\ Window \in Nat /\ Limit \in Nat /\ Limit >= 1
      /\ window.start \in Nat /\ window.count \in Nat
      /\ HistorySound(history, monotonic, current) /\ LimitTypeOK
  BY AllowedGrows DEF LimitInv, LimitTypeOK, Windows
<1> PICK long : Grown(history, monotonic, current, long)
  <2>1. [at |-> monotonic, stay |-> current] \in Admission
    BY <1>1 DEF Admission
  <2>2. Grown(history, monotonic, current, Append(history, [at |-> monotonic, stay |-> current]))
    BY <2>1, AppendProperties DEF Grown
  <2> QED
    BY <2>2
<1>2. long \in Seq(Admission) /\ Len(long) = Len(history) + 1 /\ Len(history) \in Nat
      /\ long[Len(history) + 1].at = monotonic
  BY DEF Grown
<1> PICK first : first = FirstRecent(u)
  OBVIOUS
<1>3. Suffix(long, first, after) /\ FirstIn(history, monotonic, first)
  BY <1>1, RecentGrown, RecentFirst
<1>4. /\ after \in Seq(Admission) /\ after # <<>> /\ after[Len(after)].at = monotonic
  <2>1. /\ after \in Seq(Admission) /\ first \in 1 .. Len(history) + 1
        /\ Len(after) = (Len(history) + 2) - first
        /\ \A i \in 1 .. Len(after) : after[i] = long[(first - 1) + i]
    BY <1>2, <1>3, SMTT(30) DEF Suffix
  <2> PICK n \in Nat, m \in Nat : n = Len(history) /\ m = Len(after)
    BY <2>1
  <2>2. m >= 1 /\ (first - 1) + m = n + 1
    BY <2>1
  <2>3. m \in 1 .. m
    BY <2>2
  <2>4. after[m] = long[n + 1]
    BY <2>1, <2>2, <2>3
  <2>5. after # <<>>
    BY <2>2
  <2> QED
    BY <1>2, <2>1, <2>4, <2>5
<1>5. ASSUME NEW start \in Nat, NEW count \in Nat, start <= monotonic,
             WindowSound(start, count, current, long), first <= (Len(long) + 1) - count
      PROVE  /\ HistorySound(after, monotonic, current)
             /\ WindowSound(start, count, current, after)
  <2>1. HistorySound(long, monotonic, current)
    BY <1>1, <1>5, GrownSound
  <2>2. long \in Seq(Admission) /\ Suffix(long, first, after) /\ monotonic \in Nat
    BY <1>1, <1>2, <1>3
  <2> QED
    BY <1>5, <2>1, <2>2, SuffixSound, SMTT(60)
<1>6. CASE Known(u) /\ Open(window.start, monotonic)
  <2>1. Current(u) = window
    BY <1>6 DEF Current, Open
  <2>2. window.count < Limit
    BY <1>1, <2>1 DEF Full
  <2>3. WindowSound(window.start, window.count, current, history)
    BY <1>6 DEF LimitInv
  <2>4. WindowSound(window.start, window.count + 1, current, long)
    BY <1>1, <2>2, <2>3, GrownInWindow
  <2>5. first <= (Len(history) + 1) - window.count
    BY <1>1, <1>3, <1>6, <2>3, WindowStays
  <2>6. /\ window.count <= Len(history) /\ window.count >= 1
        /\ history[(Len(history) + 1) - window.count].at = window.start
    BY <1>1, <2>3 DEF WindowSound
  <2>7. window.start <= monotonic
    <3>1. (Len(history) + 1) - window.count \in 1 .. Len(history)
      BY <1>1, <1>2, <2>6, SMTT(30)
    <3> QED
      BY <1>1, <2>6, <3>1 DEF HistorySound
  <2>8. /\ window.count + 1 \in Nat
        /\ first <= (Len(long) + 1) - (window.count + 1)
    <3>1. first \in 1 .. Len(history) + 1
      BY <1>3 DEF FirstIn
    <3> PICK n \in Nat, f \in Nat, c \in Nat :
          n = Len(history) /\ f = first /\ c = window.count
      BY <1>1, <3>1
    <3>2. f <= (n + 1) - c
      BY <2>5
    <3>3. c + 1 \in Nat /\ f <= ((n + 1) + 1) - (c + 1)
      BY <3>2, OneMore
    <3> QED
      BY <1>2, <3>3
  <2>9. HistorySound(after, monotonic, current)
        /\ WindowSound(window.start, window.count + 1, current, after)
    BY <1>1, <1>5, <2>4, <2>7, <2>8
  <2>10. /\ [window EXCEPT !.count = @ + 1] \in Windows
         /\ [window EXCEPT !.count = @ + 1].start = window.start
         /\ [window EXCEPT !.count = @ + 1].count = window.count + 1
    BY DEF Windows
  <2> QED
    BY <1>4, <2>1, <2>9, <2>10
<1>7. CASE ~(Known(u) /\ Open(window.start, monotonic))
  <2>1. Current(u) = [start |-> monotonic, count |-> 0]
    BY <1>7 DEF Current, Open
  <2>2. WindowSound(monotonic, 1, current, long)
    <3>1. CASE Known(u)
      <4>1. WindowSound(window.start, window.count, current, history)
        BY <3>1 DEF LimitInv
      <4> QED
        BY <1>1, <1>7, <3>1, <4>1, GrownAnew
    <3>2. CASE ~Known(u)
      <4>1. StayOver(history, current)
        BY <3>2 DEF LimitInv
      <4> QED
        BY <1>1, <4>1, GrownOnReturn
    <3> QED
      BY <3>1, <3>2
  <2>3. first <= (Len(long) + 1) - 1
    <3>1. first \in 1 .. Len(history) + 1
      BY <1>3 DEF FirstIn
    <3> QED
      BY <1>2, <3>1
  <2>4. HistorySound(after, monotonic, current) /\ WindowSound(monotonic, 1, current, after)
    BY <1>1, <1>5, <2>2, <2>3
  <2>5. [Current(u) EXCEPT !.count = @ + 1] = [start |-> monotonic, count |-> 1]
    BY <2>1
  <2> QED
    BY <1>1, <1>4, <2>4, <2>5 DEF Windows
<1> QED
  BY <1>6, <1>7

LEMMA LimitStarts == LimitInit => LimitInv
<1> SUFFICES ASSUME LimitInit
             PROVE  LimitInv
  OBVIOUS
<1>1. /\ monotonic = 0 /\ users = <<>> /\ stay = [u \in Members |-> 0]
      /\ windows = [u \in Members |-> [start |-> 0, count |-> 0]]
      /\ admits = [u \in Members |-> <<>>]
  BY DEF LimitInit
<1>2. LimitTypeOK
  BY <1>1 DEF LimitTypeOK, Windows
<1>3. MembersSound
  BY <1>1, AllowedGrows DEF MembersSound, IsInjective
<1> QED
  BY <1>1, <1>2, <1>3 DEF LimitInv, Known, Contains, HistorySound, StayOver

\* An order of which one position moved to the end or, if that is behind it, a key was added.
Moved(keys, k, at, moved) ==
    /\ at \in 1 .. Len(keys) + 1
    /\ at <= Len(keys) => keys[at] = k /\ Len(moved) = Len(keys)
    /\ at = Len(keys) + 1 => ~Contains(keys, k) /\ Len(moved) = Len(keys) + 1
    /\ moved[Len(moved)] = k
    /\ \A i \in 1 .. Len(moved) - 1 : moved[i] = keys[IF i <= at - 1 THEN i ELSE i + 1]

LEMMA MovedPlaces ==
    ASSUME NEW S, NEW keys \in Seq(S), NEW k \in S
    PROVE  \E at : Moved(keys, k, at, MovedToEnd(keys, k))
<1>1. Len(keys) \in Nat /\ DOMAIN keys = 1 .. Len(keys)
  OBVIOUS
<1>2. CASE Contains(keys, k)
  <2> PICK at \in 1 .. Len(keys) :
        keys[at] = k /\ MovedToEnd(keys, k) = Append(RemoveAt(keys, at), k)
    <3>1. /\ (CHOOSE i \in DOMAIN keys : keys[i] = k) \in 1 .. Len(keys)
          /\ keys[CHOOSE i \in DOMAIN keys : keys[i] = k] = k
      BY <1>1, <1>2 DEF Contains
    <3> QED
      BY <1>2, <3>1 DEF MovedToEnd
  <2>3. /\ MovedToEnd(keys, k) \in Seq(S) /\ Len(MovedToEnd(keys, k)) = Len(keys)
        /\ MovedToEnd(keys, k)[Len(keys)] = k
        /\ \A i \in 1 .. Len(keys) - 1 :
              MovedToEnd(keys, k)[i] = keys[IF i <= at - 1 THEN i ELSE i + 1]
    <3>1. /\ Append(RemoveAt(keys, at), k) \in Seq(S)
          /\ Len(Append(RemoveAt(keys, at), k)) = Len(keys)
          /\ Append(RemoveAt(keys, at), k)[Len(keys)] = k
          /\ \A i \in 1 .. Len(keys) - 1 :
                Append(RemoveAt(keys, at), k)[i] = keys[IF i <= at - 1 THEN i ELSE i + 1]
      BY CutAndAppended
    <3> QED
      BY <3>1
  <2>4. at \in 1 .. Len(keys) + 1 /\ at # Len(keys) + 1
    BY <1>1
  <2> QED
    BY <2>3, <2>4 DEF Moved
<1>3. CASE ~Contains(keys, k)
  <2>1. MovedToEnd(keys, k) = Append(keys, k)
    BY <1>3 DEF MovedToEnd
  <2>2. /\ Len(Append(keys, k)) = Len(keys) + 1
        /\ Append(keys, k)[Len(keys) + 1] = k
        /\ \A i \in 1 .. Len(keys) : Append(keys, k)[i] = keys[i]
    BY AppendProperties
  <2>3. /\ Len(keys) + 1 \in 1 .. Len(keys) + 1 /\ ~(Len(keys) + 1 <= Len(keys))
        /\ (Len(keys) + 1) - 1 = Len(keys)
        /\ \A i \in 1 .. Len(keys) : i <= Len(keys)
    BY <1>1, SMTT(30)
  <2>4. Moved(keys, k, Len(keys) + 1, Append(keys, k))
    BY <1>3, <2>2, <2>3 DEF Moved
  <2> QED
    BY <2>1, <2>4
<1> QED
  BY <1>2, <1>3

\* The table after an admission: who is in it, where it was, and who is no longer.
Ranked(ranked, u) ==
    /\ ranked \in Seq(Members) /\ IsInjective(ranked) /\ Len(ranked) <= Table
    /\ Len(ranked) \in Nat \ {0} /\ ranked[Len(ranked)] = u
    /\ \A i \in 1 .. Len(ranked) - 1 : ranked[i] # u
    /\ \A i \in 1 .. Len(ranked) - 1 : \E a \in 1 .. Len(users) : ranked[i] = users[a]
    /\ \A i, j \in 1 .. Len(ranked) - 1 : i <= j =>
          \E a, b \in 1 .. Len(users) : a <= b /\ ranked[i] = users[a] /\ ranked[j] = users[b]
    /\ Len(users) = Table => Len(ranked) = Table
    /\ \A a \in 1 .. Len(users) :
          \/ Contains(ranked, users[a])
          \/ Len(users) = Table /\ users[a] = users[1]

LEMMA TableAfter ==
    ASSUME LimitTypeOK, MembersSound, NEW u \in Members, NEW ranked,
           ranked = Kept(MovedToEnd(users, u))
    PROVE  Ranked(ranked, u)
<1> PICK moved : moved = MovedToEnd(users, u)
  OBVIOUS
<1> PICK at : Moved(users, u, at, moved)
  BY MovedPlaces DEF LimitTypeOK
<1> PICK n \in Nat, m \in Nat : n = Len(users) /\ m = Len(moved)
  BY MovedOrder DEF LimitTypeOK
<1>1. /\ users \in Seq(Members) /\ IsInjective(users) /\ n <= Table /\ Table \in Nat /\ Table >= 1
      /\ DOMAIN users = 1 .. n
  BY AllowedGrows DEF LimitTypeOK, MembersSound
<1>2. /\ moved \in Seq(Members) /\ IsInjective(moved) /\ m >= 1 /\ moved[m] = u
      /\ DOMAIN moved = 1 .. m
  BY <1>1, MovedOrder, MovedInjective DEF Moved
<1> DEFINE Place(i) == IF i <= at - 1 THEN i ELSE i + 1
<1>3. /\ at \in 1 .. n + 1 /\ at \in Nat /\ at >= 1 /\ at <= n + 1
      /\ at <= n => m = n /\ users[at] = u
      /\ at = n + 1 => m = n + 1 /\ ~Contains(users, u)
      /\ \A i \in 1 .. m - 1 : moved[i] = users[Place(i)]
  BY DEF Moved
<1> PICK p \in Nat : p = at /\ p >= 1 /\ p <= n + 1 /\ (p <= n => m = n) /\ (p = n + 1 => m = n + 1)
  BY <1>3
<1>4. \A i \in 1 .. m - 1 : Place(i) \in 1 .. n
  OBVIOUS
<1>5. \A i, j \in 1 .. m - 1 : i <= j => Place(i) <= Place(j)
  OBVIOUS
<1>10. /\ \A i \in 1 .. m - 1 : i < p => Place(i) = i
       /\ \A i \in 1 .. m - 1 : i >= p => Place(i) = i + 1
  OBVIOUS
<1> HIDE DEF Place
<1>6. \A i \in 1 .. m - 1 : moved[i] # u
  BY <1>2 DEF IsInjective
<1>7. ASSUME NEW a \in 1 .. n
      PROVE  \E i \in 1 .. m : moved[i] = users[a] /\ (a = 1 \/ i # 1 \/ at = 1)
  <2>1. CASE a < at
    <3>1. a \in 1 .. m - 1 /\ a < p /\ a \in 1 .. m
      BY <2>1
    <3>2. moved[a] = users[a]
      BY <1>3, <1>10, <3>1
    <3> QED
      BY <3>1, <3>2
  <2>2. CASE a = at
    <3>1. m \in 1 .. m /\ moved[m] = users[a]
      BY <1>2, <1>3, <2>2
    <3>2. a = 1 \/ m # 1 \/ at = 1
      BY <1>3, <2>2
    <3> QED
      BY <3>1, <3>2
  <2>3. CASE a > at
    <3>1. a - 1 \in 1 .. m - 1 /\ a - 1 >= p /\ (a - 1) + 1 = a /\ a - 1 \in 1 .. m
          /\ (a - 1 # 1 \/ at = 1)
      BY <2>3
    <3>2. moved[a - 1] = users[a]
      BY <1>3, <1>10, <3>1
    <3> QED
      BY <3>1, <3>2
  <2> QED
    BY <1>3, <2>1, <2>2, <2>3
<1>8. CASE ~(m > Table)
  <2>1. ranked = moved
    BY <1>8 DEF Kept
  <2>2. \A a \in 1 .. n : Contains(moved, users[a])
    BY <1>7 DEF Contains
  <2>3. n = Table => m = Table
    BY <1>1, <1>3, <1>8
  <2>4. \A i \in 1 .. m - 1 : \E a \in 1 .. n : moved[i] = users[a]
    BY <1>3, <1>4
  <2>5. \A i, j \in 1 .. m - 1 : i <= j =>
           \E a, b \in 1 .. n : a <= b /\ moved[i] = users[a] /\ moved[j] = users[b]
    <3> SUFFICES ASSUME NEW i \in 1 .. m - 1, NEW j \in 1 .. m - 1, i <= j
                 PROVE  \E a, b \in 1 .. n : a <= b /\ moved[i] = users[a] /\ moved[j] = users[b]
      OBVIOUS
    <3>1. /\ Place(i) \in 1 .. n /\ Place(j) \in 1 .. n /\ Place(i) <= Place(j)
          /\ moved[i] = users[Place(i)] /\ moved[j] = users[Place(j)]
      BY <1>3, <1>4, <1>5
    <3> QED
      BY <3>1
  <2> QED
    BY <1>1, <1>2, <1>6, <1>8, <2>1, <2>2, <2>3, <2>4, <2>5 DEF Ranked
<1>9. CASE m > Table
  <2>1. at = n + 1 /\ n = Table /\ m = n + 1 /\ m >= 2
    BY <1>1, <1>3, <1>9
  <2>2. ranked = Tail(moved)
    BY <1>9 DEF Kept
  <2>3. /\ ranked \in Seq(Members) /\ Len(ranked) = n
        /\ \A i \in 1 .. n : ranked[i] = moved[i + 1]
    <3>1. moved # <<>>
      BY <1>2
    <3>2. /\ Tail(moved) \in Seq(Members) /\ Len(Tail(moved)) = m - 1
          /\ \A i \in 1 .. Len(Tail(moved)) : Tail(moved)[i] = moved[i + 1]
      BY <1>2, <3>1, HeadTailProperties
    <3> QED
      BY <2>1, <2>2, <3>2
  <2>4. DOMAIN ranked = 1 .. n
    BY <2>3
  <2>5. IsInjective(ranked)
    <3> SUFFICES ASSUME NEW i \in 1 .. n, NEW j \in 1 .. n, ranked[i] = ranked[j]
                 PROVE  i = j
      BY <2>4 DEF IsInjective
    <3>1. i + 1 \in 1 .. m /\ j + 1 \in 1 .. m /\ moved[i + 1] = moved[j + 1]
      BY <2>1, <2>3
    <3>2. i + 1 = j + 1
      BY <1>2, <3>1 DEF IsInjective
    <3> QED
      BY <3>2
  <2>6. \A i \in 1 .. n - 1 : i + 1 \in 1 .. m - 1 /\ i \in 1 .. n
    BY <2>1
  <2>7. n >= 1 /\ n \in 1 .. n /\ ranked[n] = u
    BY <1>1, <1>2, <2>1, <2>3
  <2>8. \A i \in 1 .. n - 1 : ranked[i] # u
    BY <1>6, <2>3, <2>6
  <2>9. \A i \in 1 .. n - 1 : \E a \in 1 .. n : ranked[i] = users[a]
    BY <1>3, <1>4, <2>3, <2>6
  <2>10. ASSUME NEW i \in 1 .. n - 1, NEW j \in 1 .. n - 1, i <= j
         PROVE  \E a, b \in 1 .. n : a <= b /\ ranked[i] = users[a] /\ ranked[j] = users[b]
    <3>1. i + 1 \in 1 .. m - 1 /\ j + 1 \in 1 .. m - 1 /\ i + 1 <= j + 1
      <4>1. i + 1 \in 1 .. m - 1 /\ j + 1 \in 1 .. m - 1
        BY <2>6
      <4>2. i + 1 <= j + 1
        BY <2>10
      <4> QED
        BY <4>1, <4>2
    <3>2. ranked[i] = moved[i + 1] /\ ranked[j] = moved[j + 1]
      BY <2>3, <2>6
    <3>3. /\ Place(i + 1) \in 1 .. n /\ Place(j + 1) \in 1 .. n /\ Place(i + 1) <= Place(j + 1)
          /\ moved[i + 1] = users[Place(i + 1)] /\ moved[j + 1] = users[Place(j + 1)]
      BY <1>3, <1>4, <1>5, <3>1
    <3> QED
      BY <3>2, <3>3
  <2>11. ASSUME NEW a \in 1 .. n, a # 1
         PROVE  Contains(ranked, users[a])
    <3>1. a \in 1 .. m - 1 /\ a < p /\ a - 1 \in 1 .. n /\ (a - 1) + 1 = a
      BY <2>1, <2>11
    <3>2. moved[a] = users[a]
      BY <1>3, <1>10, <3>1
    <3>3. ranked[a - 1] = users[a]
      BY <2>3, <3>1, <3>2
    <3> QED
      BY <2>3, <3>1, <3>3 DEF Contains
  <2> QED
    BY <1>1, <2>1, <2>3, <2>5, <2>7, <2>8, <2>9, <2>10, <2>11 DEF Ranked
<1> QED
  BY <1>8, <1>9

LEMMA AdmitStep ==
    ASSUME LimitInv, NEW u \in Members, Admit(u)
    PROVE  LimitInv'
<1> PICK ranked : ranked = Kept(MovedToEnd(users, u))
  OBVIOUS
<1> PICK next : next = [Current(u) EXCEPT !.count = @ + 1]
  OBVIOUS
<1> PICK after : after = Append(Recent(u), [at |-> monotonic, stay |-> stay[u]])
  OBVIOUS
<1>1. /\ users' = ranked /\ monotonic' = monotonic
      /\ windows' = [v \in Members |-> IF v = u THEN next ELSE windows[v]]
      /\ stay' = [v \in Members |->
             IF Known(v) /\ ~Contains(ranked, v) THEN stay[v] + 1 ELSE stay[v]]
      /\ admits' = [v \in Members |-> IF v = u THEN after ELSE admits[v]]
      /\ ~Full(u)
  BY DEF Admit
<1>2. /\ ranked \in Seq(Members) /\ IsInjective(ranked) /\ Len(ranked) <= Table
      /\ Len(ranked) \in Nat \ {0} /\ ranked[Len(ranked)] = u
      /\ \A i \in 1 .. Len(ranked) - 1 : ranked[i] # u
      /\ \A i \in 1 .. Len(ranked) - 1 : \E a \in 1 .. Len(users) : ranked[i] = users[a]
      /\ \A i, j \in 1 .. Len(ranked) - 1 : i <= j =>
            \E a, b \in 1 .. Len(users) : a <= b /\ ranked[i] = users[a] /\ ranked[j] = users[b]
      /\ Len(users) = Table => Len(ranked) = Table
      /\ \A a \in 1 .. Len(users) :
            Contains(ranked, users[a]) \/ (Len(users) = Table /\ users[a] = users[1])
  <2>1. LimitTypeOK /\ MembersSound
    BY DEF LimitInv
  <2>2. Ranked(ranked, u)
    BY <2>1, TableAfter
  <2> QED
    BY <2>2 DEF Ranked
<1>3. /\ next \in Windows /\ after \in Seq(Admission) /\ after # <<>>
      /\ after[Len(after)].at = monotonic
      /\ HistorySound(after, monotonic, stay[u])
      /\ WindowSound(next.start, next.count, stay[u], after)
  BY <1>1, AdmittedSound
<1>4. /\ LimitTypeOK /\ monotonic \in Nat /\ users \in Seq(Members) /\ Len(users) \in Nat
      /\ stay \in [Members -> Nat] /\ admits \in [Members -> Seq(Admission)]
      /\ Contains(ranked, u) /\ MembersSound
  <2>1. Len(ranked) \in 1 .. Len(ranked)
    BY <1>2
  <2> QED
    BY <1>2, <2>1, SMTT(30) DEF LimitInv, LimitTypeOK, Contains
<1>12. /\ Len(users) <= Table
       /\ \A i \in 1 .. Len(users) : users[i] \in Members /\ admits[users[i]] # <<>>
       /\ \A i, j \in 1 .. Len(users) : i <= j => LastSeen(users[i]) <= LastSeen(users[j])
       /\ \A v \in Members :
             ~Known(v) /\ admits[v] # <<>> =>
                 /\ Len(users) = Table
                 /\ \A i \in 1 .. Len(users) : LastSeen(v) <= LastSeen(users[i])
  <2>1. \A i \in 1 .. Len(users) : users[i] \in Members
    BY <1>4
  <2> QED
    BY <1>4, <2>1 DEF MembersSound
<1>5. LimitTypeOK'
  BY <1>1, <1>2, <1>3, <1>4, SMTT(30) DEF LimitTypeOK
<1>6. \A v \in Members : v # u => admits'[v] = admits[v] /\ LastSeen(v)' = LastSeen(v)
  BY <1>1 DEF LastSeen
<1>7. /\ admits'[u] = after /\ LastSeen(u)' = monotonic
  BY <1>1, <1>3 DEF LastSeen
<1>8. \A i \in 1 .. Len(ranked) - 1 :
         /\ ranked[i] \in Members /\ ranked[i] # u
         /\ admits'[ranked[i]] # <<>> /\ LastSeen(ranked[i])' = LastSeen(ranked[i])
  <2> TAKE i \in 1 .. Len(ranked) - 1
  <2> PICK a \in 1 .. Len(users) : ranked[i] = users[a]
    BY <1>2
  <2>1. users[a] \in Members /\ admits[users[a]] # <<>> /\ users[a] # u
    BY <1>2, <1>12
  <2> QED
    BY <1>6, <2>1
<1>9. ASSUME NEW v \in Members, admits[v] # <<>>
      PROVE  LastSeen(v) \in Nat /\ LastSeen(v) <= monotonic
  <2>1. /\ admits[v] \in Seq(Admission) /\ HistorySound(admits[v], monotonic, stay[v])
    BY <1>4 DEF LimitInv
  <2>2. Len(admits[v]) \in 1 .. Len(admits[v])
    BY <1>9, <2>1
  <2>3. admits[v][Len(admits[v])].at \in Nat
    BY <2>1, <2>2, AdmissionParts
  <2> QED
    BY <2>1, <2>2, <2>3 DEF LastSeen, HistorySound
<1>10. MembersSound'
  <2>1. \A i \in 1 .. Len(ranked) : i = Len(ranked) \/ i \in 1 .. Len(ranked) - 1
    BY <1>2
  <2>2. ASSUME NEW i \in 1 .. Len(ranked)
        PROVE  admits'[ranked[i]] # <<>>
    BY <1>2, <1>3, <1>7, <1>8, <2>1
  <2>3. ASSUME NEW i \in 1 .. Len(ranked), NEW j \in 1 .. Len(ranked), i <= j
        PROVE  LastSeen(ranked[i])' <= LastSeen(ranked[j])'
    <3>1. CASE j = Len(ranked)
      <4>1. CASE i = Len(ranked)
        BY <1>2, <1>4, <1>7, <3>1, <4>1
      <4>2. CASE i # Len(ranked)
        <5> PICK a \in 1 .. Len(users) : ranked[i] = users[a]
          BY <1>2, <2>1, <4>2
        <5>1. users[a] \in Members /\ admits[users[a]] # <<>>
          BY <1>12
        <5>2. LastSeen(ranked[i])' = LastSeen(users[a])
          BY <1>8, <2>1, <4>2
        <5> QED
          BY <1>2, <1>7, <1>9, <3>1, <5>1, <5>2
      <4> QED
        BY <4>1, <4>2
    <3>2. CASE j # Len(ranked)
      <4>1. i \in 1 .. Len(ranked) - 1 /\ j \in 1 .. Len(ranked) - 1
        BY <1>2, <2>3, <3>2
      <4> PICK a \in 1 .. Len(users), b \in 1 .. Len(users) :
            a <= b /\ ranked[i] = users[a] /\ ranked[j] = users[b]
        BY <1>2, <2>3, <4>1
      <4>2. LastSeen(users[a]) <= LastSeen(users[b])
        BY <1>12
      <4> QED
        BY <1>8, <4>1, <4>2
    <3> QED
      BY <3>1, <3>2
  <2>4. ASSUME NEW v \in Members, ~Contains(ranked, v), admits'[v] # <<>>
        PROVE  /\ Len(ranked) = Table
               /\ \A i \in 1 .. Len(ranked) : LastSeen(v)' <= LastSeen(ranked[i])'
    <3>1. v # u /\ admits[v] # <<>> /\ LastSeen(v)' = LastSeen(v)
      BY <1>4, <1>6, <2>4
    <3>2. /\ Len(users) = Table
          /\ \A a \in 1 .. Len(users) : LastSeen(v) <= LastSeen(users[a])
      <4>1. CASE Known(v)
        <5> PICK c \in 1 .. Len(users) : v = users[c]
          BY <1>4, <4>1 DEF Known, Contains
        <5>1. Len(users) = Table /\ v = users[1]
          BY <1>2, <2>4
        <5>2. 1 \in 1 .. Len(users)
          BY <1>4
        <5>3. \A a \in 1 .. Len(users) : 1 <= a
          OBVIOUS
        <5> QED
          BY <1>12, <5>1, <5>2, <5>3
      <4>2. CASE ~Known(v)
        BY <1>12, <3>1, <4>2
      <4> QED
        BY <4>1, <4>2
    <3>3. ASSUME NEW i \in 1 .. Len(ranked)
          PROVE  LastSeen(v)' <= LastSeen(ranked[i])'
      <4>1. CASE i = Len(ranked)
        BY <1>2, <1>7, <1>9, <3>1, <4>1
      <4>2. CASE i # Len(ranked)
        <5> PICK a \in 1 .. Len(users) : ranked[i] = users[a]
          BY <1>2, <2>1, <4>2
        <5> QED
          BY <1>8, <2>1, <3>1, <3>2, <4>2
      <4> QED
        BY <4>1, <4>2
    <3> QED
      BY <1>2, <3>2, <3>3
  <2> QED
    BY <1>1, <1>2, <2>2, <2>3, <2>4, ZenonT(60) DEF MembersSound, Known
<1>11. ASSUME NEW v \in Members
       PROVE  /\ HistorySound(admits'[v], monotonic', stay'[v])
              /\ IF Contains(users', v)
                 THEN WindowSound(windows'[v].start, windows'[v].count, stay'[v], admits'[v])
                 ELSE StayOver(admits'[v], stay'[v])
  <2>0. /\ HistorySound(admits[v], monotonic, stay[v]) /\ stay[v] \in Nat
        /\ admits[v] \in Seq(Admission)
    BY <1>4 DEF LimitInv
  <2>1. CASE v = u
    <3>1. stay'[v] = stay[v]
      BY <1>1, <1>4, <2>1
    <3> QED
      BY <1>1, <1>3, <1>4, <2>1, <3>1
  <2>2. CASE v # u /\ Contains(ranked, v)
    <3>1. Known(v)
      <4> PICK i \in 1 .. Len(ranked) : ranked[i] = v
        BY <1>2, <2>2 DEF Contains
      <4>1. i \in 1 .. Len(ranked) - 1
        BY <1>2, <2>2
      <4> PICK a \in 1 .. Len(users) : ranked[i] = users[a]
        BY <1>2, <4>1
      <4> QED
        BY <1>4 DEF Known, Contains
    <3> QED
      BY <1>1, <2>0, <2>2, <3>1 DEF LimitInv
  <2>3. CASE v # u /\ ~Contains(ranked, v) /\ ~Known(v)
    BY <1>1, <2>0, <2>3 DEF LimitInv
  <2>4. CASE v # u /\ ~Contains(ranked, v) /\ Known(v)
    <3>1. stay'[v] = stay[v] + 1 /\ admits'[v] = admits[v]
      BY <1>1, <2>4
    <3>2. \A i \in 1 .. Len(admits[v]) : admits[v][i].stay \in Nat
                                         /\ admits[v][i].stay <= stay[v]
      BY <2>0, AdmissionParts DEF HistorySound
    <3>3. HistorySound(admits[v], monotonic, stay[v] + 1)
      <4>1. \A i \in 1 .. Len(admits[v]) : admits[v][i].stay <= stay[v] + 1
        BY <2>0, <3>2
      <4> QED
        BY <2>0, <4>1 DEF HistorySound
    <3>4. StayOver(admits[v], stay[v] + 1)
      <4> SUFFICES ASSUME admits[v] # <<>>
                   PROVE  admits[v][Len(admits[v])].stay < stay[v] + 1
        BY DEF StayOver
      <4>1. Len(admits[v]) \in 1 .. Len(admits[v])
        BY <2>0
      <4>2. admits[v][Len(admits[v])].stay \in Nat /\ admits[v][Len(admits[v])].stay <= stay[v]
        BY <3>2, <4>1
      <4> QED
        BY <2>0, <4>2
    <3> QED
      BY <1>1, <2>4, <3>1, <3>3, <3>4
  <2> QED
    BY <2>1, <2>2, <2>3, <2>4
<1> QED
  BY <1>5, <1>10, <1>11 DEF LimitInv, Known

LEMMA LimitStep == LimitInv /\ [LimitNext]_limitVars => LimitInv'
<1> SUFFICES ASSUME LimitInv, [LimitNext]_limitVars
             PROVE  LimitInv'
  OBVIOUS
<1>1. CASE LimitTick
  <2>1. /\ monotonic' = monotonic + 1 /\ users' = users /\ windows' = windows
        /\ stay' = stay /\ admits' = admits /\ monotonic \in Nat
    BY <1>1 DEF LimitTick, LimitInv, LimitTypeOK
  <2>2. LimitTypeOK' /\ MembersSound'
    <3>1. LimitTypeOK'
      BY <2>1 DEF LimitInv, LimitTypeOK
    <3>2. MembersSound'
      BY <2>1 DEF LimitInv, MembersSound, LastSeen, Known
    <3> QED
      BY <3>1, <3>2
  <2>3. ASSUME NEW u \in Members
        PROVE  HistorySound(admits[u], monotonic + 1, stay[u])
    <3>1. /\ HistorySound(admits[u], monotonic, stay[u]) /\ admits[u] \in Seq(Admission)
      BY DEF LimitInv, LimitTypeOK
    <3>2. \A i \in 1 .. Len(admits[u]) : admits[u][i].at <= monotonic + 1
      BY <2>1, <3>1, AdmissionParts DEF HistorySound
    <3> QED
      BY <3>1, <3>2 DEF HistorySound
  <2> QED
    BY <2>1, <2>2, <2>3 DEF LimitInv, Known
<1>2. ASSUME NEW u \in Members, Admit(u)
      PROVE  LimitInv'
  BY <1>2, AdmitStep
<1>3. CASE UNCHANGED limitVars
  BY <1>3 DEF limitVars, LimitInv, LimitTypeOK, MembersSound, LastSeen, Known
<1> QED
  BY <1>1, <1>2, <1>3 DEF LimitNext, Refuse

LEMMA LimitSafe == LimitInv => LimitFair
<1> SUFFICES ASSUME LimitInv
             PROVE  LimitFair
  OBVIOUS
<1>1. /\ LimitTypeOK /\ MembersSound /\ monotonic \in Nat /\ Limit \in Nat /\ Limit >= 1
      /\ Window \in Nat /\ users \in Seq(Members)
  BY AllowedGrows DEF LimitInv, LimitTypeOK
<1>2. ASSUME NEW u \in Members, Recent(u) # <<>>
      PROVE  InWindow(u) <= 2 * Limit - 1 + Limit * Forgettings(Recent(u))
  <2> PICK history \in Seq(Admission) : history = admits[u]
    BY <1>1 DEF LimitTypeOK
  <2> PICK kept \in Seq(Admission) : kept = Recent(u)
    BY <1>1, RecentFirst
  <2> PICK first : first = FirstRecent(u)
    OBVIOUS
  <2> PICK n \in Nat, m \in Nat : n = Len(history) /\ m = Len(kept)
    OBVIOUS
  <2>1. /\ first \in 1 .. n + 1 /\ m = (n + 1) - first
        /\ first <= n => history[first].at + Window > monotonic
        /\ \A i \in 1 .. m : kept[i] = history[(first - 1) + i]
    BY <1>1, RecentFirst DEF FirstIn
  <2>2. m >= 1 /\ first \in 1 .. n /\ n \in 1 .. n /\ first <= n
    <3>1. m # 0
      BY <1>2
    <3> QED
      BY <2>1, <3>1
  <2>3. kept[m] = history[n] /\ kept[1] = history[first]
    <3>1. m \in 1 .. m /\ 1 \in 1 .. m /\ (first - 1) + m = n /\ (first - 1) + 1 = first
      BY <2>1, <2>2
    <3> QED
      BY <2>1, <3>1
  <2>4. HistorySound(history, monotonic, stay[u])
    BY DEF LimitInv
  <2>5. history[first].at + Window > history[n].at
    <3>1. history[n].at \in Nat /\ history[n].at <= monotonic /\ history[first].at \in Nat
      BY <2>2, <2>4, AdmissionParts DEF HistorySound
    <3>2. history[first].at + Window > monotonic
      BY <2>1, <2>2
    <3> QED
      BY <1>1, <3>1, <3>2, SMTT(30)
  <2>6. (n + 1) - first <= (2 * Limit - 1) + Limit * (history[n].stay - history[first].stay)
    BY <2>2, <2>4, <2>5 DEF HistorySound, Allowed
  <2>7. Forgettings(kept) = history[n].stay - history[first].stay
    BY <1>2, <2>2, <2>3 DEF Forgettings, Last
  <2> QED
    BY <2>1, <2>6, <2>7 DEF InWindow
<1>3. ASSUME NEW u \in Members, Full(u)
      PROVE  InWindow(u) >= Limit
  <2> PICK history \in Seq(Admission), window \in Windows :
        history = admits[u] /\ window = windows[u]
    BY <1>1 DEF LimitTypeOK
  <2> PICK first : first = FirstRecent(u)
    OBVIOUS
  <2>1. /\ Known(u) /\ Open(window.start, monotonic) /\ window.count >= Limit
        /\ window.start \in Nat /\ window.count \in Nat
    <3>1. ~(0 >= Limit) /\ window.start \in Nat /\ window.count \in Nat
      BY <1>1 DEF Windows
    <3> QED
      BY <1>3, <3>1 DEF Full, Current, Open
  <2>2. WindowSound(window.start, window.count, stay[u], history) /\ stay[u] \in Nat
    BY <1>1, <2>1 DEF LimitInv, LimitTypeOK
  <2>3. FirstIn(history, monotonic, first) /\ InWindow(u) = (Len(history) + 1) - first
    BY <1>1, RecentFirst DEF InWindow
  <2>4. first <= (Len(history) + 1) - window.count
    BY <1>1, <2>1, <2>2, <2>3, WindowStays
  <2>5. window.count <= Len(history) /\ Len(history) \in Nat /\ first \in 1 .. Len(history) + 1
    BY <2>2, <2>3 DEF WindowSound, FirstIn
  <2> QED
    BY <1>1, <2>1, <2>3, <2>4, <2>5
<1>4. ASSUME NEW u \in Members, ~Known(u), admits[u] # <<>>
      PROVE  Len(users) = Table /\ \A i \in 1 .. Table : Latest(u).at <= Latest(users[i]).at
  <2>1. /\ Len(users) = Table
        /\ \A i \in 1 .. Len(users) : LastSeen(u) <= LastSeen(users[i])
    BY <1>1, <1>4 DEF MembersSound
  <2>2. \A v : Latest(v).at = LastSeen(v)
    BY DEF Latest, Last, LastSeen
  <2> QED
    BY <2>1, <2>2
<1> QED
  BY <1>2, <1>3, <1>4 DEF LimitFair, BurstBounded, RefusedWhenBusy, ForgottenLast

\* admit: however the windows of a member fall, no period of a window's length has more than
\* twice the limit less one of its requests and the limit again for each time the table forgot
\* it between them; it is forgotten only when the table is full of members seen since, and it is
\* refused only when it made as many requests as the limit in the last window.
THEOREM LimitKept == FairSpec => []LimitFair
<1>1. Init => LimitInv
  BY LimitStarts DEF Init
<1>2. LimitInv /\ [Next]_vars => LimitInv'
  <2>1. [Next]_vars => [LimitNext]_limitVars
    BY DEF Next, OthersStay, vars
  <2> QED
    BY <2>1, LimitStep
<1> QED
  BY <1>1, <1>2, LimitSafe, PTL DEF FairSpec

-----------------------------------------------------------------------------
(* The reader of Prometheus.                                               *)

\* The times of an entry: its data are as old as the query that read them may take, and an
\* entry whose last attempt did not fail has the data of that attempt.
EntryTimes(e) ==
    /\ e.attempted <= now
    /\ e.data # None => /\ e.data <= e.fetched /\ e.fetched <= e.data + QueryLimit
                        /\ e.fetched <= e.attempted
    /\ ~e.failed => e.data # None /\ e.fetched = e.attempted

\* Every entry has sound times, and the end of its last attempt is known.
CacheTimes ==
    \A k \in Keys :
        /\ entry[k] # None => EntryTimes(entry[k]) /\ ended[k] = entry[k].attempted
        /\ entry[k] = None => ended[k] = None

\* Who reads is in the line, who asks is its head and asks no longer than a query may take.
LineSound ==
    \A v \in Viewers :
        /\ views[v].phase # "idle" =>
              views[v].wants # <<>> /\ \E i \in 1 .. Len(line) : line[i] = v
        /\ views[v].phase = "asking" =>
              line[1] = v /\ views[v].asked <= now /\ now <= views[v].asked + QueryLimit

ReaderInv ==
    /\ TypeOK
    /\ CacheTimes
    /\ LineSound
    /\ DataRecent /\ ReadyIsCurrent

LEMMA ReaderConstants ==
    /\ Entries \in Nat /\ Entries >= 1 /\ Refresh \in Nat /\ Refresh >= 1
    /\ Usable \in Nat /\ QueryLimit \in Nat /\ Horizon \in Nat
    /\ None \notin Nat /\ None \notin Entry
    /\ Wants \subseteq Seq(Keys) \ {<<>>}
BY ReaderAssumption, EntryAssumption

LEMMA IdleView == View \cup {Idle} = View
<1>1. 0 \in Times /\ <<>> \in Seq(Keys)
  BY ReaderConstants DEF Times
<1>2. Idle \in View
  BY <1>1 DEF Idle, View
<1> QED
  BY <1>2

LEMMA ReaderStarts == ReaderInit => ReaderInv
<1> SUFFICES ASSUME ReaderInit
             PROVE  ReaderInv
  OBVIOUS
<1>1. /\ now = 0 /\ order = <<>> /\ entry = [k \in Keys |-> None] /\ line = <<>>
      /\ views = [v \in Viewers |-> Idle] /\ answer = None /\ ended = [k \in Keys |-> None]
  BY DEF ReaderInit
<1>2. /\ <<>> \in Seq(Keys) /\ <<>> \in Seq(Viewers) /\ Len(<<>>) = 0
      /\ IsInjective(<<>>) /\ Range(<<>>) = {}
  BY DEF IsInjective, Range
<1>3. TypeOK
  BY <1>1, <1>2, ReaderConstants DEF TypeOK, Times
<1>4. CacheTimes /\ LineSound
  BY <1>1 DEF CacheTimes, LineSound, Idle
<1> QED
  BY <1>1, <1>3, <1>4 DEF ReaderInv, DataRecent, ReadyIsCurrent, Shows

\* The answer of an entry with sound times.
LEMMA ShownSound ==
    ASSUME now \in Times, NEW e \in Entry, EntryTimes(e),
           ~e.failed => now < e.attempted + Refresh
    PROVE  /\ Shown(e) \in Answer
           /\ Shown(e).state \in {"ready", "stale"} =>
                 /\ Shown(e).data \in Nat
                 /\ now <= Shown(e).data + Usable + QueryLimit
           /\ Shown(e).state = "ready" => now < Shown(e).data + Refresh + QueryLimit
<1>1. /\ now \in Nat /\ e.attempted \in Nat /\ e.data \in Times \cup {None}
      /\ e.fetched \in Times \cup {None} /\ e.failed \in BOOLEAN
      /\ e.data = None <=> e.fetched = None
  BY DEF Entry, Times
<1>2. CASE e.fetched # None /\ Age(e) <= Usable
  <2>1. /\ e.fetched \in Nat /\ e.data \in Nat /\ e.data \in Times
        /\ e.data <= e.fetched /\ e.fetched <= e.data + QueryLimit
        /\ e.fetched <= now
    BY <1>1, <1>2 DEF EntryTimes, Times
  <2>2. now <= e.fetched + Usable
    BY <1>1, <1>2, <2>1, ReaderConstants DEF Age
  <2>3. now <= e.data + Usable + QueryLimit
    BY <1>1, <2>1, <2>2, ReaderConstants
  <2>4. ~e.failed => now < e.data + Refresh + QueryLimit
    BY <1>1, <2>1, ReaderConstants DEF EntryTimes
  <2>5. CASE e.failed
    <3>1. Shown(e) = [state |-> "stale", data |-> e.data]
      BY <1>2, <2>5 DEF Shown
    <3> QED
      BY <2>1, <2>3, <3>1 DEF Answer
  <2>6. CASE ~e.failed
    <3>1. Shown(e) = [state |-> "ready", data |-> e.data]
      BY <1>2, <2>6 DEF Shown
    <3> QED
      BY <2>1, <2>3, <2>4, <2>6, <3>1 DEF Answer
  <2> QED
    BY <2>5, <2>6
<1>3. CASE ~(e.fetched # None /\ Age(e) <= Usable)
  <2>1. Shown(e) = [state |-> "unavailable", data |-> None]
    BY <1>3 DEF Shown
  <2> QED
    BY <2>1 DEF Answer
<1> QED
  BY <1>2, <1>3

\* The head of the line has its answer, and reads on or ends.
LEMMA ReplySound ==
    ASSUME TypeOK, LineSound, NEW v \in Viewers, views[v].phase # "idle", line[1] = v,
           NEW e \in Entry, EntryTimes(e), ~e.failed => now < e.attempted + Refresh,
           now' = now, Reply(v, e)
    PROVE  /\ line' \in Seq(Viewers) /\ views' \in [Viewers -> View \cup {Idle}]
           /\ answer' \in Answer \cup {None}
           /\ LineSound' /\ DataRecent' /\ ReadyIsCurrent'
           /\ \A w \in Viewers : views'[w].phase = "asking" => views[w].phase = "asking"
<1>1. /\ now \in Times /\ line \in Seq(Viewers) /\ Len(line) \in Nat
      /\ views \in [Viewers -> View] /\ View \cup {Idle} = View
  <2>1. View \cup {Idle} = View
    BY IdleView
  <2> QED
    BY <2>1 DEF TypeOK
<1>2. /\ views[v].wants \in Seq(Keys) \ {<<>>} /\ Len(line) >= 1
  <2>1. views[v] \in View
    BY <1>1
  <2>2. views[v].wants \in Seq(Keys)
    BY <2>1 DEF View
  <2>3. views[v].wants # <<>> /\ \E i \in 1 .. Len(line) : line[i] = v
    BY DEF LineSound
  <2> QED
    BY <1>1, <2>2, <2>3
<1> PICK more \in Seq(Keys) :
      /\ answer' = Shown(e)
      /\ views' = [views EXCEPT ![v] =
            IF more = <<>> THEN Idle ELSE [Idle EXCEPT !.wants = more, !.phase = "waiting"]]
      /\ line' = NextInLine(v, more)
  <2>1. Tail(views[v].wants) \in Seq(Keys) /\ <<>> \in Seq(Keys)
    BY <1>2
  <2> QED
    BY <2>1 DEF Reply
<1>3. /\ answer' \in Answer \cup {None} /\ DataRecent' /\ ReadyIsCurrent'
  BY <1>1, ShownSound, SMTT(20) DEF DataRecent, ReadyIsCurrent, Shows
<1> PICK rest \in Seq(Viewers) :
      /\ rest = Tail(line) /\ Len(rest) = Len(line) - 1
      /\ \A i \in 1 .. Len(rest) : rest[i] = line[i + 1]
  <2>1. line # <<>>
    BY <1>2
  <2>2. /\ Tail(line) \in Seq(Viewers) /\ Len(Tail(line)) = Len(line) - 1
        /\ \A i \in 1 .. Len(Tail(line)) : Tail(line)[i] = line[i + 1]
    BY <1>1, <2>1, HeadTailProperties
  <2> QED
    BY <2>2
<1>4. /\ Append(rest, v) \in Seq(Viewers)
      /\ Len(Append(rest, v)) = Len(rest) + 1
      /\ \A i \in 1 .. Len(rest) : Append(rest, v)[i] = rest[i]
      /\ Append(rest, v)[Len(rest) + 1] = v
  BY AppendProperties
<1>5. ASSUME NEW w \in Viewers, w # v, \E i \in 1 .. Len(line) : line[i] = w
      PROVE  \E i \in 1 .. Len(rest) : rest[i] = w
  <2> PICK i \in 1 .. Len(line) : line[i] = w
    BY <1>5
  <2>1. i # 1
    BY <1>5
  <2>2. i - 1 \in 1 .. Len(rest) /\ (i - 1) + 1 = i
    BY <1>1, <1>2, <2>1
  <2> QED
    BY <2>2
<1>6. ASSUME NEW w \in Viewers, w # v
      PROVE  views'[w] = views[w] /\ views[w].phase # "asking"
  <2>1. views'[w] = views[w]
    BY <1>1, <1>6
  <2> QED
    BY <1>6, <2>1 DEF LineSound
<1>7. CASE more = <<>>
  <2>1. line' = rest /\ views' = [views EXCEPT ![v] = Idle]
    BY <1>7 DEF NextInLine
  <2>2. views'[v].phase = "idle"
    <3>1. views'[v] = Idle
      BY <1>1, <2>1
    <3>2. Idle.phase = "idle"
      BY DEF Idle
    <3> QED
      BY <3>1, <3>2
  <2>3. LineSound'
    BY <1>5, <1>6, <2>1, <2>2 DEF LineSound
  <2> QED
    BY <1>1, <1>3, <1>6, <2>1, <2>2, <2>3
<1>8. CASE more # <<>>
  <2> PICK view : view = [Idle EXCEPT !.wants = more, !.phase = "waiting"]
    OBVIOUS
  <2>1. line' = Append(rest, v) /\ views' = [views EXCEPT ![v] = view]
    BY <1>8 DEF NextInLine
  <2>2. view \in View /\ view.phase = "waiting" /\ view.wants = more
    <3>1. view = [wants |-> more, phase |-> "waiting", asked |-> 0]
      BY DEF Idle
    <3>2. 0 \in Times
      BY ReaderConstants DEF Times
    <3> QED
      BY <3>1, <3>2 DEF View
  <2>3. views'[v] = view
    BY <1>1, <2>1
  <2>4. \A w \in Viewers : (\E i \in 1 .. Len(rest) : rest[i] = w) =>
                              \E i \in 1 .. Len(line') : line'[i] = w
    BY <1>4, <2>1
  <2>5. \E i \in 1 .. Len(line') : line'[i] = v
    BY <1>4, <2>1
  <2>6. LineSound'
    <3>1. ASSUME NEW w \in Viewers, w # v
          PROVE  /\ views'[w].phase # "asking"
                 /\ views'[w].phase # "idle" =>
                       views'[w].wants # <<>> /\ \E i \in 1 .. Len(line') : line'[i] = w
      BY <1>5, <1>6, <2>4, <3>1 DEF LineSound
    <3>2. /\ views'[v].phase # "asking"
          /\ views'[v].wants # <<>> /\ \E i \in 1 .. Len(line') : line'[i] = v
      BY <1>8, <2>2, <2>3, <2>5
    <3>3. ASSUME NEW w \in Viewers
          PROVE  /\ views'[w].phase # "asking"
                 /\ views'[w].phase # "idle" =>
                       views'[w].wants # <<>> /\ \E i \in 1 .. Len(line') : line'[i] = w
      BY <3>1, <3>2
    <3> QED
      BY <3>3 DEF LineSound
  <2>7. line' \in Seq(Viewers) /\ views' \in [Viewers -> View]
    BY <1>1, <1>4, <2>1, <2>2
  <2> QED
    BY <1>1, <1>3, <1>6, <2>2, <2>3, <2>6, <2>7
<1> QED
  BY <1>7, <1>8

\* The newest keys of an order.
LEMMA NewestSound ==
    ASSUME NEW S, NEW keys \in Seq(S), IsInjective(keys), NEW n \in 1 .. Len(keys)
    PROVE  /\ Newest(keys, n) \in Seq(S) /\ Len(Newest(keys, n)) = n
           /\ IsInjective(Newest(keys, n))
           /\ Contains(Newest(keys, n), keys[Len(keys)])
           /\ \A q : Contains(Newest(keys, n), q) => Contains(keys, q)
<1>1. Len(keys) \in Nat /\ n \in Nat /\ n >= 1 /\ n <= Len(keys)
      /\ DOMAIN keys = 1 .. Len(keys)
  OBVIOUS
<1>2. /\ Newest(keys, n) \in Seq(S) /\ Len(Newest(keys, n)) = n
      /\ \A i \in 1 .. n : Newest(keys, n)[i] = keys[(Len(keys) - n) + i]
  <2>1. CASE n = Len(keys)
    <3>1. Newest(keys, n) = keys
      BY <1>1, <2>1 DEF Newest
    <3>2. \A i \in 1 .. n : (Len(keys) - n) + i = i
      BY <1>1, <2>1
    <3> QED
      BY <2>1, <3>1, <3>2
  <2>2. CASE n # Len(keys)
    <3> DEFINE first == Len(keys) - n + 1
               t == SubSeq(keys, first, Len(keys))
    <3>0. \A l, m, f \in Int : m <= l /\ m >= 1 /\ m # l /\ f = l - m + 1 =>
              /\ ~(l <= m) /\ f >= 1 /\ f <= l /\ l - f + 1 = m
              /\ \A i \in 1 .. m : f + i - 1 = (l - m) + i
      BY SMTT(20)
    <3>1. /\ Len(keys) \in Int /\ n \in Int /\ first \in Int
          /\ n <= Len(keys) /\ n >= 1 /\ n # Len(keys) /\ first = Len(keys) - n + 1
      <4>1. \A l, m \in Nat : l \in Int /\ m \in Int /\ l - m + 1 \in Int
        OBVIOUS
      <4> QED
        BY ONLY <1>1, <2>2, <4>1
    <3>2. ~(Len(keys) <= n) /\ first >= 1 /\ first <= Len(keys) /\ Len(keys) - first + 1 = n
          /\ \A i \in 1 .. n : first + i - 1 = (Len(keys) - n) + i
      <4> HIDE DEF first
      <4> QED
        BY ONLY <3>0, <3>1
    <3>3. Newest(keys, n) = t
      BY <3>2 DEF Newest
    <3> HIDE DEF first
    <3>4. \A i \in first .. Len(keys) : keys[i] \in S
      BY <3>1, <3>2, ElementOfSeq
    <3>5. /\ t \in Seq(S)
          /\ Len(t) = IF first <= Len(keys) THEN Len(keys) - first + 1 ELSE 0
          /\ \A i \in 1 .. Len(keys) - first + 1 : t[i] = keys[first + i - 1]
      BY <3>1, <3>4, SubSeqProperties
    <3> HIDE DEF t
    <3> QED
      BY <3>2, <3>3, <3>5
  <2> QED
    BY <2>1, <2>2
<1>3. DOMAIN Newest(keys, n) = 1 .. n
  BY <1>2, LenProperties
<1>4. \A i \in 1 .. n : (Len(keys) - n) + i \in 1 .. Len(keys)
  BY <1>1
<1>5. IsInjective(Newest(keys, n))
  <2> SUFFICES ASSUME NEW i \in 1 .. n, NEW j \in 1 .. n,
                      Newest(keys, n)[i] = Newest(keys, n)[j]
               PROVE  i = j
    BY <1>3 DEF IsInjective
  <2>1. (Len(keys) - n) + i = (Len(keys) - n) + j
    BY <1>1, <1>2, <1>4 DEF IsInjective
  <2> QED
    BY <1>1, <2>1
<1>6. Contains(Newest(keys, n), keys[Len(keys)])
  <2>1. n \in 1 .. n /\ (Len(keys) - n) + n = Len(keys)
    BY <1>1
  <2> QED
    BY <1>2, <2>1 DEF Contains
<1>7. \A q : Contains(Newest(keys, n), q) => Contains(keys, q)
  BY <1>2, <1>4 DEF Contains
<1> QED
  BY <1>2, <1>5, <1>6, <1>7

\* The keys that are held: the newest, no more than the entries.
LEMMA HeldSound ==
    ASSUME NEW S, NEW keys \in Seq(S), Len(keys) >= 1, IsInjective(keys),
           NEW room \in 1 .. Entries
    PROVE  /\ Held(keys, room) \in Seq(S) /\ IsInjective(Held(keys, room))
           /\ Len(Held(keys, room)) <= Entries
           /\ Contains(Held(keys, room), keys[Len(keys)])
           /\ \A q : Contains(Held(keys, room), q) => Contains(keys, q)
<1>1. /\ Len(keys) \in Nat /\ Entries \in Nat /\ room \in Nat /\ room >= 1
      /\ room <= Entries
  BY ReaderConstants
<1>2. CASE room <= Len(keys)
  BY <1>1, <1>2, NewestSound DEF Held
<1>3. CASE ~(room <= Len(keys))
  <2>1. Held(keys, room) = keys /\ Len(keys) <= Entries /\ Len(keys) \in DOMAIN keys
    BY <1>1, <1>3 DEF Held, Newest
  <2> QED
    BY <2>1 DEF Contains
<1> QED
  BY <1>2, <1>3

\* The view of a request that waits to read.
LEMMA WaitingView ==
    \A more : [Idle EXCEPT !.wants = more, !.phase = "waiting"]
                 = [wants |-> more, phase |-> "waiting", asked |-> 0]
<1> SUFFICES ASSUME NEW more, NEW view,
                    view = [Idle EXCEPT !.wants = more, !.phase = "waiting"]
             PROVE  view = [wants |-> more, phase |-> "waiting", asked |-> 0]
  OBVIOUS
<1> QED
  BY DEF Idle

LEMMA VisitStep ==
    ASSUME ReaderInv, NEW v \in Viewers, NEW wants \in Wants, Visit(v, wants)
    PROVE  ReaderInv'
<1>1. /\ views[v].phase = "idle"
      /\ views' = [views EXCEPT ![v] = [Idle EXCEPT !.wants = wants, !.phase = "waiting"]]
      /\ line' = Append(line, v) /\ answer' = None
      /\ now' = now /\ order' = order /\ entry' = entry /\ ended' = ended
  BY DEF Visit
<1>2. /\ line \in Seq(Viewers) /\ views \in [Viewers -> View \cup {Idle}]
      /\ wants \in Seq(Keys) /\ wants # <<>> /\ Len(line) \in Nat
  BY ReaderConstants DEF ReaderInv, TypeOK
<1>3. /\ [Idle EXCEPT !.wants = wants, !.phase = "waiting"] \in View
      /\ [Idle EXCEPT !.wants = wants, !.phase = "waiting"].phase = "waiting"
      /\ [Idle EXCEPT !.wants = wants, !.phase = "waiting"].wants = wants
  <2>1. [Idle EXCEPT !.wants = wants, !.phase = "waiting"]
           = [wants |-> wants, phase |-> "waiting", asked |-> 0]
    BY WaitingView
  <2>2. 0 \in Times
    BY ReaderConstants DEF Times
  <2>3. [wants |-> wants, phase |-> "waiting", asked |-> 0] \in View
    BY <1>2, <2>2 DEF View
  <2> QED
    BY <2>1, <2>3
<1>4. /\ views' \in [Viewers -> View \cup {Idle}]
      /\ views'[v].phase = "waiting" /\ views'[v].wants = wants
      /\ \A w \in Viewers : w # v => views'[w] = views[w]
  BY <1>1, <1>2, <1>3
<1>5. /\ Append(line, v) \in Seq(Viewers) /\ Len(Append(line, v)) = Len(line) + 1
      /\ \A i \in 1 .. Len(line) : Append(line, v)[i] = line[i]
      /\ Append(line, v)[Len(line) + 1] = v
  BY <1>2, AppendProperties
<1>6. TypeOK'
  BY <1>1, <1>4, <1>5 DEF ReaderInv, TypeOK
<1>7. CacheTimes' /\ DataRecent' /\ ReadyIsCurrent'
  BY <1>1 DEF ReaderInv, CacheTimes, EntryTimes, DataRecent, ReadyIsCurrent, Shows
<1>8. ASSUME NEW w \in Viewers
      PROVE  /\ views'[w].phase # "idle" =>
                   views'[w].wants # <<>> /\ \E i \in 1 .. Len(line') : line'[i] = w
             /\ views'[w].phase = "asking" =>
                   line'[1] = w /\ views'[w].asked <= now' /\ now' <= views'[w].asked + QueryLimit
  <2>1. CASE w = v
    <3>1. Len(line) + 1 \in 1 .. Len(line') /\ line'[Len(line) + 1] = v
      BY <1>1, <1>2, <1>5
    <3> QED
      BY <1>2, <1>4, <2>1, <3>1
  <2>2. CASE w # v
    <3>1. /\ views[w].phase # "idle" =>
                views[w].wants # <<>> /\ \E i \in 1 .. Len(line) : line[i] = w
          /\ views[w].phase = "asking" =>
                line[1] = w /\ views[w].asked <= now /\ now <= views[w].asked + QueryLimit
      BY DEF ReaderInv, LineSound
    <3>2. \A i \in 1 .. Len(line) : i \in 1 .. Len(line') /\ line'[i] = line[i]
      BY <1>1, <1>2, <1>5
    <3>3. views'[w] = views[w]
      BY <1>4, <2>2
    <3>4. views[w].phase = "asking" => 1 \in 1 .. Len(line)
      BY <1>2, <3>1
    <3> QED
      BY <1>1, <3>1, <3>2, <3>3, <3>4
  <2> QED
    BY <2>1, <2>2
<1>9. LineSound'
  BY <1>8 DEF LineSound
<1> QED
  BY <1>6, <1>7, <1>9 DEF ReaderInv

LEMMA TurnStep ==
    ASSUME ReaderInv, NEW v \in Viewers, Turn(v)
    PROVE  /\ ReaderInv'
           /\ \A w \in Viewers :
                 views'[w].phase = "asking" /\ views[w].phase = "waiting"
                       /\ ended[Wanted(w)] # None
                    => now >= ended[Wanted(w)] + Refresh
<1>1. /\ views[v].phase = "waiting" /\ Head(line) = v
      /\ now' = now /\ order' = order /\ entry' = entry /\ ended' = ended
  BY DEF Turn
<1>2. /\ line \in Seq(Viewers) /\ views \in [Viewers -> View] /\ now \in Times
      /\ entry \in [Keys -> Entry \cup {None}] /\ ended \in [Keys -> Times \cup {None}]
  BY IdleView DEF ReaderInv, TypeOK
<1>3. /\ views[v].wants \in Seq(Keys) /\ views[v].wants # <<>> /\ line[1] = v
      /\ Wanted(v) \in Keys
  <2>1. views[v].wants \in Seq(Keys)
    BY <1>2 DEF View
  <2>2. views[v].wants # <<>>
    BY <1>1 DEF ReaderInv, LineSound
  <2> QED
    BY <1>1, <1>2, <2>1, <2>2 DEF Wanted
<1>4. CASE Fresh(Wanted(v))
  <2>1. Reply(v, entry[Wanted(v)])
    BY <1>4 DEF Turn
  <2>2. /\ entry[Wanted(v)] \in Entry /\ EntryTimes(entry[Wanted(v)])
        /\ now < entry[Wanted(v)].attempted + Refresh
    <3>1. entry[Wanted(v)] \in Entry /\ EntryTimes(entry[Wanted(v)])
      BY <1>2, <1>3, <1>4 DEF Fresh, ReaderInv, CacheTimes
    <3>2. entry[Wanted(v)].attempted \in Nat /\ now \in Nat
      BY <1>2, <3>1 DEF Entry, Times
    <3> QED
      BY <1>4, <3>1, <3>2, ReaderConstants DEF Fresh
  <2>3. /\ line' \in Seq(Viewers) /\ views' \in [Viewers -> View \cup {Idle}]
        /\ answer' \in Answer \cup {None}
        /\ LineSound' /\ DataRecent' /\ ReadyIsCurrent'
        /\ \A w \in Viewers : views'[w].phase = "asking" => views[w].phase = "asking"
    BY <1>1, <1>3, <2>1, <2>2, ReplySound DEF ReaderInv
  <2>4. TypeOK' /\ CacheTimes'
    BY <1>1, <2>3 DEF ReaderInv, TypeOK, CacheTimes, EntryTimes
  <2> QED
    BY <2>3, <2>4 DEF ReaderInv
<1>5. CASE ~Fresh(Wanted(v))
  <2>1. /\ views' = [views EXCEPT ![v].phase = "asking", ![v].asked = now]
        /\ answer' = None /\ line' = line
    BY <1>5 DEF Turn
  <2>2. /\ views' \in [Viewers -> View] /\ views'[v].wants = views[v].wants
        /\ views'[v].asked = now /\ \A w \in Viewers : w # v => views'[w] = views[w]
    BY <1>2, <2>1 DEF View
  <2>3. TypeOK' /\ CacheTimes' /\ DataRecent' /\ ReadyIsCurrent'
    <3>1. TypeOK'
      BY <1>1, <2>1, <2>2, IdleView DEF ReaderInv, TypeOK
    <3> QED
      BY <1>1, <2>1, <3>1
         DEF ReaderInv, CacheTimes, EntryTimes, DataRecent, ReadyIsCurrent, Shows
  <2>4. LineSound'
    <3>1. now \in Nat
      BY <1>2 DEF Times
    <3>2. now <= now + QueryLimit
      BY <3>1, ReaderConstants
    <3>3. \E i \in 1 .. Len(line) : line[i] = v
      BY <1>1 DEF ReaderInv, LineSound
    <3> QED
      BY <1>1, <1>3, <2>1, <2>2, <3>1, <3>2, <3>3 DEF ReaderInv, LineSound
  <2>5. ended[Wanted(v)] # None => now >= ended[Wanted(v)] + Refresh
    <3> SUFFICES ASSUME ended[Wanted(v)] # None
                 PROVE  now >= ended[Wanted(v)] + Refresh
      OBVIOUS
    <3>1. entry[Wanted(v)] # None /\ ended[Wanted(v)] = entry[Wanted(v)].attempted
      BY <1>3 DEF ReaderInv, CacheTimes
    <3>2. ended[Wanted(v)] \in Nat /\ now \in Nat
      BY <1>2, <1>3 DEF Times
    <3> QED
      BY <1>5, <3>1, <3>2, ReaderConstants DEF Fresh
  <2>6. \A w \in Viewers : views'[w].phase = "asking" /\ views[w].phase = "waiting" => w = v
    BY <2>2
  <2> QED
    BY <2>3, <2>4, <2>5, <2>6 DEF ReaderInv
<1> QED
  BY <1>4, <1>5

LEMMA ReaderTickStep == ASSUME ReaderInv, ReaderTick PROVE ReaderInv'
<1>1. /\ now < Horizon /\ now' = now + 1 /\ answer' = None
      /\ \A v \in Viewers : views[v].phase = "asking" => now < views[v].asked + QueryLimit
      /\ order' = order /\ entry' = entry /\ line' = line /\ views' = views /\ ended' = ended
  BY DEF ReaderTick
<1>2. now \in Nat /\ now' \in Times /\ now <= now' /\ Horizon \in Nat /\ QueryLimit \in Nat
  BY <1>1, ReaderConstants DEF ReaderInv, TypeOK, Times
<1>3. TypeOK'
  BY <1>1, <1>2 DEF ReaderInv, TypeOK
<1>4. CacheTimes'
  <2> SUFFICES ASSUME NEW k \in Keys, entry[k] # None
               PROVE  entry[k].attempted <= now'
    BY <1>1 DEF ReaderInv, CacheTimes, EntryTimes
  <2>1. entry[k].attempted \in Nat /\ entry[k].attempted <= now
    BY DEF ReaderInv, TypeOK, CacheTimes, EntryTimes, Entry, Times
  <2> QED
    BY <1>1, <1>2, <2>1
<1>5. LineSound'
  <2> SUFFICES ASSUME NEW v \in Viewers, views[v].phase = "asking"
               PROVE  views[v].asked <= now' /\ now' <= views[v].asked + QueryLimit
    BY <1>1 DEF ReaderInv, LineSound
  <2>1. views[v].asked \in Nat
    <3>1. views[v] \in View
      BY IdleView DEF ReaderInv, TypeOK
    <3> QED
      BY <3>1 DEF View, Times
  <2>2. views[v].asked <= now /\ now < views[v].asked + QueryLimit
    BY <1>1 DEF ReaderInv, LineSound
  <2> QED
    BY <1>1, <1>2, <2>1, <2>2
<1> QED
  BY <1>1, <1>3, <1>4, <1>5 DEF ReaderInv, DataRecent, ReadyIsCurrent, Shows
\* The entry after an attempt that ended now: with the data asked for, or by an error.
LEMMA AfterSound ==
    ASSUME now \in Times, NEW e \in Entry \cup {None}, e # None => EntryTimes(e),
           NEW asked \in Times, asked <= now, now <= asked + QueryLimit,
           NEW data \in {asked, None}
    PROVE  /\ After(e, data) \in Entry /\ EntryTimes(After(e, data))
           /\ After(e, data).attempted = now
           /\ now < After(e, data).attempted + Refresh
<1>1. now \in Nat /\ asked \in Nat /\ now < now + Refresh /\ now <= now
  BY ReaderConstants DEF Times
<1>2. CASE data # None
  <2>1. /\ After(e, data) = [data |-> asked, fetched |-> now, failed |-> FALSE,
                             attempted |-> now]
        /\ asked # None /\ now # None
    BY <1>1, <1>2, ReaderConstants DEF After
  <2>2. [data |-> asked, fetched |-> now, failed |-> FALSE, attempted |-> now] \in Entry
    BY <2>1 DEF Entry
  <2> QED
    BY <1>1, <2>1, <2>2 DEF EntryTimes
<1>3. CASE data = None /\ e # None
  <2>1. /\ e \in Entry /\ EntryTimes(e) /\ After(e, data) = [e EXCEPT !.failed = TRUE, !.attempted = now]
    BY <1>3 DEF After
  <2>2. /\ e = [data |-> e.data, fetched |-> e.fetched, failed |-> e.failed,
                attempted |-> e.attempted]
        /\ e.data \in Times \cup {None} /\ e.fetched \in Times \cup {None}
        /\ e.attempted \in Nat /\ (e.data = None <=> e.fetched = None)
    BY <2>1 DEF Entry, Times
  <2>3. After(e, data) = [data |-> e.data, fetched |-> e.fetched, failed |-> TRUE,
                          attempted |-> now]
    BY <2>1, <2>2
  <2>4. [data |-> e.data, fetched |-> e.fetched, failed |-> TRUE, attempted |-> now] \in Entry
    BY <2>2 DEF Entry
  <2>5. e.data # None => e.data <= e.fetched /\ e.fetched <= e.data + QueryLimit
                         /\ e.fetched <= now
    <3>1. e.data # None => e.fetched \in Nat
      BY <2>2 DEF Times
    <3> QED
      BY <1>1, <2>1, <2>2, <3>1 DEF EntryTimes
  <2> QED
    BY <1>1, <2>3, <2>4, <2>5 DEF EntryTimes
<1>4. CASE data = None /\ e = None
  <2>1. After(e, data) = [data |-> None, fetched |-> None, failed |-> TRUE, attempted |-> now]
    BY <1>4 DEF After
  <2>2. [data |-> None, fetched |-> None, failed |-> TRUE, attempted |-> now] \in Entry
    BY DEF Entry
  <2> QED
    BY <1>1, <2>1, <2>2 DEF EntryTimes
<1> QED
  BY <1>2, <1>3, <1>4

\* The order after a key was refreshed: it is there, and the others were there before.
LEMMA HeldOrder ==
    ASSUME NEW keys \in Seq(Keys), IsInjective(keys), NEW k \in Keys, NEW room \in 1 .. Entries
    PROVE  /\ Held(MovedToEnd(keys, k), room) \in Seq(Keys)
           /\ IsInjective(Held(MovedToEnd(keys, k), room))
           /\ Len(Held(MovedToEnd(keys, k), room)) <= Entries
           /\ Contains(Held(MovedToEnd(keys, k), room), k)
           /\ \A q \in Keys :
                 Contains(Held(MovedToEnd(keys, k), room), q) /\ q # k => Contains(keys, q)
<1>1. /\ MovedToEnd(keys, k) \in Seq(Keys) /\ Len(MovedToEnd(keys, k)) \in Nat \ {0}
      /\ MovedToEnd(keys, k)[Len(MovedToEnd(keys, k))] = k
      /\ Keeps(MovedToEnd(keys, k), keys)
  BY MovedOrder
<1>2. IsInjective(MovedToEnd(keys, k))
  BY MovedInjective
<1>3. Len(MovedToEnd(keys, k)) >= 1
  BY <1>1
<1>4. /\ Held(MovedToEnd(keys, k), room) \in Seq(Keys)
      /\ IsInjective(Held(MovedToEnd(keys, k), room))
      /\ Len(Held(MovedToEnd(keys, k), room)) <= Entries
      /\ Contains(Held(MovedToEnd(keys, k), room), MovedToEnd(keys, k)[Len(MovedToEnd(keys, k))])
      /\ \A q : Contains(Held(MovedToEnd(keys, k), room), q)
                   => Contains(MovedToEnd(keys, k), q)
  BY <1>1, <1>2, <1>3, HeldSound
<1>5. ASSUME NEW q \in Keys, q # k, Contains(MovedToEnd(keys, k), q)
      PROVE  Contains(keys, q)
  <2> PICK i \in 1 .. Len(MovedToEnd(keys, k)) : MovedToEnd(keys, k)[i] = q
    BY <1>1, <1>5 DEF Contains
  <2>1. i # Len(MovedToEnd(keys, k))
    BY <1>1, <1>5
  <2>2. i \in 1 .. Len(MovedToEnd(keys, k)) - 1
    BY <1>1, <2>1
  <2> QED
    BY <2>2, <1>1 DEF Keeps, Contains
<1> QED
  BY <1>1, <1>4, <1>5

LEMMA HearStep ==
    ASSUME ReaderInv, NEW v \in Viewers, NEW data \in {views[v].asked, None},
           NEW room \in 1 .. Entries, Hear(v, data, room)
    PROVE  /\ ReaderInv'
           /\ \A w \in Viewers : views'[w].phase = "asking" => views[w].phase = "asking"
<1> DEFINE k == Wanted(v)
           keys == Held(MovedToEnd(order, k), room)
           new == After(entry[k], data)
<1>1. /\ views[v].phase = "asking" /\ order' = keys /\ Reply(v, new) /\ now' = now
      /\ entry' = [q \in Keys |-> IF ~Contains(keys, q) THEN None
                                  ELSE IF q = k THEN new ELSE entry[q]]
      /\ ended' = [q \in Keys |-> IF ~Contains(keys, q) THEN None
                                  ELSE IF q = k THEN now ELSE ended[q]]
  <2>1. order' = keys
    BY DEF Hear
  <2> HIDE DEF keys
  <2>2. \A of, out : [q \in Keys |-> IF ~Contains(order', q) THEN None
                                   ELSE IF q = k THEN out ELSE of[q]]
                     = [q \in Keys |-> IF ~Contains(keys, q) THEN None
                                      ELSE IF q = k THEN out ELSE of[q]]
    BY <2>1
  <2> QED
    BY <2>1, <2>2 DEF Hear
<1>2. /\ views[v] \in View /\ now \in Times /\ order \in Seq(Keys) /\ IsInjective(order)
      /\ entry \in [Keys -> Entry \cup {None}] /\ ended \in [Keys -> Times \cup {None}]
      /\ Range(order) = {q \in Keys : entry[q] # None}
  BY IdleView DEF ReaderInv, TypeOK
<1>3. /\ views[v].wants # <<>> /\ line[1] = v
      /\ views[v].asked <= now /\ now <= views[v].asked + QueryLimit
  BY <1>1 DEF ReaderInv, LineSound
<1>4. k \in Keys /\ views[v].asked \in Times
  BY <1>2, <1>3 DEF Wanted, View
<1>5. /\ new \in Entry /\ EntryTimes(new) /\ new.attempted = now
      /\ now < new.attempted + Refresh /\ new # None
  <2>1. entry[k] \in Entry \cup {None} /\ (entry[k] # None => EntryTimes(entry[k]))
    BY <1>2, <1>4 DEF ReaderInv, CacheTimes
  <2>2. new \in Entry /\ EntryTimes(new) /\ new.attempted = now
        /\ now < new.attempted + Refresh
    BY <1>2, <1>3, <1>4, <2>1, AfterSound
  <2> QED
    BY <2>2, ReaderConstants
<1>6. /\ keys \in Seq(Keys) /\ IsInjective(keys) /\ Len(keys) <= Entries
      /\ Contains(keys, k)
      /\ \A q \in Keys : Contains(keys, q) /\ q # k => Contains(order, q)
  BY <1>2, <1>4, HeldOrder
<1> HIDE DEF k, keys, new
<1>7. /\ line' \in Seq(Viewers) /\ views' \in [Viewers -> View \cup {Idle}]
      /\ answer' \in Answer \cup {None}
      /\ LineSound' /\ DataRecent' /\ ReadyIsCurrent'
      /\ \A w \in Viewers : views'[w].phase = "asking" => views[w].phase = "asking"
  BY <1>1, <1>3, <1>5, ReplySound DEF ReaderInv
<1>8. ASSUME NEW q \in Keys
      PROVE  /\ entry'[q] \in Entry \cup {None} /\ ended'[q] \in Times \cup {None}
             /\ entry'[q] # None <=> Contains(keys, q)
             /\ entry'[q] # None => EntryTimes(entry'[q])
                                    /\ ended'[q] = entry'[q].attempted
             /\ entry'[q] = None => ended'[q] = None
  <2>1. CASE ~Contains(keys, q)
    BY <1>1, <2>1
  <2>2. CASE Contains(keys, q) /\ q = k
    <3>1. entry'[q] = new /\ ended'[q] = now
      BY <1>1, <2>2
    <3> QED
      BY <1>2, <1>5, <2>2, <3>1
  <2>3. CASE Contains(keys, q) /\ q # k
    <3>1. entry'[q] = entry[q] /\ ended'[q] = ended[q]
      BY <1>1, <2>3
    <3>2. Contains(order, q)
      BY <1>6, <2>3
    <3>3. q \in Range(order)
      BY <1>2, <3>2 DEF Contains, Range
    <3>4. entry[q] # None
      BY <1>2, <3>3
    <3> QED
      BY <1>2, <2>3, <3>1, <3>4 DEF ReaderInv, CacheTimes
  <2> QED
    BY <2>1, <2>2, <2>3
<1>9. TypeOK'
  <2>1. entry' \in [Keys -> Entry \cup {None}]
    <3>1. entry' = [q \in Keys |-> entry'[q]]
      BY <1>1
    <3> QED
      BY <1>8, <3>1
  <2>2. ended' \in [Keys -> Times \cup {None}]
    <3>1. ended' = [q \in Keys |-> ended'[q]]
      BY <1>1
    <3> QED
      BY <1>8, <3>1
  <2>3. Range(keys) = {q \in Keys : entry'[q] # None}
    <3>1. \A q : q \in Range(keys) <=> q \in Keys /\ Contains(keys, q)
      BY <1>6 DEF Range, Contains
    <3> QED
      BY <1>8, <3>1
  <2> QED
    BY <1>1, <1>2, <1>6, <1>7, <2>1, <2>2, <2>3 DEF TypeOK
<1>10. CacheTimes'
  BY <1>1, <1>8 DEF CacheTimes, EntryTimes
<1> QED
  BY <1>7, <1>9, <1>10 DEF ReaderInv

\* A query that raises leaves the cache alone, and its viewer leaves the line.
LEMMA BreakStep ==
    ASSUME ReaderInv, NEW v \in Viewers, Break(v)
    PROVE  /\ ReaderInv'
           /\ \A w \in Viewers : views'[w].phase = "asking" => views[w].phase = "asking"
<1>1. /\ views[v].phase = "asking" /\ views' = [views EXCEPT ![v] = Idle]
      /\ line' = Tail(line) /\ answer' = None
      /\ now' = now /\ order' = order /\ entry' = entry /\ ended' = ended
  BY DEF Break
<1>2. /\ line \in Seq(Viewers) /\ Len(line) \in Nat /\ views \in [Viewers -> View \cup {Idle}]
      /\ Idle.phase = "idle" /\ line[1] = v /\ Len(line) >= 1
  BY <1>1 DEF ReaderInv, TypeOK, LineSound, Idle
<1>3. /\ Tail(line) \in Seq(Viewers) /\ Len(Tail(line)) = Len(line) - 1
      /\ \A i \in 1 .. Len(Tail(line)) : Tail(line)[i] = line[i + 1]
  <2>1. line # <<>>
    BY <1>2
  <2> QED
    BY <1>2, <2>1, HeadTailProperties
<1>4. /\ views' \in [Viewers -> View \cup {Idle}] /\ views'[v].phase = "idle"
      /\ \A w \in Viewers : w # v => views'[w] = views[w]
  BY <1>1, <1>2
<1>5. TypeOK'
  BY <1>1, <1>3, <1>4 DEF ReaderInv, TypeOK
<1>6. CacheTimes' /\ DataRecent' /\ ReadyIsCurrent'
  BY <1>1 DEF ReaderInv, CacheTimes, EntryTimes, DataRecent, ReadyIsCurrent, Shows
<1>7. ASSUME NEW w \in Viewers, w # v, views[w].phase # "idle"
      PROVE  /\ views'[w] = views[w] /\ views[w].wants # <<>> /\ views[w].phase # "asking"
             /\ \E i \in 1 .. Len(line') : line'[i] = w
  <2>1. views[w].wants # <<>> /\ \E i \in 1 .. Len(line) : line[i] = w
    BY <1>7 DEF ReaderInv, LineSound
  <2> PICK i \in 1 .. Len(line) : line[i] = w
    BY <2>1
  <2>2. i # 1 /\ views[w].phase # "asking"
    BY <1>2, <1>7 DEF ReaderInv, LineSound
  <2>3. i - 1 \in 1 .. Len(line') /\ line'[i - 1] = w
    BY <1>1, <1>2, <1>3, <2>2
  <2> QED
    BY <1>4, <1>7, <2>1, <2>2, <2>3
<1>8. LineSound'
  BY <1>4, <1>7 DEF LineSound
<1> QED
  BY <1>4, <1>5, <1>6, <1>7, <1>8 DEF ReaderInv

LEMMA ReaderStep ==
    ReaderInv /\ [ReaderNext]_readerVars =>
        /\ ReaderInv'
        /\ \A v \in Viewers :
              views'[v].phase = "asking" /\ views[v].phase = "waiting" /\ ended[Wanted(v)] # None
                 => now >= ended[Wanted(v)] + Refresh
<1> SUFFICES ASSUME ReaderInv, [ReaderNext]_readerVars
             PROVE  /\ ReaderInv'
                    /\ \A v \in Viewers :
                          views'[v].phase = "asking" /\ views[v].phase = "waiting"
                                /\ ended[Wanted(v)] # None
                             => now >= ended[Wanted(v)] + Refresh
  OBVIOUS
<1>1. CASE ReaderTick
  <2>1. views' = views
    BY <1>1 DEF ReaderTick
  <2> QED
    BY <1>1, <2>1, ReaderTickStep
<1>2. ASSUME NEW w \in Viewers, NEW wants \in Wants, Visit(w, wants)
      PROVE  ReaderInv' /\ \A v \in Viewers : views'[v].phase = "asking" => views[v].phase = "asking"
  <2>1. ReaderInv'
    BY <1>2, VisitStep
  <2>2. views' = [views EXCEPT ![w] = [Idle EXCEPT !.wants = wants, !.phase = "waiting"]]
    BY <1>2 DEF Visit
  <2>3. [Idle EXCEPT !.wants = wants, !.phase = "waiting"].phase = "waiting"
    BY DEF Idle
  <2>4. views \in [Viewers -> View]
    BY IdleView DEF ReaderInv, TypeOK
  <2>5. views'[w].phase = "waiting" /\ \A v \in Viewers : v # w => views'[v] = views[v]
    BY <2>2, <2>3, <2>4
  <2> QED
    BY <2>1, <2>5
<1>3. ASSUME NEW w \in Viewers, Turn(w)
      PROVE  /\ ReaderInv'
             /\ \A v \in Viewers :
                   views'[v].phase = "asking" /\ views[v].phase = "waiting"
                         /\ ended[Wanted(v)] # None
                      => now >= ended[Wanted(v)] + Refresh
  BY <1>3, TurnStep
<1>4. ASSUME NEW w \in Viewers, NEW data \in {views[w].asked, None},
             NEW room \in 1 .. Entries, Hear(w, data, room)
      PROVE  ReaderInv' /\ \A v \in Viewers : views'[v].phase = "asking" => views[v].phase = "asking"
  BY <1>4, HearStep
<1>5. CASE UNCHANGED readerVars
  <2>1. /\ now' = now /\ order' = order /\ entry' = entry /\ line' = line /\ views' = views
        /\ answer' = answer /\ ended' = ended
    BY <1>5 DEF readerVars
  <2>2. ReaderInv'
    BY <2>1 DEF ReaderInv, TypeOK, CacheTimes, EntryTimes, LineSound, DataRecent,
                ReadyIsCurrent, Shows
  <2> QED
    BY <2>1, <2>2
<1>6. ASSUME NEW w \in Viewers, Break(w)
      PROVE  ReaderInv' /\ \A v \in Viewers : views'[v].phase = "asking" => views[v].phase = "asking"
  BY <1>6, BreakStep
<1> QED
  BY <1>1, <1>2, <1>3, <1>4, <1>5, <1>6 DEF ReaderNext, Progress

LEMMA ReaderFollowed == [Next]_vars => [ReaderNext]_readerVars
BY DEF Next, OthersStay, vars

\* cached: what a viewer sees is as recent as it is said to be, through any number of failed
\* refreshes, from a cache that keeps to its bound and to its order.
THEOREM ShownKept == FairSpec => []ShownInTime
<1>1. Init => ReaderInv
  BY ReaderStarts DEF Init
<1>2. ReaderInv /\ [Next]_vars => ReaderInv'
  BY ReaderFollowed, ReaderStep
<1>3. ReaderInv => ShownInTime
  BY DEF ReaderInv, ShownInTime
<1> QED
  BY <1>1, <1>2, <1>3, PTL DEF FairSpec

\* cached: Prometheus is not asked again for what a key holds before the refresh is due,
\* however many readers wait for it and also after failures.
THEOREM QueriesKept == FairSpec => QueriesSpaced
<1> DEFINE Spaced == \A v \in Viewers :
              views'[v].phase = "asking" /\ views[v].phase = "waiting" /\ ended[Wanted(v)] # None
                 => now >= ended[Wanted(v)] + Refresh
<1>1. Init => ReaderInv
  BY ReaderStarts DEF Init
<1>2. ReaderInv /\ [Next]_vars => ReaderInv' /\ [Spaced]_readerVars
  BY ReaderFollowed, ReaderStep
<1> QED
  BY <1>1, <1>2, PTL DEF FairSpec, QueriesSpaced

-----------------------------------------------------------------------------
(***************************************************************************)
(* The pages of a table that changes.  Rows have identifiers of their own, *)
(* those of events ascend.  What a walk by cursor has still to show is     *)
(* below its cursor.  The place of a record in the order of the pages is   *)
(* how many records are newer or itself: a walk by offset has shown none   *)
(* whose place is behind its offset unless records came, and has only such *)
(* to show unless some went.                                               *)
(***************************************************************************)
Walk ==
    [how : {"cursor", "offset"}, phase : {"none", "paging", "over", "refused"},
     scope : {"mine", "all"}, seen : Seq(1 .. MaxRows), next : 0 .. MaxRows + MaxOffset,
     began : SUBSET (1 .. MaxRows), grew : BOOLEAN, shrank : BOOLEAN]

Turning(w) == w.phase \in {"none", "paging"}
Seen(w)    == {w.seen[i] : i \in DOMAIN w.seen}

Once(t)      == \A i, j \in DOMAIN t : t[i].id = t[j].id => i = j
Ascending(t) == \A i, j \in DOMAIN t : i < j => t[i].id < t[j].id
Belongs(row, scope) == scope = "all" \/ row.owner = Reader

Ids(t, positions) == {t[j].id : j \in positions}

\* The numbers of the rows of a scope from the row x on.
From(t, scope, x) ==
    Ids(t, {j \in DOMAIN t : Belongs(t[j], scope) /\ \E i \in DOMAIN t : i <= j /\ t[i].id = x})

Place(t, scope, x) == Cardinality(From(t, scope, x))

\* By cursor: what was shown descends to the cursor, and a row of the start that can
\* still be read was shown or is below it.
CursorSound(w) ==
    /\ \A i, j \in DOMAIN w.seen : i < j => w.seen[i] > w.seen[j]
    /\ Turning(w) => IF w.next = 0 THEN w.seen = <<>>
                     ELSE \A i \in DOMAIN w.seen : w.seen[i] >= w.next
    /\ w.phase # "refused" =>
          \A i \in DOMAIN table : table[i].id \in w.began =>
              \/ table[i].id \in Seen(w)
              \/ table[i].id <= hidden
              \/ Turning(w) /\ (w.next = 0 \/ table[i].id < w.next)
    /\ w.scope = "mine" =>
          \A i \in DOMAIN table :
              table[i].id \in Seen(w) \cup w.began => table[i].owner = Reader

\* The row is in the table, and shown or at a place after the offset.
Ahead(w, x) ==
    \E i \in DOMAIN table :
        /\ table[i].id = x /\ Belongs(table[i], w.scope)
        /\ x \in Seen(w) \/ Place(table, w.scope, x) > w.next

\* By offset: as long as no record came, none that was shown has a place after the
\* offset, and as long as none went, those of the start are shown or ahead.
OffsetSound(w) ==
    /\ w.next <= MaxOffset /\ \E n \in Nat : w.next = n * PageSize
    /\ Turning(w) => Len(w.seen) = w.next
    /\ ~w.grew =>
          /\ \A i, j \in DOMAIN w.seen : w.seen[i] = w.seen[j] => i = j
          /\ Turning(w) => \A i \in DOMAIN table :
                Belongs(table[i], w.scope) /\ table[i].id \in Seen(w)
                    => Place(table, w.scope, table[i].id) <= w.next
    /\ ~w.shrank /\ Turning(w) => \A x \in w.began : Ahead(w, x)
    /\ w.phase = "over" /\ ~w.shrank /\ Len(w.seen) < MaxOffset + PageSize
          => w.began \subseteq Seen(w)

TableSound ==
    /\ table \in Seq(Line) /\ Once(table)
    /\ \A i \in DOMAIN table : table[i].id <= written
    /\ walk.how = "cursor" => Ascending(table)
    /\ walk.how = "offset" => hidden = 0

WalkSound(w) ==
    /\ w \in Walk /\ w.how = walk.how
    /\ Seen(w) \cup w.began \subseteq 1 .. written
    /\ w.how = "cursor" => CursorSound(w)
    /\ w.how = "offset" => OffsetSound(w)

PagesInv ==
    /\ written \in 0 .. MaxRows /\ hidden \in 0 .. MaxRows /\ granted \in BOOLEAN
    /\ TableSound
    /\ WalkSound(walk)
    /\ walk.phase = "none" => walk.seen = <<>> /\ walk.next = 0 /\ walk.began = {}

-----------------------------------------------------------------------------
LEMMA PagingConstants ==
    /\ PageSize \in Nat /\ PageSize >= 1 /\ MaxOffset \in Nat /\ MaxOffset >= 1
    /\ RowLimit \in Nat /\ RowLimit >= 1 /\ MaxRows \in Nat /\ MaxRows >= 1
    /\ \E n \in Nat : MaxOffset = n * PageSize
    /\ Reader \in Owners
BY PagingAssumption

LEMMA LinesTyped ==
    ASSUME NEW t \in Seq(Line)
    PROVE  /\ Len(t) \in Nat /\ DOMAIN t = 1 .. Len(t)
           /\ \A i \in DOMAIN t : t[i] \in Line /\ t[i].id \in 1 .. MaxRows /\ t[i].id \in Nat
<1>1. Len(t) \in Nat /\ DOMAIN t = 1 .. Len(t) /\ \A i \in DOMAIN t : t[i] \in Line
  BY LenProperties, ElementOfSeq
<1>2. \A row \in Line : row.id \in 1 .. MaxRows /\ row.id \in Nat
  BY PagingConstants DEF Line
<1> QED
  BY <1>1, <1>2

\* A part of a table keeps its order.
LEMMA PartOrdered ==
    ASSUME NEW s \in Seq(Line), NEW t \in Seq(Line), PartOf(t, s)
    PROVE  Ascending(s) => Ascending(t)
<1>1. \A i \in DOMAIN s : s[i].id \in Nat
  BY LinesTyped
<1> QED
  BY <1>1 DEF PartOf, Ascending

LEMMA PartOnce ==
    ASSUME NEW s \in Seq(Line), NEW t \in Seq(Line), PartOf(t, s), Once(s)
    PROVE  Once(t)
<1> SUFFICES ASSUME NEW m \in DOMAIN t, NEW n \in DOMAIN t, t[m].id = t[n].id, m < n
             PROVE  FALSE
  <2>1. DOMAIN t = 1 .. Len(t) /\ Len(t) \in Nat
    BY LenProperties
  <2>2. \A m, n \in DOMAIN t : m # n => m < n \/ n < m
    BY <2>1
  <2> QED
    BY <2>2 DEF Once
<1>1. PICK i \in DOMAIN s, j \in DOMAIN s : i < j /\ t[m] = s[i] /\ t[n] = s[j]
  BY DEF PartOf
<1>2. i = j
  BY <1>1 DEF Once
<1>3. i \in Nat
  BY LenProperties
<1> QED
  BY <1>1, <1>2, <1>3

LEMMA FromMember ==
    ASSUME NEW t, NEW scope, NEW x, NEW y
    PROVE  y \in From(t, scope, x) <=>
              \E i, j \in DOMAIN t : i <= j /\ t[i].id = x /\ t[j].id = y /\ Belongs(t[j], scope)
BY DEF From, Ids

LEMMA IdsCounted ==
    ASSUME NEW S, NEW t \in Seq(S), NEW J, J \subseteq DOMAIN t
    PROVE  /\ IsFiniteSet(Ids(t, J)) /\ Cardinality(Ids(t, J)) \in Nat
           /\ Once(t) => Cardinality(Ids(t, J)) = Cardinality(J)
<1> DEFINE f == [j \in J |-> t[j].id]
<1>1. IsFiniteSet(J)
  <2>1. IsFiniteSet(1 .. Len(t)) /\ DOMAIN t = 1 .. Len(t)
    BY LenProperties, FS_Interval
  <2> QED
    BY <2>1, FS_Subset
<1>2. f \in Surjection(J, Ids(t, J))
  BY DEF Ids, Surjection
<1>3. Once(t) => f \in Injection(J, Ids(t, J))
  BY DEF Ids, Injection, IsInjective, Once
<1> HIDE DEF f
<1> QED
  BY <1>1, <1>2, <1>3, FS_Surjection, FS_CardinalityType

LEMMA FromFinite ==
    ASSUME NEW S, NEW t \in Seq(S), NEW scope, NEW x
    PROVE  IsFiniteSet(From(t, scope, x)) /\ Place(t, scope, x) \in Nat
BY IdsCounted DEF From, Place

\* What is ahead of a row in a part of the table is ahead of it in the whole.
LEMMA FromPart ==
    ASSUME NEW s \in Seq(Line), NEW t \in Seq(Line), PartOf(t, s), NEW scope, NEW x
    PROVE  Place(t, scope, x) <= Place(s, scope, x)
<1>1. From(t, scope, x) \subseteq From(s, scope, x)
  <2> SUFFICES ASSUME NEW y \in From(t, scope, x) PROVE y \in From(s, scope, x)
    OBVIOUS
  <2>1. PICK i \in DOMAIN t, j \in DOMAIN t :
            i <= j /\ t[i].id = x /\ t[j].id = y /\ Belongs(t[j], scope)
    BY FromMember
  <2>2. i \in Nat /\ j \in Nat
    BY LenProperties
  <2>3. \E k, l \in DOMAIN s : k <= l /\ s[k] = t[i] /\ s[l] = t[j]
    <3>1. CASE i = j
      <4>1. PICK k \in DOMAIN s : t[i] = s[k]
        BY DEF PartOf
      <4>2. k <= k
        BY LenProperties
      <4> QED
        BY <3>1, <4>1, <4>2
    <3>2. CASE i < j
      <4>1. PICK k \in DOMAIN s, l \in DOMAIN s : k < l /\ t[i] = s[k] /\ t[j] = s[l]
        BY <3>2 DEF PartOf
      <4>2. k <= l
        BY <4>1, LenProperties
      <4> QED
        BY <4>1, <4>2
    <3> QED
      BY <2>1, <2>2, <3>1, <3>2
  <2> QED
    BY <2>1, <2>3, FromMember
<1> QED
  BY <1>1, FromFinite, FS_Subset DEF Place

-----------------------------------------------------------------------------
\* The rows of a scope, newest first, each at its place.
LEMMA SelectedRows ==
    ASSUME table \in Seq(Line), NEW scope, NEW before
    PROVE  /\ Selected(scope, before) \in Seq(1 .. MaxRows)
           /\ \A n \in 1 .. Len(Selected(scope, before)) :
                 \E i \in Readable(scope, before) :
                    /\ Selected(scope, before)[n] = table[i].id
                    /\ Cardinality(AtLeast(Readable(scope, before), i)) = n
           /\ \A i \in Readable(scope, before) :
                 \E n \in 1 .. Len(Selected(scope, before)) :
                    /\ Cardinality(AtLeast(Readable(scope, before), i)) = n
                    /\ Selected(scope, before)[n] = table[i].id
<1> DEFINE I == Readable(scope, before)
           lines == Reverse(RowsAt(table, I))
           rows == Selected(scope, before)
<1>1. I \subseteq DOMAIN table
  BY DEF Readable
<1>2. rows = [i \in DOMAIN lines |-> lines[i].id]
  BY DEF Selected
<1> HIDE DEF I
<1>3. /\ lines \in Seq(Line) /\ Len(lines) = Cardinality(I)
      /\ \A n \in 1 .. Cardinality(I) :
            \E i \in I : lines[n] = table[i] /\ Cardinality(AtLeast(I, i)) = n
      /\ \A i \in I : /\ Cardinality(AtLeast(I, i)) \in 1 .. Cardinality(I)
                      /\ lines[Cardinality(AtLeast(I, i))] = table[i]
  BY <1>1, Backwards
<1> HIDE DEF lines, rows
<1>4. /\ DOMAIN lines = 1 .. Cardinality(I) /\ Cardinality(I) \in Nat
      /\ \A n \in DOMAIN lines : lines[n].id \in 1 .. MaxRows
  BY <1>3, LinesTyped
<1>5. rows \in [1 .. Cardinality(I) -> 1 .. MaxRows]
      /\ \A n \in 1 .. Cardinality(I) : rows[n] = lines[n].id
  BY <1>2, <1>4
<1>6. rows \in Seq(1 .. MaxRows) /\ Len(rows) = Cardinality(I)
  <2>1. rows \in Seq(1 .. MaxRows)
    <3>1. Cardinality(I) \in Nat /\ rows \in [1 .. Cardinality(I) -> 1 .. MaxRows]
      BY <1>4, <1>5
    <3> QED
      BY ONLY <3>1, SeqDef, Zenon
  <2>2. DOMAIN rows = 1 .. Cardinality(I) /\ DOMAIN rows = 1 .. Len(rows) /\ Len(rows) \in Nat
    BY <1>5, <2>1, LenProperties
  <2> QED
    BY <1>4, <2>1, <2>2
<1>7. ASSUME NEW n \in 1 .. Len(rows)
      PROVE  \E i \in I : rows[n] = table[i].id /\ Cardinality(AtLeast(I, i)) = n
  BY <1>3, <1>5, <1>6
<1>8. ASSUME NEW i \in I
      PROVE  \E n \in 1 .. Len(rows) :
                Cardinality(AtLeast(I, i)) = n /\ rows[n] = table[i].id
  <2>1. Cardinality(AtLeast(I, i)) \in 1 .. Cardinality(I)
        /\ lines[Cardinality(AtLeast(I, i))] = table[i]
    BY <1>3
  <2> QED
    BY <1>5, <1>6, <2>1
<1> QED
  BY <1>6, <1>7, <1>8 DEF I, rows

LEMMA SelectedDescends ==
    ASSUME table \in Seq(Line), Ascending(table), NEW scope, NEW before
    PROVE  \A m, n \in 1 .. Len(Selected(scope, before)) :
              m < n => Selected(scope, before)[m] > Selected(scope, before)[n]
<1> DEFINE I == Readable(scope, before)
           rows == Selected(scope, before)
<1> SUFFICES ASSUME NEW m \in 1 .. Len(rows), NEW n \in 1 .. Len(rows), m < n
             PROVE  rows[m] > rows[n]
  OBVIOUS
<1>1. PICK i \in I : rows[m] = table[i].id /\ Cardinality(AtLeast(I, i)) = m
  BY SelectedRows
<1>2. PICK j \in I : rows[n] = table[j].id /\ Cardinality(AtLeast(I, j)) = n
  BY SelectedRows
<1>3. I \subseteq DOMAIN table /\ IsFiniteSet(I)
  <2>1. I \subseteq DOMAIN table
    BY DEF Readable
  <2>2. IsFiniteSet(1 .. Len(table)) /\ DOMAIN table = 1 .. Len(table)
    BY LinesTyped, FS_Interval
  <2> QED
    BY <2>1, <2>2, FS_Subset
<1> HIDE DEF I, rows
<1>4. i \in Nat /\ j \in Nat /\ m \in Nat /\ n \in Nat
      /\ table[i].id \in Nat /\ table[j].id \in Nat
  BY <1>1, <1>2, <1>3, LinesTyped
<1>5. ~(i <= j)
  <2> SUFFICES ASSUME i <= j PROVE FALSE
    OBVIOUS
  <2>1. \A k \in I : k \in Nat
    BY <1>3, LinesTyped
  <2>2. AtLeast(I, j) \subseteq AtLeast(I, i) /\ AtLeast(I, i) \subseteq I
    <3>1. \A k \in Nat : k >= j => k >= i
      BY <1>4, i <= j
    <3> QED
      BY ONLY <2>1, <3>1, Zenon DEF AtLeast
  <2>3. IsFiniteSet(AtLeast(I, i))
    BY <1>3, <2>2, FS_Subset
  <2>4. n <= m
    BY <1>1, <1>2, <2>2, <2>3, FS_Subset
  <2> QED
    BY <1>4, <2>4
<1>6. table[j].id < table[i].id
  BY <1>1, <1>2, <1>3, <1>4, <1>5 DEF Ascending
<1> QED
  BY <1>1, <1>2, <1>4, <1>6

\* The place of a record is its position in the order of the pages.
LEMMA PlaceCounted ==
    ASSUME table \in Seq(Line), Once(table), hidden = 0,
           NEW scope, NEW i \in DOMAIN table, Belongs(table[i], scope)
    PROVE  i \in Readable(scope, 0)
           /\ Place(table, scope, table[i].id) = Cardinality(AtLeast(Readable(scope, 0), i))
<1> DEFINE I == Readable(scope, 0)
<1>1. I = {j \in DOMAIN table : Belongs(table[j], scope)}
  BY LinesTyped DEF Readable, Belongs, Alive
<1>2. {j \in DOMAIN table : Belongs(table[j], scope)
                             /\ \E k \in DOMAIN table : k <= j /\ table[k].id = table[i].id}
        = AtLeast(I, i)
  <2>1. \A j \in DOMAIN table :
            (\E k \in DOMAIN table : k <= j /\ table[k].id = table[i].id) <=> j >= i
    BY LinesTyped DEF Once
  <2> QED
    BY <1>1, <2>1 DEF AtLeast
<1>3. From(table, scope, table[i].id) = Ids(table, AtLeast(I, i))
  BY <1>2 DEF From
<1>4. AtLeast(I, i) \subseteq DOMAIN table /\ i \in I
  BY <1>1 DEF AtLeast
<1> HIDE DEF I
<1> QED
  BY <1>3, <1>4, IdsCounted DEF Place, I

LEMMA PlaceOfRow ==
    ASSUME table \in Seq(Line), Once(table), hidden = 0,
           NEW scope, NEW i \in DOMAIN table, Belongs(table[i], scope)
    PROVE  /\ Place(table, scope, table[i].id) \in 1 .. Len(Selected(scope, 0))
           /\ Selected(scope, 0)[Place(table, scope, table[i].id)] = table[i].id
BY PlaceCounted, SelectedRows

\* And at each position there is the record of that place.
LEMMA RowOfPlace ==
    ASSUME table \in Seq(Line), Once(table), hidden = 0,
           NEW scope, NEW n \in 1 .. Len(Selected(scope, 0))
    PROVE  \E i \in DOMAIN table :
              /\ Belongs(table[i], scope) /\ table[i].id = Selected(scope, 0)[n]
              /\ Place(table, scope, table[i].id) = n
<1>1. PICK i \in Readable(scope, 0) :
          /\ Selected(scope, 0)[n] = table[i].id
          /\ Cardinality(AtLeast(Readable(scope, 0), i)) = n
  BY SelectedRows
<1>2. i \in DOMAIN table /\ Belongs(table[i], scope)
  BY DEF Readable, Belongs
<1> QED
  BY <1>1, <1>2, PlaceCounted

-----------------------------------------------------------------------------
\* What a walk is, was shown and has still to show does not change with the table.
WalkStays ==
    /\ walk' \in Walk
    /\ walk'.how = walk.how /\ walk'.phase = walk.phase /\ walk'.scope = walk.scope
    /\ walk'.seen = walk.seen /\ walk'.next = walk.next /\ walk'.began = walk.began
    /\ (walk'.grew \/ ~walk.grew) /\ (walk'.shrank \/ ~walk.shrank)

LEMMA ChangedWalk ==
    ASSUME walk \in Walk, NEW after, Changed(after)
    PROVE  /\ table' = after /\ WalkStays
           /\ walk.phase # "none" =>
                 /\ ~(Numbers(after) \subseteq Numbers(table)) => walk'.grew
                 /\ ~(Numbers(table) \subseteq Numbers(after)) => walk'.shrank
<1>1. CASE walk.phase = "none"
  BY <1>1 DEF Changed, WalkStays
<1>2. CASE walk.phase # "none"
  <2> DEFINE came == ~(Numbers(after) \subseteq Numbers(table))
             went == ~(Numbers(table) \subseteq Numbers(after))
  <2>1. walk' = [walk EXCEPT !.grew = @ \/ came, !.shrank = @ \/ went]
    BY <1>2 DEF Changed
  <2> HIDE DEF came, went
  <2>2. WalkStays /\ (came => walk'.grew) /\ (went => walk'.shrank)
    <3>1. came \in BOOLEAN /\ went \in BOOLEAN
      BY DEF came, went
    <3> QED
      BY <2>1, <3>1 DEF WalkStays, Walk
  <2> QED
    BY <2>2 DEF Changed, came, went
<1> QED
  BY <1>1, <1>2

LEMMA AscendingOnce ==
    ASSUME NEW t \in Seq(Line), Ascending(t)
    PROVE  Once(t)
<1> SUFFICES ASSUME NEW i \in DOMAIN t, NEW j \in DOMAIN t, t[i].id = t[j].id, i # j
             PROVE  FALSE
  BY DEF Once
<1>1. i < j \/ j < i
  BY LinesTyped
<1> QED
  BY <1>1, LinesTyped DEF Ascending

\* Events: rows go, or one comes with the next number.
LEMMA CursorTable ==
    ASSUME PagesInv, walk.how = "cursor", WalkStays,
           written' \in 0 .. MaxRows, written <= written',
           hidden' \in 0 .. MaxRows, hidden <= hidden', granted' \in BOOLEAN,
           table' \in Seq(Line), Ascending(table'),
           \A i \in DOMAIN table' :
              \/ \E k \in DOMAIN table : table'[i] = table[k]
              \/ written' = written + 1 /\ table'[i].id = written'
    PROVE  PagesInv'
<1>1. written \in Nat /\ written' \in Nat /\ hidden \in Nat /\ hidden' \in Nat
  BY PagingConstants DEF PagesInv
<1>2. TableSound'
  <2>1. Once(table')
    BY AscendingOnce
  <2>2. \A i \in DOMAIN table' : table'[i].id <= written'
    BY <1>1, LinesTyped DEF PagesInv, TableSound
  <2> QED
    BY <2>1, <2>2 DEF TableSound, WalkStays, Once, Ascending
<1>3. \A x \in Seen(walk) \cup walk.began : x \in 1 .. written /\ x \in 1 .. written'
  BY <1>1 DEF PagesInv, WalkSound
<1>4. Seen(walk') = Seen(walk) /\ (Turning(walk') <=> Turning(walk))
  BY DEF WalkStays, Seen, Turning
<1>5. \A i \in DOMAIN table' : table'[i].id \in Seen(walk) \cup walk.began =>
          \E k \in DOMAIN table : table'[i] = table[k]
  BY <1>1, <1>3
<1>6. CursorSound(walk)
  BY DEF PagesInv, WalkSound
<1>7. \A i \in DOMAIN table' : table'[i].id \in Nat
  BY LinesTyped
<1>8. CursorSound(walk)'
  <2>1. /\ \A i, j \in DOMAIN walk'.seen : i < j => walk'.seen[i] > walk'.seen[j]
        /\ Turning(walk') => IF walk'.next = 0 THEN walk'.seen = <<>>
                          ELSE \A i \in DOMAIN walk'.seen : walk'.seen[i] >= walk'.next
    BY <1>4, <1>6 DEF CursorSound, WalkStays
  <2>2. ASSUME walk'.phase # "refused", NEW i \in DOMAIN table', table'[i].id \in walk'.began
        PROVE  \/ table'[i].id \in Seen(walk')
               \/ table'[i].id <= hidden'
               \/ Turning(walk') /\ (walk'.next = 0 \/ table'[i].id < walk'.next)
    <3>1. PICK k \in DOMAIN table : table'[i] = table[k]
      BY <1>5, <2>2 DEF WalkStays
    <3>2. \/ table[k].id \in Seen(walk)
          \/ table[k].id <= hidden
          \/ Turning(walk) /\ (walk.next = 0 \/ table[k].id < walk.next)
      BY <1>6, <2>2, <3>1 DEF CursorSound, WalkStays
    <3>3. table[k].id <= hidden => table'[i].id <= hidden'
      BY <1>1, <1>7, <3>1
    <3> QED
      BY <1>4, <3>1, <3>2, <3>3 DEF WalkStays
  <2>3. ASSUME walk'.scope = "mine", NEW i \in DOMAIN table',
               table'[i].id \in Seen(walk') \cup walk'.began
        PROVE  table'[i].owner = Reader
    <3>1. PICK k \in DOMAIN table : table'[i] = table[k]
      BY <1>4, <1>5, <2>3 DEF WalkStays
    <3> QED
      BY <1>4, <1>6, <2>3, <3>1 DEF CursorSound, WalkStays
  <2> QED
    BY <2>1, <2>2, <2>3 DEF CursorSound, Seen, Turning
<1>9. WalkSound(walk)'
  BY <1>3, <1>4, <1>8 DEF WalkSound, WalkStays, Seen
<1> QED
  BY <1>2, <1>9 DEF PagesInv, WalkStays

\* What OffsetSound says of the walk and the rows under way.
Behind(t, w) ==
    \A i \in DOMAIN t :
        Belongs(t[i], w.scope) /\ t[i].id \in Seen(w)
            => Place(t, w.scope, t[i].id) <= w.next

InFront(t, w) ==
    \A x \in w.began :
        \E i \in DOMAIN t :
            /\ t[i].id = x /\ Belongs(t[i], w.scope)
            /\ x \in Seen(w) \/ Place(t, w.scope, x) > w.next

\* Records: some go, or one comes anywhere.
LEMMA OffsetTable ==
    ASSUME PagesInv, walk.how = "offset", Turning(walk), WalkStays,
           written' \in 0 .. MaxRows, written <= written',
           hidden' = hidden, granted' \in BOOLEAN,
           table' \in Seq(Line), Once(table'),
           \A i \in DOMAIN table' : table'[i].id <= written',
           Behind(table, walk) => Behind(table', walk) \/ walk'.grew,
           InFront(table, walk) => InFront(table', walk) \/ walk'.shrank
    PROVE  PagesInv'
<1>1. written \in Nat /\ written' \in Nat
  BY PagingConstants DEF PagesInv
<1>2. TableSound'
  BY DEF PagesInv, TableSound, WalkStays, Once, Ascending
<1>3. Seen(walk') = Seen(walk) /\ Turning(walk')
  BY DEF WalkStays, Seen, Turning
<1>4. OffsetSound(walk) /\ Seen(walk) \cup walk.began \subseteq 1 .. written
  BY DEF PagesInv, WalkSound
<1>5. /\ ~walk.grew => Behind(table, walk)
      /\ ~walk.shrank => InFront(table, walk)
  BY <1>4 DEF OffsetSound, Ahead, Behind, InFront
<1>6. /\ ~walk'.grew => Behind(table', walk')
      /\ ~walk'.shrank => InFront(table', walk')
  BY <1>3, <1>5 DEF Behind, InFront, WalkStays
<1>7. OffsetSound(walk)'
  <2>1. /\ walk'.next <= MaxOffset /\ \E n \in Nat : walk'.next = n * PageSize
        /\ Turning(walk') => Len(walk'.seen) = walk'.next
        /\ ~walk'.grew => \A i, j \in DOMAIN walk'.seen : walk'.seen[i] = walk'.seen[j] => i = j
    BY <1>3, <1>4 DEF OffsetSound, WalkStays, Turning
  <2>2. walk'.phase # "over"
    BY <1>3 DEF Turning
  <2> QED
    BY <1>6, <2>1, <2>2 DEF OffsetSound, Ahead, Behind, InFront, Turning, Seen, Place, From,
                               Ids, Belongs
<1>8. WalkSound(walk)'
  <2>1. Seen(walk') \cup walk'.began \subseteq 1 .. written'
    BY <1>1, <1>3, <1>4 DEF WalkStays
  <2> QED
    BY <1>7, <2>1 DEF WalkSound, WalkStays, Seen, PagesInv
<1> QED
  BY <1>2, <1>8 DEF PagesInv, WalkStays

LEMMA BehindPart ==
    ASSUME NEW s \in Seq(Line), NEW t \in Seq(Line), PartOf(t, s), walk \in Walk, Behind(s, walk)
    PROVE  Behind(t, walk)
<1> SUFFICES ASSUME NEW i \in DOMAIN t, Belongs(t[i], walk.scope), t[i].id \in Seen(walk)
             PROVE  Place(t, walk.scope, t[i].id) <= walk.next
  BY DEF Behind
<1>1. PICK k \in DOMAIN s : t[i] = s[k]
  BY DEF PartOf
<1>2. Place(s, walk.scope, t[i].id) <= walk.next
  BY <1>1 DEF Behind
<1>3. Place(t, walk.scope, t[i].id) <= Place(s, walk.scope, t[i].id)
  BY FromPart
<1>4. /\ Place(t, walk.scope, t[i].id) \in Nat /\ Place(s, walk.scope, t[i].id) \in Nat
      /\ walk.next \in Nat
  BY FromFinite, PagingConstants DEF Walk
<1> QED
  BY <1>2, <1>3, <1>4

LEMMA InFrontWhole ==
    ASSUME NEW s \in Seq(Line), NEW t \in Seq(Line), PartOf(t, s), walk \in Walk, InFront(t, walk)
    PROVE  InFront(s, walk)
<1> SUFFICES ASSUME NEW x \in walk.began
             PROVE  \E i \in DOMAIN s :
                       /\ s[i].id = x /\ Belongs(s[i], walk.scope)
                       /\ x \in Seen(walk) \/ Place(s, walk.scope, x) > walk.next
  BY DEF InFront
<1>1. PICK i \in DOMAIN t :
          /\ t[i].id = x /\ Belongs(t[i], walk.scope)
          /\ x \in Seen(walk) \/ Place(t, walk.scope, x) > walk.next
  BY DEF InFront
<1>2. PICK k \in DOMAIN s : t[i] = s[k]
  BY DEF PartOf
<1>3. Place(t, walk.scope, x) <= Place(s, walk.scope, x)
  BY FromPart
<1>4. /\ Place(t, walk.scope, x) \in Nat /\ Place(s, walk.scope, x) \in Nat
      /\ walk.next \in Nat
  BY FromFinite, PagingConstants DEF Walk
<1>5. Place(t, walk.scope, x) > walk.next => Place(s, walk.scope, x) > walk.next
  BY <1>3, <1>4
<1> QED
  BY <1>1, <1>2, <1>5

\* A record that goes is a number that went.
LEMMA OffsetDeleted ==
    ASSUME PagesInv, walk.how = "offset", Turning(walk), NEW after \in Seq(Line),
           PartOf(after, table),
           NEW k \in DOMAIN table,
           \A n \in DOMAIN after : \E i \in DOMAIN table \ {k} : after[n] = table[i],
           Changed(after), written' = written, hidden' = hidden, granted' = granted
    PROVE  PagesInv'
<1>1. walk \in Walk /\ table \in Seq(Line) /\ Once(table)
  BY DEF PagesInv, TableSound, WalkSound
<1>2. table' = after /\ WalkStays
      /\ (walk.phase # "none" /\ ~(Numbers(table) \subseteq Numbers(after)) => walk'.shrank)
  BY <1>1, ChangedWalk
<1>3. table[k].id \in Numbers(table) /\ table[k].id \notin Numbers(after)
  BY <1>1 DEF Numbers, Once
<1>4. Once(after) /\ \A i \in DOMAIN after : after[i].id <= written
  <2>1. Once(after)
    BY <1>1, PartOnce
  <2> QED
    BY <2>1 DEF PagesInv, TableSound
<1>5. Behind(table, walk) => Behind(after, walk)
  BY <1>1, BehindPart
<1>6. InFront(table, walk) => InFront(after, walk) \/ walk'.shrank
  <2>1. CASE walk.phase = "none"
    BY <2>1 DEF PagesInv, InFront
  <2>2. CASE walk.phase # "none"
    BY <1>2, <1>3, <2>2
  <2> QED
    BY <2>1, <2>2
<1>7. written <= written /\ written \in 0 .. MaxRows /\ granted \in BOOLEAN
  BY PagingConstants DEF PagesInv
<1> QED
  BY <1>2, <1>4, <1>5, <1>6, <1>7, OffsetTable

\* A record that comes is a number that came.
LEMMA OffsetInserted ==
    ASSUME PagesInv, walk.how = "offset", Turning(walk), written < MaxRows,
           NEW row \in Line, row.id = written + 1, NEW n \in 0 .. Len(table),
           Changed(SubSeq(table, 1, n) \o <<row>> \o SubSeq(table, n + 1, Len(table))),
           written' = written + 1, hidden' = hidden, granted' = granted
    PROVE  PagesInv'
<1> DEFINE after == SubSeq(table, 1, n) \o <<row>> \o SubSeq(table, n + 1, Len(table))
<1>1. walk \in Walk /\ table \in Seq(Line) /\ Once(table) /\ written \in Nat
      /\ \A i \in DOMAIN table : table[i].id <= written
  BY PagingConstants DEF PagesInv, TableSound, WalkSound
<1>2. Len(table) \in Nat /\ n \in Nat /\ n <= Len(table) /\ DOMAIN table = 1 .. Len(table)
  BY <1>1, LinesTyped
<1>3. /\ after \in Seq(Line) /\ Len(after) = Len(table) + 1
      /\ \A i \in 1 .. Len(table) + 1 :
            after[i] = IF i <= n THEN table[i] ELSE IF i = n + 1 THEN row ELSE table[i - 1]
  <2> DEFINE head == SubSeq(table, 1, n)
             tail == SubSeq(table, n + 1, Len(table))
             most == head \o <<row>>
  <2>0. \A i \in 1 .. Len(table) : table[i] \in Line
    BY <1>1, ElementOfSeq
  <2>1. /\ head \in Seq(Line) /\ Len(head) = n
        /\ \A i \in 1 .. n : head[i] = table[i]
    <3>1. \A i \in 1 .. n : table[i] \in Line
      BY <1>2, <2>0
    <3>2. /\ head \in Seq(Line) /\ Len(head) = IF 1 <= n THEN n - 1 + 1 ELSE 0
          /\ \A i \in 1 .. n - 1 + 1 : head[i] = table[1 + i - 1]
      BY <1>2, <3>1, SubSeqProperties
    <3> HIDE DEF head
    <3> QED
      BY <1>2, <3>2
  <2>2. /\ tail \in Seq(Line) /\ Len(tail) = Len(table) - n
        /\ \A i \in 1 .. Len(table) - n : tail[i] = table[n + i]
    <3>1. \A i \in n + 1 .. Len(table) : table[i] \in Line
      BY <1>2, <2>0
    <3>2. /\ tail \in Seq(Line)
          /\ Len(tail) = IF n + 1 <= Len(table) THEN Len(table) - (n + 1) + 1 ELSE 0
          /\ \A i \in 1 .. Len(table) - (n + 1) + 1 : tail[i] = table[(n + 1) + i - 1]
      <4>1. n + 1 \in Int /\ Len(table) \in Int
        BY <1>2, SMTT(20)
      <4> QED
        BY <3>1, <4>1, SubSeqProperties
    <3> HIDE DEF tail
    <3>3. /\ Len(table) - (n + 1) + 1 = Len(table) - n
          /\ ~(n + 1 <= Len(table)) => Len(table) - n = 0
          /\ \A i \in 1 .. Len(table) - n : (n + 1) + i - 1 = n + i
      <4>1. \A l, m \in Nat : m <= l =>
                /\ l - (m + 1) + 1 = l - m
                /\ ~(m + 1 <= l) => l - m = 0
                /\ \A i \in 1 .. l - m : (m + 1) + i - 1 = m + i
        OBVIOUS
      <4> QED
        BY ONLY <1>2, <4>1, ZenonT(40)
    <3>4. Len(tail) = Len(table) - n
      BY <3>2, <3>3, ZenonT(40)
    <3>5. \A i \in 1 .. Len(table) - n : tail[i] = table[n + i]
      BY <3>2, <3>3
    <3> QED
      BY <3>2, <3>4, <3>5
  <2>3. <<row>> \in Seq(Line) /\ Len(<<row>>) = 1 /\ <<row>>[1] = row
    OBVIOUS
  <2> HIDE DEF head, tail
  <2>4. /\ most \in Seq(Line) /\ Len(most) = n + 1
        /\ \A i \in 1 .. n + 1 : most[i] = IF i <= n THEN head[i] ELSE <<row>>[i - n]
    BY <2>1, <2>3, ConcatProperties
  <2> HIDE DEF most
  <2>5. \A i \in 1 .. n + 1 : most[i] = IF i <= n THEN table[i] ELSE row
    BY <1>2, <2>1, <2>3, <2>4
  <2>6. /\ most \o tail \in Seq(Line) /\ Len(most \o tail) = (n + 1) + (Len(table) - n)
        /\ \A i \in 1 .. (n + 1) + (Len(table) - n) :
              (most \o tail)[i] = IF i <= n + 1 THEN most[i] ELSE tail[i - (n + 1)]
    <3>1. Len(most) = n + 1 /\ Len(tail) = Len(table) - n
      BY <2>2, <2>4
    <3>2. /\ most \o tail \in Seq(Line) /\ Len(most \o tail) = Len(most) + Len(tail)
          /\ \A i \in 1 .. Len(most) + Len(tail) :
                (most \o tail)[i] = IF i <= Len(most) THEN most[i] ELSE tail[i - Len(most)]
      BY <2>2, <2>4, ConcatProperties
    <3> QED
      BY ONLY <3>1, <3>2
  <2>7. after = most \o tail
    BY DEF most, head, tail
  <2> HIDE DEF after
  <2>8. (n + 1) + (Len(table) - n) = Len(table) + 1
    BY <1>2
  <2>9. ASSUME NEW i \in 1 .. Len(table) + 1
        PROVE  after[i] = IF i <= n THEN table[i] ELSE IF i = n + 1 THEN row ELSE table[i - 1]
    <3>1. CASE i <= n + 1
      <4>1. i \in 1 .. (n + 1) + (Len(table) - n) /\ i \in 1 .. n + 1
        BY <1>2, <2>8, <3>1
      <4>2. after[i] = IF i <= n THEN table[i] ELSE row
        BY <2>5, <2>6, <2>7, <3>1, <4>1
      <4>3. ~(i <= n) => i = n + 1
        BY <1>2, <3>1
      <4> QED
        BY <4>2, <4>3
    <3>2. CASE ~(i <= n + 1)
      <4>1. i - (n + 1) \in 1 .. Len(table) - n /\ n + (i - (n + 1)) = i - 1
        BY <1>2, <3>2
      <4>2. after[i] = tail[i - (n + 1)]
        BY <2>6, <2>7, <2>8, <3>2
      <4> QED
        BY <1>2, <2>2, <3>2, <4>1, <4>2, SMTT(20)
    <3> QED
      BY <3>1, <3>2
  <2> QED
    BY <2>6, <2>7, <2>8, <2>9
<1> HIDE DEF after
<1>4. DOMAIN after = 1 .. Len(table) + 1
  BY <1>3, LinesTyped
<1>5. PartOf(table, after)
  <2>1. \A i \in 1 .. Len(table) :
            /\ i <= n => i \in DOMAIN after /\ after[i] = table[i]
            /\ i > n => i + 1 \in DOMAIN after /\ after[i + 1] = table[i]
    BY <1>2, <1>3, <1>4
  <2>2. ASSUME NEW i \in 1 .. Len(table)
        PROVE  \E j \in DOMAIN after :
                  table[i] = after[j] /\ (j = i \/ j = i + 1) /\ (j = i <=> i <= n)
    BY <1>2, <2>1
  <2>3. ASSUME NEW i \in 1 .. Len(table), NEW j \in 1 .. Len(table), i < j
        PROVE  \E k, l \in DOMAIN after : k < l /\ table[i] = after[k] /\ table[j] = after[l]
    <3>1. PICK k \in DOMAIN after :
              table[i] = after[k] /\ (k = i \/ k = i + 1) /\ (k = i <=> i <= n)
      BY <2>2
    <3>2. PICK l \in DOMAIN after :
              table[j] = after[l] /\ (l = j \/ l = j + 1) /\ (l = j <=> j <= n)
      BY <2>2
    <3>3. k < l
      BY <1>2, <2>3, <3>1, <3>2
    <3> QED
      BY <3>1, <3>2, <3>3
  <2> QED
    BY <1>2, <2>2, <2>3 DEF PartOf
<1>6. /\ \A i \in DOMAIN after : after[i].id <= written + 1
      /\ Once(after)
  <2>1. \A i \in DOMAIN after :
            \/ i <= n /\ after[i] = table[i] /\ i \in DOMAIN table
            \/ i = n + 1 /\ after[i] = row
            \/ i > n + 1 /\ after[i] = table[i - 1] /\ i - 1 \in DOMAIN table
    BY <1>2, <1>3, <1>4
  <2>2. \A i \in DOMAIN table :
            table[i].id \in Nat /\ table[i].id <= written /\ table[i].id # written + 1
    BY <1>1, LinesTyped
  <2>3. \A i \in DOMAIN after : after[i].id <= written + 1
    BY <1>1, <2>1, <2>2
  <2>4. ASSUME NEW i \in DOMAIN after, NEW j \in DOMAIN after, after[i].id = after[j].id
        PROVE  i = j
    <3>1. i \in Nat /\ j \in Nat /\ n \in Nat
      BY <1>2, <1>4
    <3>2. CASE i = n + 1
      <4>1. after[i].id = written + 1
        BY <1>1, <2>1, <3>1, <3>2
      <4>2. ~(j # n + 1)
        BY <2>1, <2>2, <2>4, <3>1, <4>1
      <4> QED
        BY <3>2, <4>2
    <3>3. CASE j = n + 1
      <4>1. after[j].id = written + 1
        BY <1>1, <2>1, <3>1, <3>3
      <4>2. ~(i # n + 1)
        BY <2>1, <2>2, <2>4, <3>1, <4>1
      <4> QED
        BY <3>3, <4>2
    <3>4. CASE i # n + 1 /\ j # n + 1
      <4>1. PICK k \in DOMAIN table :
                after[i] = table[k] /\ ((i <= n /\ k = i) \/ (i > n + 1 /\ k = i - 1))
        BY <2>1, <3>1, <3>4
      <4>2. PICK l \in DOMAIN table :
                after[j] = table[l] /\ ((j <= n /\ l = j) \/ (j > n + 1 /\ l = j - 1))
        BY <2>1, <3>1, <3>4
      <4>3. k = l
        BY <1>1, <2>4, <4>1, <4>2 DEF Once
      <4> QED
        BY <3>1, <4>1, <4>2, <4>3
    <3> QED
      BY <3>2, <3>3, <3>4
  <2> QED
    BY <2>3, <2>4 DEF Once
<1>7. table' = after /\ WalkStays
      /\ (walk.phase # "none" /\ ~(Numbers(after) \subseteq Numbers(table)) => walk'.grew)
  BY <1>1, ChangedWalk DEF after
<1>8. row.id \in Numbers(after) /\ row.id \notin Numbers(table)
  <2>1. n + 1 \in DOMAIN after /\ after[n + 1] = row
    BY <1>2, <1>3, <1>4
  <2>2. \A i \in DOMAIN table : table[i].id \in Nat /\ table[i].id # written + 1
    BY <1>1, LinesTyped
  <2> QED
    BY <2>1, <2>2 DEF Numbers
<1>9. Behind(table, walk) => Behind(after, walk) \/ walk'.grew
  <2>1. CASE walk.phase = "none"
    BY <2>1 DEF PagesInv, Behind, Seen
  <2>2. CASE walk.phase # "none"
    BY <1>7, <1>8, <2>2
  <2> QED
    BY <2>1, <2>2
<1>10. InFront(table, walk) => InFront(after, walk)
  BY <1>1, <1>3, <1>5, InFrontWhole
<1>11. written + 1 \in 0 .. MaxRows /\ written <= written + 1 /\ granted \in BOOLEAN
  BY <1>1, PagingConstants DEF PagesInv
<1> QED
  BY <1>3, <1>6, <1>7, <1>9, <1>10, <1>11, OffsetTable

\* Rows of the table, some of them gone.
LEMMA PartKnown ==
    ASSUME NEW t, PartOf(t, table)
    PROVE  \A i \in DOMAIN t : \E k \in DOMAIN table : t[i] = table[k]
BY DEF PartOf

LEMMA WriteStep == ASSUME PagesInv, Turning(walk), Write PROVE PagesInv'
<1>1. /\ walk \in Walk /\ table \in Seq(Line) /\ written \in Nat /\ hidden \in Nat
      /\ written < MaxRows /\ written' = written + 1 /\ hidden' = hidden /\ granted' = granted
      /\ written' \in 0 .. MaxRows /\ written <= written'
      /\ hidden' \in 0 .. MaxRows /\ hidden <= hidden' /\ granted' \in BOOLEAN
  <2>1. /\ walk \in Walk /\ table \in Seq(Line) /\ written \in Nat /\ hidden \in Nat
        /\ hidden \in 0 .. MaxRows /\ granted \in BOOLEAN
    BY PagingConstants DEF PagesInv, TableSound, WalkSound
  <2> QED
    BY <2>1, PagingConstants DEF Write
<1>2. PICK owner \in Owners, request \in BOOLEAN :
          LET row   == [id |-> written + 1, owner |-> owner, request |-> request]
              all   == Append(table, row)
              young == {i \in DOMAIN all : Alive(all[i])}
          IN  \/ /\ walk.how = "cursor"
                 /\ Changed(Newest(RowsAt(all, young), RowLimit))
              \/ /\ walk.how = "offset" /\ request
                 /\ \E i \in 0 .. Len(table) :
                       Changed(SubSeq(table, 1, i) \o <<row>> \o SubSeq(table, i + 1, Len(table)))
  BY DEF Write
<1> DEFINE row   == [id |-> written + 1, owner |-> owner, request |-> request]
           all   == Append(table, row)
           young == {i \in DOMAIN all : Alive(all[i])}
           after == Newest(RowsAt(all, young), RowLimit)
<1>3. row \in Line /\ row.id = written + 1
  BY <1>1, PagingConstants DEF Line
<1>4. \/ walk.how = "cursor" /\ Changed(after)
      \/ /\ walk.how = "offset"
         /\ \E i \in 0 .. Len(table) :
               Changed(SubSeq(table, 1, i) \o <<row>> \o SubSeq(table, i + 1, Len(table)))
  BY <1>2
<1> HIDE DEF row
<1>5. ASSUME walk.how = "cursor", Changed(after) PROVE PagesInv'
  <2>1. /\ all \in Seq(Line) /\ Len(all) = Len(table) + 1
        /\ \A i \in 1 .. Len(table) : all[i] = table[i]
        /\ all[Len(table) + 1] = row
    BY <1>1, <1>3, AppendProperties
  <2>2. /\ Len(table) \in Nat /\ DOMAIN table = 1 .. Len(table)
        /\ DOMAIN all = 1 .. Len(table) + 1
        /\ \A i \in DOMAIN table : table[i].id \in Nat /\ table[i].id <= written
        /\ Ascending(table)
    BY <1>1, <1>5, <2>1, LinesTyped DEF PagesInv, TableSound
  <2> HIDE DEF all
  <2>3. \A i \in DOMAIN all :
            \/ i \in DOMAIN table /\ all[i] = table[i]
            \/ i = Len(table) + 1 /\ all[i] = row
    BY <2>1, <2>2
  <2>4. Ascending(all)
    <3> SUFFICES ASSUME NEW i \in DOMAIN all, NEW j \in DOMAIN all, i < j
                 PROVE  all[i].id < all[j].id
      BY DEF Ascending
    <3>1. i \in DOMAIN table /\ all[i] = table[i]
      BY <2>2, <2>3
    <3> QED
      BY <1>1, <1>3, <2>2, <2>3, <3>1 DEF Ascending
  <2>5. /\ RowsAt(all, young) \in Seq(Line) /\ PartOf(RowsAt(all, young), all)
    <3>1. young \subseteq DOMAIN all
      OBVIOUS
    <3> HIDE DEF young
    <3> QED
      BY <2>1, <3>1, RowsAtPart
  <2> HIDE DEF young
  <2>6. after \in Seq(Line) /\ PartOf(after, all)
    <3> DEFINE kept == RowsAt(all, young)
    <3>1. kept \in Seq(Line) /\ PartOf(kept, all) /\ RowLimit \in Nat
      BY <2>5, PagingConstants
    <3> HIDE DEF kept
    <3>2. Newest(kept, RowLimit) \in Seq(Line) /\ PartOf(Newest(kept, RowLimit), kept)
      BY <3>1, NewestPart
    <3>3. PartOf(Newest(kept, RowLimit), all)
      BY <3>1, <3>2, PartOfPart
    <3> QED
      BY <3>2, <3>3 DEF kept
  <2> HIDE DEF after
  <2>7. table' = after /\ WalkStays
    BY <1>1, <1>5, ChangedWalk
  <2>8. Ascending(after)
    BY <2>1, <2>4, <2>6, PartOrdered
  <2>9. \A i \in DOMAIN after :
            (\E k \in DOMAIN table : after[i] = table[k]) \/ after[i].id = written + 1
    BY <1>3, <2>3, <2>6 DEF PartOf
  <2> QED
    BY <1>1, <1>5, <2>6, <2>7, <2>8, <2>9, CursorTable
<1>6. ASSUME walk.how = "offset", NEW i \in 0 .. Len(table),
             Changed(SubSeq(table, 1, i) \o <<row>> \o SubSeq(table, i + 1, Len(table)))
      PROVE  PagesInv'
  BY <1>1, <1>3, <1>6, OffsetInserted
<1> QED
  BY <1>4, <1>5, <1>6

LEMMA ExpireStep == ASSUME PagesInv, Turning(walk), Expire PROVE PagesInv'
<1>1. /\ walk \in Walk /\ table \in Seq(Line) /\ written \in Nat /\ hidden \in Nat
      /\ written' = written /\ granted' = granted
      /\ written' \in 0 .. MaxRows /\ written <= written' /\ granted' \in BOOLEAN
  <2>1. /\ walk \in Walk /\ table \in Seq(Line) /\ written \in Nat /\ hidden \in Nat
        /\ written \in 0 .. MaxRows /\ granted \in BOOLEAN
    BY PagingConstants DEF PagesInv, TableSound, WalkSound
  <2> QED
    BY <2>1 DEF Expire
<1>2. CASE walk.how = "cursor"
  <2>1. PICK i \in DOMAIN table : Alive(table[i]) /\ hidden' = table[i].id
    BY <1>2 DEF Expire
  <2>2. table' = table /\ walk' = walk
    BY <1>2 DEF Expire
  <2>3. hidden' \in 0 .. MaxRows /\ hidden <= hidden'
    BY <1>1, <2>1, LinesTyped, PagingConstants DEF Alive
  <2>4. WalkStays
    BY <1>1, <2>2 DEF WalkStays
  <2>5. Ascending(table)
    BY <1>2 DEF PagesInv, TableSound
  <2> QED
    BY <1>1, <1>2, <2>2, <2>3, <2>4, <2>5, CursorTable
<1>3. CASE walk.how = "offset"
  <2>1. table # <<>> /\ Changed(Tail(table)) /\ hidden' = hidden
    BY <1>3 DEF Expire
  <2> DEFINE after == Tail(table)
  <2>2. /\ after \in Seq(Line) /\ Len(after) = Len(table) - 1
        /\ \A i \in 1 .. Len(after) : after[i] = table[i + 1]
    BY <1>1, <2>1, HeadTailProperties
  <2>3. /\ Len(table) \in Nat /\ DOMAIN table = 1 .. Len(table)
        /\ Len(after) \in Nat /\ DOMAIN after = 1 .. Len(after)
    BY <1>1, <2>2, LinesTyped
  <2> HIDE DEF after
  <2>4. 1 \in DOMAIN table
    BY <2>2, <2>3
  <2>5. \A n \in DOMAIN after : n + 1 \in DOMAIN table \ {1} /\ after[n] = table[n + 1]
    BY <2>2, <2>3
  <2>6. PartOf(after, table)
    <3>1. \A m, n \in DOMAIN after : m < n => m + 1 < n + 1
      BY <2>3
    <3> QED
      BY <2>5, <3>1 DEF PartOf
  <2>7. Changed(after)
    BY <2>1 DEF after
  <2> QED
    BY <1>1, <1>3, <2>1, <2>2, <2>4, <2>5, <2>6, <2>7, OffsetDeleted
<1> QED
  BY <1>1, <1>2, <1>3 DEF Walk

LEMMA ForgetStep == ASSUME PagesInv, Turning(walk), Forget PROVE PagesInv'
<1>1. /\ walk \in Walk /\ table \in Seq(Line) /\ written \in Nat /\ hidden \in Nat
      /\ written' = written /\ granted' = granted /\ hidden' = hidden
      /\ written' \in 0 .. MaxRows /\ written <= written' /\ granted' \in BOOLEAN
      /\ hidden' \in 0 .. MaxRows /\ hidden <= hidden'
  <2>1. /\ walk \in Walk /\ table \in Seq(Line) /\ written \in Nat /\ hidden \in Nat
        /\ written \in 0 .. MaxRows /\ granted \in BOOLEAN /\ hidden \in 0 .. MaxRows
    BY PagingConstants DEF PagesInv, TableSound, WalkSound
  <2> QED
    BY <2>1 DEF Forget
<1>2. PICK rest : /\ rest \subseteq DOMAIN table /\ rest # DOMAIN table
                  /\ Changed(RowsAt(table, rest))
  BY DEF Forget
<1> DEFINE after == RowsAt(table, rest)
<1>3. /\ after \in Seq(Line) /\ PartOf(after, table)
      /\ \A n \in DOMAIN after : \E i \in rest : after[n] = table[i]
  BY <1>1, <1>2, RowsAtPart
<1>4. Changed(after)
  BY <1>2
<1> HIDE DEF after
<1>5. CASE walk.how = "cursor"
  <2>1. table' = after /\ WalkStays
    BY <1>1, <1>4, ChangedWalk
  <2>2. Ascending(after)
    BY <1>1, <1>3, <1>5, PartOrdered DEF PagesInv, TableSound
  <2>3. \A i \in DOMAIN after : \E k \in DOMAIN table : after[i] = table[k]
    BY <1>3, PartKnown
  <2> QED
    BY <1>1, <1>3, <1>5, <2>1, <2>2, <2>3, CursorTable
<1>6. CASE walk.how = "offset"
  <2>1. PICK k \in DOMAIN table : k \notin rest
    BY <1>2
  <2>2. \A n \in DOMAIN after : \E i \in DOMAIN table \ {k} : after[n] = table[i]
    BY <1>2, <1>3, <2>1
  <2> QED
    BY <1>1, <1>3, <1>4, <1>6, <2>1, <2>2, OffsetDeleted
<1> QED
  BY <1>1, <1>5, <1>6 DEF Walk

LEMMA UnmovedStep ==
    ASSUME PagesInv, UNCHANGED <<table, written, hidden, walk>>, granted' \in BOOLEAN
    PROVE  PagesInv'
<1>1. table' = table /\ written' = written /\ hidden' = hidden /\ walk' = walk
  OBVIOUS
<1>2. TableSound'
  BY <1>1 DEF PagesInv, TableSound, Once, Ascending
<1>3. walk.how = "cursor" => CursorSound(walk)'
  BY <1>1 DEF PagesInv, WalkSound, CursorSound, Turning, Seen
<1>4. walk.how = "offset" => OffsetSound(walk)'
  <2>1. (\A x \in walk.began : Ahead(walk, x)) => (\A x \in walk.began : Ahead(walk, x))'
    BY <1>1 DEF Ahead, Place, From, Ids, Belongs, Seen
  <2> HIDE DEF Ahead
  <2> QED
    BY <1>1, <2>1 DEF PagesInv, WalkSound, OffsetSound, Turning, Seen, Place, From, Ids, Belongs
<1>5. WalkSound(walk)'
  BY <1>1, <1>3, <1>4 DEF PagesInv, WalkSound, Seen
<1> QED
  BY <1>1, <1>2, <1>5 DEF PagesInv

LEMMA WithdrawStep == ASSUME PagesInv, Withdraw PROVE PagesInv'
BY UnmovedStep DEF Withdraw

-----------------------------------------------------------------------------
LEMMA LeadingRows ==
    ASSUME NEW S, NEW rows \in Seq(S), NEW n \in Nat
    PROVE  /\ Leading(rows, n) \in Seq(S)
           /\ Len(Leading(rows, n)) = IF Len(rows) < n THEN Len(rows) ELSE n
           /\ \A i \in 1 .. Len(Leading(rows, n)) : Leading(rows, n)[i] = rows[i]
<1> DEFINE m == IF Len(rows) < n THEN Len(rows) ELSE n
<1>1. Len(rows) \in Nat /\ \A i \in 1 .. Len(rows) : rows[i] \in S
  BY LenProperties, ElementOfSeq
<1>2. m \in Nat /\ m \in Int /\ m <= Len(rows)
  BY <1>1
<1> HIDE DEF m
<1>3. \A i \in 1 .. m : rows[i] \in S
  BY <1>1, <1>2
<1>4. /\ SubSeq(rows, 1, m) \in Seq(S)
      /\ Len(SubSeq(rows, 1, m)) = IF 1 <= m THEN m - 1 + 1 ELSE 0
      /\ \A i \in 1 .. m - 1 + 1 : SubSeq(rows, 1, m)[i] = rows[1 + i - 1]
  BY <1>2, <1>3, SubSeqProperties
<1>5. Leading(rows, n) = SubSeq(rows, 1, m)
  BY DEF Leading, m
<1>6. m - 1 + 1 = m /\ (~(1 <= m) => m = 0) /\ \A i \in 1 .. m : 1 + i - 1 = i
  BY <1>2
<1>7. Len(SubSeq(rows, 1, m)) = m /\ \A i \in 1 .. m : SubSeq(rows, 1, m)[i] = rows[i]
  BY <1>4, <1>6
<1> QED
  BY <1>4, <1>5, <1>7 DEF m

\* A page is the first PageSize of the rows that are left, and another follows it if one
\* more row is left and the offset may still grow.
PageIs(page, rest) ==
    /\ Len(page) = IF Len(rest) <= PageSize THEN Len(rest) ELSE PageSize
    /\ \A i \in 1 .. Len(page) : page[i] = rest[i]

Onward(rest) ==
    IF Len(rest) <= PageSize THEN 0
    ELSE IF walk.how = "cursor" THEN rest[PageSize]
    ELSE IF walk.next < MaxOffset THEN walk.next + PageSize
    ELSE 0

WithPage(from, page, next) ==
    [from EXCEPT !.seen  = @ \o page,
                 !.next  = next,
                 !.phase = IF next = 0 THEN "over" ELSE "paging"]

LEMMA PageOf ==
    ASSUME NEW from \in Walk, NEW scope, NEW rest \in Seq(1 .. MaxRows),
           Fetched(scope) = Leading(rest, PageSize + 1),
           ReadPage(scope, from), ~(scope = "all" /\ ~granted)
    PROVE  \E page \in Seq(1 .. MaxRows) :
              PageIs(page, rest) /\ walk' = WithPage(from, page, Onward(rest))
<1> DEFINE rows == Fetched(scope)
           page == Leading(rows, PageSize)
<1>1. PageSize \in Nat /\ PageSize + 1 \in Nat /\ PageSize >= 1 /\ Len(rest) \in Nat
  BY PagingConstants, LenProperties
<1>2. /\ rows \in Seq(1 .. MaxRows)
      /\ Len(rows) = IF Len(rest) < PageSize + 1 THEN Len(rest) ELSE PageSize + 1
      /\ \A i \in 1 .. Len(rows) : rows[i] = rest[i]
  BY <1>1, LeadingRows
<1>3. walk' = WithPage(from, page, Following(rows))
  BY DEF ReadPage, WithPage
<1> HIDE DEF rows
<1>4. /\ page \in Seq(1 .. MaxRows)
      /\ Len(page) = IF Len(rows) < PageSize THEN Len(rows) ELSE PageSize
      /\ \A i \in 1 .. Len(page) : page[i] = rows[i]
  BY <1>1, <1>2, LeadingRows
<1> HIDE DEF page
<1>5. /\ Len(page) = IF Len(rest) <= PageSize THEN Len(rest) ELSE PageSize
      /\ \A i \in 1 .. Len(page) : page[i] = rest[i]
      /\ Len(rows) <= PageSize <=> Len(rest) <= PageSize
      /\ ~(Len(rest) <= PageSize) => rows[PageSize] = rest[PageSize]
  BY <1>1, <1>2, <1>4, SMTT(20)
<1>6. Following(rows) = Onward(rest)
  BY <1>5 DEF Following, Onward
<1>7. PageIs(page, rest)
  BY <1>5 DEF PageIs
<1> QED
  BY <1>3, <1>4, <1>6, <1>7

\* What a walk was shown before the page and with it.
Turned(from, page, next) ==
    /\ walk' \in Walk
    /\ walk'.how = from.how /\ walk'.scope = from.scope /\ walk'.began = from.began
    /\ walk'.grew = from.grew /\ walk'.shrank = from.shrank
    /\ walk'.seen = from.seen \o page /\ walk'.next = next
    /\ walk'.phase = IF next = 0 THEN "over" ELSE "paging"

LEMMA PageTurned ==
    ASSUME NEW from \in Walk, NEW page \in Seq(1 .. MaxRows), NEW next \in 0 .. MaxRows + MaxOffset,
           walk' = WithPage(from, page, next)
    PROVE  Turned(from, page, next)
<1>1. from.seen \o page \in Seq(1 .. MaxRows)
  <2>1. from.seen \in Seq(1 .. MaxRows)
    BY DEF Walk
  <2> QED
    BY <2>1, ConcatProperties
<1> DEFINE seen == from.seen \o page
<1> HIDE DEF seen
<1>2. walk' = [from EXCEPT !.seen = seen, !.next = next,
                           !.phase = IF next = 0 THEN "over" ELSE "paging"]
  BY DEF seen, WithPage
<1>3. seen \in Seq(1 .. MaxRows)
  BY <1>1 DEF seen
<1> QED
  BY <1>2, <1>3 DEF Walk, Turned, seen

LEMMA ShownWith ==
    ASSUME NEW from \in Walk, NEW page \in Seq(1 .. MaxRows), NEW next, Turned(from, page, next)
    PROVE  /\ Seen(walk') = Seen(from) \cup {page[i] : i \in 1 .. Len(page)}
           /\ Len(walk'.seen) = Len(from.seen) + Len(page)
           /\ Len(from.seen) \in Nat /\ Len(page) \in Nat
           /\ DOMAIN walk'.seen = 1 .. Len(walk'.seen) /\ DOMAIN from.seen = 1 .. Len(from.seen)
           /\ \A i \in DOMAIN walk'.seen :
                 \/ i \in DOMAIN from.seen /\ walk'.seen[i] = from.seen[i]
                 \/ /\ i > Len(from.seen) /\ i - Len(from.seen) \in 1 .. Len(page)
                    /\ walk'.seen[i] = page[i - Len(from.seen)]
<1>1. /\ from.seen \in Seq(1 .. MaxRows) /\ walk'.seen \in Seq(1 .. MaxRows)
      /\ walk'.seen = from.seen \o page
  BY DEF Walk, Turned
<1> DEFINE a == from.seen
           b == walk'.seen
<1>2. a \in Seq(1 .. MaxRows) /\ b \in Seq(1 .. MaxRows) /\ b = a \o page
  BY <1>1
<1>3. Seen(from) = {a[i] : i \in DOMAIN a} /\ Seen(walk') = {b[i] : i \in DOMAIN b}
  BY DEF Seen
<1> HIDE DEF a, b
<1>4. /\ Len(b) = Len(a) + Len(page)
      /\ \A i \in 1 .. Len(a) + Len(page) : b[i] = IF i <= Len(a) THEN a[i] ELSE page[i - Len(a)]
  BY <1>2, ConcatProperties
<1>5. /\ Len(a) \in Nat /\ Len(page) \in Nat
      /\ DOMAIN a = 1 .. Len(a) /\ DOMAIN b = 1 .. Len(b)
  BY <1>2, LenProperties
<1>6. \A i \in DOMAIN b :
          \/ i \in DOMAIN a /\ b[i] = a[i]
          \/ i > Len(a) /\ i - Len(a) \in 1 .. Len(page) /\ b[i] = page[i - Len(a)]
  BY <1>4, <1>5
<1>7. {b[i] : i \in DOMAIN b} = {a[i] : i \in DOMAIN a} \cup {page[i] : i \in 1 .. Len(page)}
  <2>1. \A i \in 1 .. Len(a) : i \in DOMAIN b /\ b[i] = a[i]
    BY <1>4, <1>5
  <2>2. ASSUME NEW i \in 1 .. Len(page)
        PROVE  i + Len(a) \in DOMAIN b /\ b[i + Len(a)] = page[i]
    <3>1. /\ i + Len(a) \in 1 .. Len(a) + Len(page) /\ ~(i + Len(a) <= Len(a))
          /\ (i + Len(a)) - Len(a) = i
      BY <1>5
    <3> QED
      BY <1>4, <1>5, <3>1
  <2>4. {a[i] : i \in DOMAIN a} \subseteq {b[i] : i \in DOMAIN b}
    BY <1>5, <2>1
  <2>5. {page[i] : i \in 1 .. Len(page)} \subseteq {b[i] : i \in DOMAIN b}
    BY <2>2
  <2>6. {b[i] : i \in DOMAIN b} \subseteq {a[i] : i \in DOMAIN a} \cup {page[i] : i \in 1 .. Len(page)}
    <3> SUFFICES ASSUME NEW i \in DOMAIN b
                 PROVE  b[i] \in {a[k] : k \in DOMAIN a} \cup {page[k] : k \in 1 .. Len(page)}
      OBVIOUS
    <3> QED
      BY <1>6
  <2> QED
    BY <2>4, <2>5, <2>6
<1> QED
  BY <1>3, <1>4, <1>5, <1>6, <1>7 DEF a, b

LEMMA CursorPage ==
    ASSUME PagesInv, NEW from, WalkSound(from), walk.how = "cursor", Turning(from),
           from.next = walk.next,
           ReadPage(from.scope, from), ~(from.scope = "all" /\ ~granted),
           UNCHANGED <<table, written, hidden, granted>>
    PROVE  PagesInv'
<1> DEFINE rest == Selected(from.scope, from.next)
<1>1. /\ from \in Walk /\ from.how = "cursor" /\ CursorSound(from)
      /\ Seen(from) \cup from.began \subseteq 1 .. written
      /\ table \in Seq(Line) /\ Ascending(table) /\ Once(table)
      /\ written \in Nat /\ hidden \in Nat /\ written \in 0 .. MaxRows /\ hidden \in 0 .. MaxRows
      /\ \A i \in DOMAIN table : table[i].id <= written
  BY PagingConstants DEF PagesInv, WalkSound, TableSound
<1>2. /\ PageSize \in Nat /\ PageSize >= 1 /\ MaxRows \in Nat /\ MaxOffset \in Nat
      /\ from.next \in Nat
      /\ \A i \in DOMAIN table : table[i].id \in Nat /\ table[i].id >= 1
  BY <1>1, PagingConstants, LinesTyped DEF Walk
<1>3. Fetched(from.scope) = Leading(rest, PageSize + 1)
  BY DEF Fetched
<1>4. /\ rest \in Seq(1 .. MaxRows) /\ Len(rest) \in Nat
      /\ \A n \in 1 .. Len(rest) :
            \E i \in Readable(from.scope, from.next) : rest[n] = table[i].id
      /\ \A i \in Readable(from.scope, from.next) :
            \E n \in 1 .. Len(rest) : rest[n] = table[i].id
      /\ \A m, n \in 1 .. Len(rest) : m < n => rest[m] > rest[n]
  <2>1. rest \in Seq(1 .. MaxRows)
    BY <1>1, SelectedRows
  <2> QED
    BY <1>1, <2>1, SelectedRows, SelectedDescends, LenProperties
<1>5. \A n \in 1 .. Len(rest) :
          \E i \in DOMAIN table :
             /\ rest[n] = table[i].id /\ Alive(table[i])
             /\ from.scope = "all" \/ table[i].owner = Reader
             /\ from.next = 0 \/ table[i].id < from.next
  BY <1>4 DEF Readable
<1>6. \A i \in DOMAIN table :
          /\ Alive(table[i]) /\ (from.scope = "all" \/ table[i].owner = Reader)
          /\ from.next = 0 \/ table[i].id < from.next
          => \E n \in 1 .. Len(rest) : rest[n] = table[i].id
  BY <1>4 DEF Readable
<1> HIDE DEF rest
<1>7. \A n \in 1 .. Len(rest) :
          rest[n] \in Nat /\ rest[n] \in 1 .. written /\ rest[n] >= 1
          /\ (from.next # 0 => rest[n] < from.next)
  BY <1>1, <1>2, <1>5
<1> DEFINE next == Onward(rest)
<1>0. PICK page \in Seq(1 .. MaxRows) : PageIs(page, rest) /\ walk' = WithPage(from, page, next)
  BY <1>1, <1>3, <1>4, PageOf
<1>8. /\ Len(page) = IF Len(rest) <= PageSize THEN Len(rest) ELSE PageSize
      /\ \A i \in 1 .. Len(page) : page[i] = rest[i]
      /\ next = IF Len(rest) <= PageSize THEN 0 ELSE rest[PageSize]
  BY <1>0 DEF PageIs, Onward
<1> HIDE DEF next
<1>9. /\ Len(rest) <= PageSize => next = 0 /\ Len(page) = Len(rest)
      /\ ~(Len(rest) <= PageSize) => /\ PageSize \in 1 .. Len(rest) /\ Len(page) = PageSize
                                     /\ next = rest[PageSize] /\ next # 0
      /\ next \in 0 .. MaxRows + MaxOffset
  <2>1. CASE Len(rest) <= PageSize
    BY <1>2, <1>8, <2>1
  <2>2. CASE ~(Len(rest) <= PageSize)
    <3>1. PageSize \in 1 .. Len(rest)
      BY <1>2, <1>4, <2>2
    <3>2. rest[PageSize] \in 1 .. written
      BY <1>7, <3>1
    <3> QED
      BY <1>1, <1>2, <1>8, <2>2, <3>1, <3>2
  <2> QED
    BY <2>1, <2>2
<1>10. Turned(from, page, next)
  BY <1>0, <1>1, <1>9, PageTurned
<1>11. /\ Seen(walk') = Seen(from) \cup {page[i] : i \in 1 .. Len(page)}
       /\ Len(from.seen) \in Nat /\ Len(page) \in Nat
       /\ DOMAIN walk'.seen = 1 .. Len(walk'.seen) /\ DOMAIN from.seen = 1 .. Len(from.seen)
       /\ Len(walk'.seen) = Len(from.seen) + Len(page)
       /\ \A i \in DOMAIN walk'.seen :
             \/ i \in DOMAIN from.seen /\ walk'.seen[i] = from.seen[i]
             \/ /\ i > Len(from.seen) /\ i - Len(from.seen) \in 1 .. Len(page)
                /\ walk'.seen[i] = page[i - Len(from.seen)]
  BY <1>1, <1>10, ShownWith
<1>12. /\ \A i \in 1 .. Len(page) : i \in 1 .. Len(rest) /\ page[i] = rest[i]
       /\ walk'.how = "cursor" /\ walk'.scope = from.scope /\ walk'.began = from.began
       /\ walk'.next = next /\ walk' \in Walk
       /\ walk'.phase = IF next = 0 THEN "over" ELSE "paging"
       /\ \A i \in DOMAIN from.seen : from.seen[i] \in Nat
  <2>1. \A i \in 1 .. Len(page) : i \in 1 .. Len(rest)
    BY <1>2, <1>4, <1>9, <1>11
  <2>2. \A i \in DOMAIN from.seen : from.seen[i] \in 1 .. written
    BY <1>1 DEF Seen
  <2>3. \A i \in DOMAIN from.seen : from.seen[i] \in Nat
    BY <2>2
  <2>4. \A i \in 1 .. Len(page) : page[i] = rest[i]
    BY <1>8
  <2>5. from.how = "cursor"
    BY <1>1
  <2> QED
    BY ONLY <1>10, <2>1, <2>3, <2>4, <2>5 DEF Turned
<1>13. \A i \in DOMAIN from.seen : from.next # 0 /\ from.seen[i] >= from.next
  BY <1>1, <1>11 DEF CursorSound
<1>14. CursorSound(walk)'
  <2>1. ASSUME NEW i \in DOMAIN walk'.seen, NEW j \in DOMAIN walk'.seen, i < j
        PROVE  walk'.seen[i] > walk'.seen[j]
    <3>1. CASE j \in DOMAIN from.seen
      <4>1. i \in DOMAIN from.seen
        BY <1>11, <2>1, <3>1
      <4>2. walk'.seen[i] = from.seen[i] /\ walk'.seen[j] = from.seen[j]
        BY <1>11, <3>1, <4>1, SMTT(30)
      <4> QED
        BY <1>1, <2>1, <3>1, <4>1, <4>2 DEF CursorSound
    <3>2. CASE j \notin DOMAIN from.seen /\ i \in DOMAIN from.seen
      <4>1. walk'.seen[i] = from.seen[i]
        BY <1>11, <3>2, SMTT(30)
      <4>2. PICK n \in 1 .. Len(rest) : walk'.seen[j] = rest[n]
        BY <1>11, <1>12, <3>2
      <4> QED
        BY <1>2, <1>7, <1>12, <1>13, <3>2, <4>1, <4>2
    <3>3. CASE i \notin DOMAIN from.seen /\ j \notin DOMAIN from.seen
      <4> DEFINE m == i - Len(from.seen)
                 n == j - Len(from.seen)
      <4>1. m \in 1 .. Len(page) /\ n \in 1 .. Len(page)
            /\ walk'.seen[i] = page[m] /\ walk'.seen[j] = page[n]
        BY <1>11, <3>3
      <4>2. m < n
        BY <1>11, <2>1, <4>1
      <4> HIDE DEF m, n
      <4> QED
        BY <1>4, <1>12, <4>1, <4>2, SMTT(20)
    <3> QED
      BY <3>1, <3>2, <3>3
  <2>2. ASSUME Turning(walk')
        PROVE  walk'.next # 0 /\ \A i \in DOMAIN walk'.seen : walk'.seen[i] >= walk'.next
    <3>1. /\ walk'.next # 0 /\ walk'.next = rest[PageSize] /\ PageSize \in 1 .. Len(rest)
          /\ Len(page) = PageSize
      BY <1>9, <1>12, <2>2 DEF Turning
    <3>2. ASSUME NEW i \in DOMAIN walk'.seen PROVE walk'.seen[i] >= rest[PageSize]
      <4>1. CASE i \in DOMAIN from.seen
        <5>1. i <= Len(from.seen) /\ i \in Nat
          BY <1>11, <4>1
        <5>2. walk'.seen[i] = from.seen[i]
          BY <1>11, <5>1
        <5>3. from.seen[i] >= from.next /\ rest[PageSize] < from.next
          BY <1>7, <1>13, <3>1, <4>1
        <5>4. from.seen[i] \in Nat /\ rest[PageSize] \in Nat
          BY <1>7, <1>12, <3>1, <4>1
        <5> QED
          BY <1>2, <5>2, <5>3, <5>4
      <4>2. CASE i \notin DOMAIN from.seen
        <5>1. PICK n \in 1 .. Len(page) : walk'.seen[i] = rest[n]
          BY <1>11, <1>12, <4>2
        <5>2. (n = PageSize \/ n < PageSize) /\ n \in 1 .. Len(rest)
          BY <1>2, <1>12, <3>1
        <5>3. rest[n] \in Nat /\ rest[PageSize] \in Nat
          BY <1>7, <3>1, <5>2
        <5>4. n < PageSize => rest[n] > rest[PageSize]
          BY <1>4, <3>1, <5>2
        <5> QED
          BY <5>1, <5>2, <5>3, <5>4
      <4> QED
        BY <4>1, <4>2
    <3> QED
      BY <3>1, <3>2
  <2>3. ASSUME NEW i \in DOMAIN table, table[i].id \in walk'.began
        PROVE  \/ table[i].id \in Seen(walk')
               \/ table[i].id <= hidden
               \/ Turning(walk') /\ (walk'.next = 0 \/ table[i].id < walk'.next)
    <3> SUFFICES ASSUME table[i].id \notin Seen(walk'), ~(table[i].id <= hidden)
                 PROVE  Turning(walk') /\ table[i].id < walk'.next
      OBVIOUS
    <3>1. from.next = 0 \/ table[i].id < from.next
      <4>1. from.phase # "refused" /\ table[i].id \in from.began /\ table[i].id \notin Seen(from)
        BY <1>11, <1>12, <2>3 DEF Turning
      <4> QED
        BY <1>1, <4>1 DEF CursorSound
    <3>2. from.scope = "all" \/ table[i].owner = Reader
      <4>1. from.scope # "all" => from.scope = "mine"
        BY <1>1 DEF Walk
      <4> QED
        BY <1>1, <1>12, <2>3, <4>1 DEF CursorSound
    <3>3. Alive(table[i])
      BY <1>1, <1>2 DEF Alive
    <3>4. PICK n \in 1 .. Len(rest) : rest[n] = table[i].id
      BY <1>6, <3>1, <3>2, <3>3
    <3>5. n \notin 1 .. Len(page)
      BY <1>11, <1>12, <3>4
    <3>6. ~(Len(rest) <= PageSize) /\ n > PageSize
      BY <1>2, <1>4, <1>9, <3>5
    <3> QED
      BY <1>4, <1>9, <1>12, <3>4, <3>6 DEF Turning
  <2>4. ASSUME walk'.scope = "mine", NEW i \in DOMAIN table,
               table[i].id \in Seen(walk') \cup walk'.began
        PROVE  table[i].owner = Reader
    <3>1. CASE table[i].id \in Seen(from) \cup from.began
      BY <1>1, <1>12, <2>4, <3>1 DEF CursorSound
    <3>2. CASE table[i].id \notin Seen(from) \cup from.began
      <4>1. PICK n \in 1 .. Len(rest) : table[i].id = rest[n]
        BY <1>11, <1>12, <2>4, <3>2
      <4>2. PICK k \in DOMAIN table :
                rest[n] = table[k].id /\ (from.scope = "all" \/ table[k].owner = Reader)
        BY <1>5
      <4>3. k = i
        BY <1>1, <4>1, <4>2 DEF Once
      <4> QED
        BY <1>12, <2>4, <4>2, <4>3
    <3> QED
      BY <3>1, <3>2
  <2>5. UNCHANGED <<table, hidden>>
    OBVIOUS
  <2> QED
    BY <2>1, <2>2, <2>3, <2>4, <2>5 DEF CursorSound, Turning, Seen
<1>15. WalkSound(walk)'
  <2>1. Seen(walk') \cup walk'.began \subseteq 1 .. written
    BY <1>1, <1>7, <1>11, <1>12
  <2> QED
    BY <1>12, <1>14, <2>1 DEF WalkSound, Seen
<1>16. TableSound'
  BY <1>1, <1>12 DEF TableSound, Once, Ascending
<1>17. walk'.phase # "none"
  BY <1>12
<1> QED
  BY <1>15, <1>16, <1>17 DEF PagesInv

\* The offsets are the multiples of the size of a page up to the limit, which is one.
LEMMA NextOffset ==
    ASSUME NEW a \in Nat, a * PageSize < MaxOffset
    PROVE  a * PageSize + PageSize = (a + 1) * PageSize /\ (a + 1) * PageSize <= MaxOffset
<1>1. PICK n \in Nat : MaxOffset = n * PageSize
  BY PagingConstants
<1>2. PageSize \in Nat /\ PageSize >= 1
  BY PagingConstants
<1>3. \A p, b, c \in Nat : b >= c => b * p >= c * p
  <2> SUFFICES ASSUME NEW p \in Nat, NEW b \in Nat, NEW c \in Nat, b >= c
               PROVE  b * p >= c * p
    OBVIOUS
  <2>1. b - c \in Nat /\ (b - c) * p \in Nat
    OBVIOUS
  <2>2. b * p = c * p + (b - c) * p
    OBVIOUS
  <2> QED
    BY <2>1, <2>2
<1>4. a * PageSize \in Nat /\ n * PageSize \in Nat /\ (a + 1) * PageSize = a * PageSize + PageSize
  BY <1>2
<1>5. n >= a + 1
  <2>1. ~(a >= n)
    BY <1>1, <1>2, <1>3, <1>4
  <2> QED
    BY <2>1
<1>6. n * PageSize >= (a + 1) * PageSize
  BY <1>2, <1>3, <1>5
<1> QED
  BY <1>1, <1>4, <1>6

LEMMA OffsetPage ==
    ASSUME PagesInv, NEW from, WalkSound(from), walk.how = "offset", Turning(from),
           from.next = walk.next,
           ReadPage(from.scope, from), ~(from.scope = "all" /\ ~granted),
           UNCHANGED <<table, written, hidden, granted>>
    PROVE  PagesInv'
<1> DEFINE rows == Selected(from.scope, 0)
           rest == SubSeq(rows, from.next + 1, Len(rows))
           place(x) == Place(table, from.scope, x)
<1>1. /\ from \in Walk /\ from.how = "offset" /\ OffsetSound(from)
      /\ Seen(from) \cup from.began \subseteq 1 .. written
      /\ table \in Seq(Line) /\ Once(table) /\ hidden = 0
      /\ written \in Nat /\ written \in 0 .. MaxRows /\ hidden \in 0 .. MaxRows
      /\ \A i \in DOMAIN table : table[i].id <= written
  BY PagingConstants DEF PagesInv, WalkSound, TableSound
<1>2. /\ PageSize \in Nat /\ PageSize >= 1 /\ MaxRows \in Nat /\ MaxOffset \in Nat
      /\ from.next \in Nat /\ from.next <= MaxOffset
      /\ \A i \in DOMAIN table : table[i].id \in Nat /\ table[i].id >= 1
      /\ \A x : place(x) \in Nat
  <2>1. \A x : place(x) \in Nat
    BY <1>1, FromFinite
  <2> QED
    BY <1>1, <2>1, PagingConstants, LinesTyped, SMTT(30) DEF Walk, OffsetSound
<1>3. Fetched(from.scope) = Leading(rest, PageSize + 1)
  BY DEF Fetched
<1>4. /\ rows \in Seq(1 .. MaxRows) /\ Len(rows) \in Nat
      /\ \A n \in 1 .. Len(rows) : rows[n] \in 1 .. MaxRows
  <2>1. rows \in Seq(1 .. MaxRows)
    BY <1>1, SelectedRows
  <2> QED
    BY <2>1, LenProperties, ElementOfSeq
<1>5. \A n \in 1 .. Len(rows) :
          \E i \in DOMAIN table :
             Belongs(table[i], from.scope) /\ table[i].id = rows[n] /\ place(table[i].id) = n
  BY <1>1, RowOfPlace
<1>6. \A i \in DOMAIN table :
          Belongs(table[i], from.scope) =>
             place(table[i].id) \in 1 .. Len(rows) /\ rows[place(table[i].id)] = table[i].id
  BY <1>1, PlaceOfRow
<1> HIDE DEF rows, place
<1>7. /\ rest \in Seq(1 .. MaxRows) /\ Len(rest) \in Nat
      /\ Len(rest) = IF from.next < Len(rows) THEN Len(rows) - from.next ELSE 0
      /\ \A n \in 1 .. Len(rest) : rest[n] = rows[from.next + n] /\ from.next + n \in 1 .. Len(rows)
  <2>1. from.next + 1 \in Int /\ Len(rows) \in Int
        /\ \A n \in from.next + 1 .. Len(rows) : rows[n] \in 1 .. MaxRows
    BY <1>2, <1>4
  <2>2. /\ rest \in Seq(1 .. MaxRows)
        /\ Len(rest) = IF from.next + 1 <= Len(rows) THEN Len(rows) - (from.next + 1) + 1 ELSE 0
        /\ \A n \in 1 .. Len(rows) - (from.next + 1) + 1 : rest[n] = rows[(from.next + 1) + n - 1]
    BY <2>1, SubSeqProperties
  <2> HIDE DEF rest
  <2>3. Len(rest) = IF from.next < Len(rows) THEN Len(rows) - from.next ELSE 0
    BY <1>2, <1>4, <2>2
  <2>4. Len(rest) \in Nat
    BY <2>2, LenProperties
  <2>5. ASSUME NEW n \in 1 .. Len(rest)
        PROVE  rest[n] = rows[from.next + n] /\ from.next + n \in 1 .. Len(rows)
    <3>0. from.next < Len(rows) /\ n \in 1 .. Len(rows) - from.next
      BY <1>2, <1>4, <2>3, <2>4
    <3>1. /\ n \in 1 .. Len(rows) - (from.next + 1) + 1
          /\ (from.next + 1) + n - 1 = from.next + n /\ from.next + n \in 1 .. Len(rows)
      <4>1. \A a, l \in Nat : \A m \in 1 .. l - a :
                /\ m \in 1 .. l - (a + 1) + 1
                /\ (a + 1) + m - 1 = a + m /\ a + m \in 1 .. l
        OBVIOUS
      <4> QED
        BY ONLY <1>2, <1>4, <3>0, <4>1
    <3> QED
      BY <2>2, <3>1
  <2> QED
    BY <2>2, <2>3, <2>4, <2>5
<1> HIDE DEF rest
<1> DEFINE next == Onward(rest)
<1>0. PICK page \in Seq(1 .. MaxRows) : PageIs(page, rest) /\ walk' = WithPage(from, page, next)
  BY <1>1, <1>3, <1>7, PageOf
<1>8. /\ Len(page) = IF Len(rest) <= PageSize THEN Len(rest) ELSE PageSize
      /\ \A i \in 1 .. Len(page) : page[i] = rest[i]
      /\ next = IF Len(rest) <= PageSize THEN 0
                ELSE IF from.next < MaxOffset THEN from.next + PageSize
                ELSE 0
  BY <1>0 DEF PageIs, Onward
<1> HIDE DEF next
<1>9. next <= MaxOffset /\ next \in Nat /\ \E n \in Nat : next = n * PageSize
  <2>1. CASE next = 0
    <3>1. 0 = 0 * PageSize
      BY <1>2
    <3> QED
      BY <1>2, <2>1, <3>1
  <2>2. CASE next # 0
    <3>1. from.next < MaxOffset /\ next = from.next + PageSize
      BY <1>8, <2>2
    <3>2. PICK a \in Nat : from.next = a * PageSize
      BY <1>1 DEF OffsetSound
    <3>3. next = (a + 1) * PageSize /\ (a + 1) * PageSize <= MaxOffset /\ a + 1 \in Nat
      BY <3>1, <3>2, NextOffset
    <3>4. (a + 1) * PageSize \in Nat
      BY <1>2, <3>3
    <3> QED
      BY ONLY <3>3, <3>4
  <2> QED
    BY <2>1, <2>2
<1>10. Turned(from, page, next)
  <2>1. next \in 0 .. MaxRows + MaxOffset
    BY <1>2, <1>9
  <2> QED
    BY <1>0, <1>1, <2>1, PageTurned
<1>11. /\ next # 0 => /\ ~(Len(rest) <= PageSize) /\ Len(page) = PageSize
                       /\ next = from.next + PageSize
       /\ next = 0 => Len(page) = Len(rest) \/ (from.next = MaxOffset /\ Len(page) = PageSize)
  BY <1>2, <1>8
<1>12. /\ Seen(walk') = Seen(from) \cup {page[i] : i \in 1 .. Len(page)}
       /\ Len(from.seen) \in Nat /\ Len(page) \in Nat
       /\ DOMAIN walk'.seen = 1 .. Len(walk'.seen) /\ DOMAIN from.seen = 1 .. Len(from.seen)
       /\ Len(walk'.seen) = Len(from.seen) + Len(page)
       /\ \A i \in DOMAIN walk'.seen :
             \/ i \in DOMAIN from.seen /\ walk'.seen[i] = from.seen[i]
             \/ /\ i > Len(from.seen) /\ i - Len(from.seen) \in 1 .. Len(page)
                /\ walk'.seen[i] = page[i - Len(from.seen)]
  BY <1>1, <1>10, ShownWith
<1>13. /\ walk'.how = "offset" /\ walk'.scope = from.scope /\ walk'.began = from.began
       /\ walk'.grew = from.grew /\ walk'.shrank = from.shrank
       /\ walk'.next = next /\ walk' \in Walk
       /\ walk'.phase = IF next = 0 THEN "over" ELSE "paging"
       /\ Len(from.seen) = from.next
       /\ ~from.grew => \A i, j \in DOMAIN from.seen : from.seen[i] = from.seen[j] => i = j
  BY <1>1, <1>10 DEF Turned, OffsetSound
\* The rows of the page are those of the next places.
<1>14. ASSUME NEW n \in 1 .. Len(page)
       PROVE  /\ page[n] = rows[from.next + n] /\ page[n] \in 1 .. written
              /\ \E i \in DOMAIN table : Belongs(table[i], from.scope) /\ table[i].id = page[n]
              /\ place(page[n]) = from.next + n
  <2>1. n \in 1 .. Len(rest) /\ page[n] = rest[n]
    BY <1>2, <1>7, <1>8
  <2>2. page[n] = rows[from.next + n] /\ from.next + n \in 1 .. Len(rows)
    BY <1>7, <2>1
  <2>3. PICK i \in DOMAIN table :
            /\ Belongs(table[i], from.scope) /\ table[i].id = page[n]
            /\ place(table[i].id) = from.next + n
    BY <1>5, <2>2
  <2>4. table[i].id \in 1 .. written
    BY <1>1, <1>2
  <2> QED
    BY <2>2, <2>3, <2>4
<1>15. ASSUME NEW i \in DOMAIN table, Belongs(table[i], from.scope),
              place(table[i].id) > from.next, place(table[i].id) <= from.next + Len(page)
       PROVE  table[i].id \in Seen(walk')
  <2> DEFINE n == place(table[i].id) - from.next
  <2>1. n \in 1 .. Len(page) /\ from.next + n = place(table[i].id)
    BY <1>2, <1>12, <1>15, SMTT(20)
  <2>2. page[n] = rows[from.next + n]
    BY <1>14, <2>1
  <2>3. page[n] = table[i].id
    BY <1>6, <1>15, <2>1, <2>2
  <2> HIDE DEF n
  <2> QED
    BY <1>12, <2>1, <2>3
<1>16. ASSUME NEW x \in from.began, ~from.shrank
       PROVE  \E i \in DOMAIN table :
                 /\ table[i].id = x /\ Belongs(table[i], from.scope)
                 /\ place(x) \in Nat /\ place(x) <= Len(rows)
                 /\ x \in Seen(walk') \/ place(x) > from.next + Len(page)
  <2>1. PICK i \in DOMAIN table :
            /\ table[i].id = x /\ Belongs(table[i], from.scope)
            /\ x \in Seen(from) \/ place(x) > from.next
    BY <1>1, <1>16 DEF OffsetSound, Ahead, place
  <2>2. place(x) \in Nat /\ place(x) <= Len(rows)
    BY <1>2, <1>4, <1>6, <2>1
  <2>3. x \in Seen(from) => x \in Seen(walk')
    BY <1>12
  <2>4. place(x) > from.next => x \in Seen(walk') \/ place(x) > from.next + Len(page)
    <3>1. from.next + Len(page) \in Nat
      BY <1>2, <1>12
    <3>2. place(x) > from.next /\ place(x) <= from.next + Len(page) => x \in Seen(walk')
      BY <1>15, <2>1
    <3> QED
      BY ONLY <2>2, <3>1, <3>2
  <2> QED
    BY <2>1, <2>2, <2>3, <2>4
<1>17. ASSUME ~from.grew, NEW x, x \in Seen(from),
              NEW i \in DOMAIN table, table[i].id = x, Belongs(table[i], from.scope)
       PROVE  place(x) <= from.next
  BY <1>1, <1>17 DEF OffsetSound, place
<1>18. OffsetSound(walk)'
  <2>1. walk'.next <= MaxOffset /\ \E n \in Nat : walk'.next = n * PageSize
    BY <1>9, <1>13
  <2>2. Turning(walk') => Len(walk'.seen) = walk'.next
    BY <1>11, <1>12, <1>13 DEF Turning
  <2>3. ASSUME ~walk'.grew, NEW i \in DOMAIN walk'.seen, NEW j \in DOMAIN walk'.seen,
               walk'.seen[i] = walk'.seen[j]
        PROVE  i = j
    <3> DEFINE m == i - Len(from.seen)
               n == j - Len(from.seen)
    <3>1. \/ i \in DOMAIN from.seen /\ walk'.seen[i] = from.seen[i] /\ walk'.seen[i] \in Seen(from)
          \/ m \in 1 .. Len(page) /\ walk'.seen[i] = page[m]
      BY <1>12 DEF Seen
    <3>2. \/ j \in DOMAIN from.seen /\ walk'.seen[j] = from.seen[j] /\ walk'.seen[j] \in Seen(from)
          \/ n \in 1 .. Len(page) /\ walk'.seen[j] = page[n]
      BY <1>12 DEF Seen
    <3>3. m = n => i = j
      BY <1>12
    <3> HIDE DEF m, n
    <3>4. \A k \in 1 .. Len(page) : page[k] \notin Seen(from)
      <4> SUFFICES ASSUME NEW k \in 1 .. Len(page), page[k] \in Seen(from) PROVE FALSE
        OBVIOUS
      <4>1. place(page[k]) <= from.next
        BY <1>13, <1>14, <1>17, <2>3
      <4>2. place(page[k]) = from.next + k
        BY <1>14
      <4> QED
        BY <1>2, <4>1, <4>2
    <3>5. \A k, l \in 1 .. Len(page) : page[k] = page[l] => k = l
      BY <1>2, <1>14, SMTT(20)
    <3> QED
      BY <1>13, <2>3, <3>1, <3>2, <3>3, <3>4, <3>5
  <2>4. ASSUME ~walk'.grew, Turning(walk'), NEW i \in DOMAIN table, Belongs(table[i], walk'.scope),
               table[i].id \in Seen(walk')
        PROVE  place(table[i].id) <= walk'.next
    <3>1. walk'.next = from.next + PageSize /\ Len(page) = PageSize
      BY <1>11, <1>13, <2>4 DEF Turning
    <3>2. CASE table[i].id \in Seen(from)
      <4>1. place(table[i].id) <= from.next
        BY <1>13, <1>17, <2>4, <3>2
      <4> QED
        BY <1>2, <3>1, <4>1
    <3>3. CASE table[i].id \notin Seen(from)
      <4>1. PICK n \in 1 .. Len(page) : table[i].id = page[n]
        BY <1>12, <2>4, <3>3
      <4>2. place(table[i].id) = from.next + n
        BY <1>14, <4>1
      <4> QED
        BY <1>2, <3>1, <4>1, <4>2
    <3> QED
      BY <3>2, <3>3
  <2>5. ASSUME ~walk'.shrank, Turning(walk'), NEW x \in walk'.began
        PROVE  \E i \in DOMAIN table :
                  /\ table[i].id = x /\ Belongs(table[i], walk'.scope)
                  /\ x \in Seen(walk') \/ place(x) > walk'.next
    <3>1. walk'.next = from.next + Len(page)
      BY <1>11, <1>13, <2>5 DEF Turning
    <3> QED
      BY <1>13, <1>16, <2>5, <3>1
  <2>6. ASSUME walk'.phase = "over", ~walk'.shrank, Len(walk'.seen) < MaxOffset + PageSize
        PROVE  walk'.began \subseteq Seen(walk')
    <3> SUFFICES ASSUME NEW x \in from.began PROVE x \in Seen(walk')
      BY <1>13
    <3>1. next = 0
      BY <1>13, <2>6
    <3>2. Len(page) = Len(rest)
      BY <1>2, <1>11, <1>12, <1>13, <2>6, <3>1
    <3>3. Len(rows) <= from.next + Len(page)
      BY <1>2, <1>4, <1>7, <3>2
    <3>4. \/ x \in Seen(walk')
          \/ /\ place(x) \in Nat /\ place(x) <= Len(rows)
             /\ place(x) > from.next + Len(page)
      BY <1>13, <1>16, <2>6
    <3> QED
      BY <1>2, <1>4, <1>12, <3>3, <3>4
  <2>7. table' = table
    OBVIOUS
  <2>8. \A x : Place(table', walk'.scope, x) = place(x)
    BY <1>13, <2>7 DEF place
  <2>9. ASSUME ~walk'.shrank, Turning(walk'), NEW x \in walk'.began PROVE Ahead(walk, x)'
    <3>1. PICK i \in DOMAIN table' :
              /\ table'[i].id = x /\ Belongs(table'[i], walk'.scope)
              /\ x \in Seen(walk') \/ Place(table', walk'.scope, x) > walk'.next
      BY <2>5, <2>7, <2>8, <2>9
    <3> QED
      BY <3>1 DEF Ahead, Belongs, Seen
  <2>10. ASSUME ~walk'.grew, Turning(walk'), NEW i \in DOMAIN table',
                Belongs(table'[i], walk'.scope), table'[i].id \in Seen(walk')
         PROVE  Place(table', walk'.scope, table'[i].id) <= walk'.next
    BY <2>4, <2>7, <2>8, <2>10
  <2> QED
    BY <2>1, <2>2, <2>3, <2>6, <2>9, <2>10 DEF OffsetSound, Turning, Seen, Belongs
<1>19. WalkSound(walk)'
  <2>1. Seen(walk') \cup walk'.began \subseteq 1 .. written
    BY <1>1, <1>12, <1>13, <1>14
  <2> QED
    BY <1>13, <1>18, <2>1 DEF WalkSound, Seen
<1>20. TableSound'
  BY <1>1, <1>13 DEF TableSound, Once, Ascending
<1>21. walk'.phase # "none"
  BY <1>13
<1> QED
  BY <1>19, <1>20, <1>21 DEF PagesInv

\* One page of a sound walk, shown or refused.
LEMMA PageRead ==
    ASSUME PagesInv, NEW from, WalkSound(from), Turning(from), from.next = walk.next,
           ReadPage(from.scope, from), UNCHANGED <<table, written, hidden, granted>>
    PROVE  PagesInv'
<1>1. CASE from.scope = "all" /\ ~granted
  <2>1. walk' = [from EXCEPT !.phase = "refused"] /\ from \in Walk
    BY <1>1 DEF ReadPage, WalkSound
  <2>2. /\ walk' \in Walk /\ walk'.phase = "refused"
        /\ walk'.how = from.how /\ walk'.scope = from.scope /\ walk'.seen = from.seen
        /\ walk'.next = from.next /\ walk'.began = from.began
        /\ walk'.grew = from.grew /\ walk'.shrank = from.shrank
    BY <2>1 DEF Walk
  <2>3. from.how = walk.how
    BY DEF WalkSound
  <2>4. TableSound'
    BY <2>2, <2>3 DEF PagesInv, TableSound, Once, Ascending
  <2>5. WalkSound(walk)'
    <3>1. (Seen(walk) \cup walk.began \subseteq 1 .. written)'
      BY <2>2 DEF WalkSound, Seen
    <3>2. from.how = "cursor" => CursorSound(walk)'
      BY <2>2 DEF WalkSound, CursorSound, Seen, Turning
    <3>3. from.how = "offset" => OffsetSound(walk)'
      BY <2>2 DEF WalkSound, OffsetSound, Seen, Turning
    <3> QED
      BY <2>2, <3>1, <3>2, <3>3 DEF WalkSound
  <2> QED
    BY <2>2, <2>4, <2>5 DEF PagesInv
<1>2. CASE ~(from.scope = "all" /\ ~granted)
  <2>1. walk.how \in {"cursor", "offset"}
    BY DEF PagesInv, WalkSound, Walk
  <2> QED
    BY <1>2, <2>1, CursorPage, OffsetPage
<1> QED
  BY <1>1, <1>2

\* A walk that has not begun is sound, whatever it asks for.
LEMMA BeginSound ==
    ASSUME PagesInv, walk.phase = "none", NEW scope \in {"mine", "all"}, NEW from,
           from = [NoWalk(walk.how) EXCEPT !.scope = scope,
                                           !.began = {table[i].id : i \in Readable(scope, 0)}]
    PROVE  /\ WalkSound(from) /\ Turning(from) /\ from.next = walk.next /\ from.scope = scope
<1> DEFINE began == {table[i].id : i \in Readable(scope, 0)}
<1>1. /\ table \in Seq(Line) /\ Once(table) /\ walk.how \in {"cursor", "offset"}
      /\ walk.next = 0 /\ written \in Nat
      /\ \A i \in DOMAIN table : table[i].id \in 1 .. MaxRows /\ table[i].id <= written
  BY PagingConstants, LinesTyped DEF PagesInv, TableSound, WalkSound, Walk
<1>2. \A x \in began : \E i \in DOMAIN table : table[i].id = x /\ Belongs(table[i], scope)
  BY DEF Readable, Belongs
<1> HIDE DEF began
<1>3. began \subseteq 1 .. MaxRows /\ began \subseteq 1 .. written
  BY <1>1, <1>2
<1>4. from = [NoWalk(walk.how) EXCEPT !.scope = scope, !.began = began]
  BY DEF began
<1>5. /\ from.how = walk.how /\ from.phase = "none" /\ from.scope = scope /\ from.seen = <<>>
      /\ from.next = 0 /\ from.began = began /\ from.grew = FALSE /\ from.shrank = FALSE
  BY <1>4 DEF NoWalk
<1>6. from \in Walk
  <2>1. <<>> \in Seq(1 .. MaxRows) /\ 0 \in 0 .. MaxRows + MaxOffset
    BY PagingConstants
  <2> QED
    BY <1>1, <1>3, <1>4, <2>1 DEF Walk, NoWalk
<1>7. Seen(from) = {} /\ Turning(from) /\ Len(from.seen) = 0 /\ DOMAIN from.seen = {}
  BY <1>5 DEF Seen, Turning
<1>8. CursorSound(from)
  <2>1. ASSUME NEW i \in DOMAIN table, table[i].id \in began, scope = "mine"
        PROVE  table[i].owner = Reader
    <3>1. PICK k \in DOMAIN table : table[k].id = table[i].id /\ Belongs(table[k], scope)
      BY <1>2, <2>1
    <3>2. k = i
      BY <1>1, <3>1 DEF Once
    <3> QED
      BY <2>1, <3>1, <3>2 DEF Belongs
  <2>2. \A i, j \in DOMAIN from.seen : i < j => from.seen[i] > from.seen[j]
    BY <1>7
  <2>3. Seen(from) \cup from.began = began
    BY <1>5, <1>7
  <2> QED
    BY <1>5, <1>7, <2>1, <2>2, <2>3 DEF CursorSound
<1>9. walk.how = "offset" => OffsetSound(from)
  <2> SUFFICES ASSUME walk.how = "offset" PROVE OffsetSound(from)
    OBVIOUS
  <2>1. hidden = 0
    BY DEF PagesInv, TableSound
  <2>2. \A x \in began : Ahead(from, x)
    <3> SUFFICES ASSUME NEW x \in began PROVE Ahead(from, x)
      OBVIOUS
    <3>1. PICK i \in DOMAIN table : table[i].id = x /\ Belongs(table[i], scope)
      BY <1>2
    <3>2. Place(table, scope, x) \in 1 .. Len(Selected(scope, 0))
      BY <1>1, <2>1, <3>1, PlaceOfRow
    <3>3. Place(table, scope, x) > 0
      BY <3>2
    <3> QED
      BY <1>5, <3>1, <3>3 DEF Ahead
  <2>3. 0 = 0 * PageSize /\ 0 <= MaxOffset
    BY PagingConstants
  <2>4. \E n \in Nat : 0 = n * PageSize
    BY <2>3
  <2>5. \A i, j \in DOMAIN from.seen : from.seen[i] = from.seen[j] => i = j
    BY <1>7
  <2>6. \A x : x \notin Seen(from)
    BY <1>7
  <2> QED
    BY <1>5, <1>7, <2>2, <2>3, <2>4, <2>5, <2>6 DEF OffsetSound
<1> QED
  BY <1>1, <1>3, <1>5, <1>6, <1>7, <1>8, <1>9 DEF WalkSound

LEMMA PagingStep == PagesInv /\ [PagingNext]_pagingVars => PagesInv'
<1> SUFFICES ASSUME PagesInv, [PagingNext]_pagingVars
             PROVE  PagesInv'
  OBVIOUS
<1>1. ASSUME Turning(walk), Write PROVE PagesInv'
  BY <1>1, WriteStep
<1>2. ASSUME Turning(walk), Expire PROVE PagesInv'
  BY <1>2, ExpireStep
<1>3. ASSUME Turning(walk), Forget PROVE PagesInv'
  BY <1>3, ForgetStep
<1>4. ASSUME Withdraw PROVE PagesInv'
  BY <1>4, WithdrawStep
<1>5. ASSUME FirstPage PROVE PagesInv'
  <2>1. PICK scope \in {"mine", "all"} :
            ReadPage(scope, [NoWalk(walk.how) EXCEPT !.scope = scope,
                                !.began = {table[i].id : i \in Readable(scope, 0)}])
    BY <1>5 DEF FirstPage
  <2> PICK from : from = [NoWalk(walk.how) EXCEPT !.scope = scope,
                              !.began = {table[i].id : i \in Readable(scope, 0)}]
    OBVIOUS
  <2>2. WalkSound(from) /\ Turning(from) /\ from.next = walk.next /\ from.scope = scope
    BY <1>5, BeginSound DEF FirstPage
  <2>3. ReadPage(from.scope, from) /\ UNCHANGED <<table, written, hidden, granted>>
    BY <1>5, <2>1, <2>2 DEF FirstPage
  <2> QED
    BY <2>2, <2>3, PageRead
<1>6. ASSUME NextPage PROVE PagesInv'
  <2>1. /\ WalkSound(walk) /\ Turning(walk) /\ ReadPage(walk.scope, walk)
        /\ UNCHANGED <<table, written, hidden, granted>>
    BY <1>6 DEF NextPage, PagesInv, Turning
  <2> QED
    BY <2>1, PageRead
<1>7. CASE UNCHANGED pagingVars
  BY <1>7, UnmovedStep DEF pagingVars, PagesInv
<1>8. CASE PagingNext
  <2>1. Turning(walk)
    BY <1>8 DEF PagingNext, Turning
  <2> QED
    BY <1>1, <1>2, <1>3, <1>4, <1>5, <1>6, <1>8, <2>1 DEF PagingNext
<1> QED
  BY <1>7, <1>8

LEMMA PagingStarts ==
    ASSUME NEW how \in {"cursor", "offset"}, PagingStart(how)
    PROVE  PagesInv
<1>1. /\ table = <<>> /\ written = 0 /\ hidden = 0 /\ granted = TRUE /\ walk = NoWalk(how)
  BY DEF PagingStart
<1>2. /\ walk.how = how /\ walk.phase = "none" /\ walk.scope = "mine" /\ walk.seen = <<>>
      /\ walk.next = 0 /\ walk.began = {} /\ walk.grew = FALSE /\ walk.shrank = FALSE
  BY <1>1 DEF NoWalk
<1>3. walk \in Walk
  BY <1>1, PagingConstants DEF Walk, NoWalk
<1>4. table \in Seq(Line) /\ DOMAIN table = {} /\ Seen(walk) = {} /\ Len(walk.seen) = 0
  BY <1>1, <1>2 DEF Seen
<1>5. TableSound
  BY <1>1, <1>4 DEF TableSound, Once, Ascending
<1>6. CursorSound(walk)
  BY <1>2, <1>4 DEF CursorSound
<1>7. OffsetSound(walk)
  <2>1. 0 = 0 * PageSize /\ 0 <= MaxOffset
    BY PagingConstants
  <2>2. \E n \in Nat : 0 = n * PageSize
    BY <2>1
  <2> QED
    BY <1>2, <1>4, <2>1, <2>2 DEF OffsetSound
<1>8. 0 \in 0 .. MaxRows
  BY PagingConstants
<1> QED
  BY <1>1, <1>2, <1>3, <1>4, <1>5, <1>6, <1>7, <1>8 DEF PagesInv, WalkSound

LEMMA PagesSafe == PagesInv => PagesExact
<1> SUFFICES ASSUME PagesInv
             PROVE  PagesExact
  OBVIOUS
<1>1. /\ walk \in Walk /\ table \in Seq(Line) /\ WalkSound(walk)
      /\ written \in 0 .. MaxRows /\ hidden \in 0 .. MaxRows /\ granted \in BOOLEAN
  BY DEF PagesInv, TableSound, WalkSound
<1>2. PagingTypeOK
  BY <1>1 DEF PagingTypeOK, Walk
<1>3. SeenRows = Seen(walk)
  BY DEF SeenRows, Seen
<1>4. CursorExact
  <2> SUFFICES ASSUME walk.how = "cursor" PROVE CursorExact
    BY DEF CursorExact
  <2>1. CursorSound(walk)
    BY <1>1 DEF WalkSound
  <2>2. walk.phase = "over" => walk.phase # "refused" /\ ~Turning(walk)
    BY DEF Turning
  <2>3. walk.phase = "over" =>
            \A id \in walk.began : id \in SeenRows \/ id <= hidden \/ id \notin Numbers(table)
    BY <1>3, <2>1, <2>2 DEF CursorSound, Numbers
  <2> QED
    BY <1>3, <2>1, <2>3 DEF CursorExact, CursorSound
<1>5. OffsetExact
  <2> SUFFICES ASSUME walk.how = "offset" PROVE OffsetExact
    BY DEF OffsetExact
  <2>1. OffsetSound(walk)
    BY <1>1 DEF WalkSound
  <2>2. ~walk.grew => Cardinality(SeenRows) = Len(walk.seen)
    <3> SUFFICES ASSUME ~walk.grew PROVE Cardinality(SeenRows) = Len(walk.seen)
      OBVIOUS
    <3> DEFINE seen == walk.seen
               D == DOMAIN seen
    <3>1. /\ Len(seen) \in Nat /\ D = 1 .. Len(seen)
          /\ \A i, j \in D : seen[i] = seen[j] => i = j
      <4>1. seen \in Seq(1 .. MaxRows)
        BY <1>1 DEF Walk
      <4> QED
        BY <2>1, <4>1, LenProperties DEF OffsetSound
    <3> DEFINE f == [i \in D |-> seen[i]]
    <3>2. IsFiniteSet(D) /\ Cardinality(D) = Len(seen)
      <4>1. 1 \in Int /\ Len(seen) \in Int
        BY <3>1
      <4>2. IsFiniteSet(1 .. Len(seen)) /\ Cardinality(1 .. Len(seen)) = Len(seen)
        BY <3>1, <4>1, FS_Interval
      <4> QED
        BY <3>1, <4>2
    <3>3. f \in Surjection(D, SeenRows)
      BY DEF SeenRows, Surjection
    <3>4. f \in Injection(D, SeenRows)
      BY <3>1 DEF SeenRows, Injection, IsInjective
    <3> HIDE DEF f, D
    <3>5. Cardinality(SeenRows) = Cardinality(D)
      BY <3>2, <3>3, <3>4, FS_Surjection
    <3> QED
      BY <3>2, <3>5
  <2> QED
    BY <1>3, <2>1, <2>2 DEF OffsetExact, OffsetSound
<1> QED
  BY <1>2, <1>4, <1>5 DEF PagesExact

LEMMA PagesInvKept == FairSpec => []PagesInv
<1>1. Init => PagesInv
  <2>1. PagingStart("cursor") => PagesInv
    BY PagingStarts
  <2>2. PagingInit => PagesInv
    BY PagingStarts DEF PagingInit
  <2> QED
    BY <2>1, <2>2 DEF Init
<1>2. PagesInv /\ [Next]_vars => PagesInv'
  <2>1. [Next]_vars => [PagingNext]_pagingVars
    BY DEF Next, OthersStay, vars
  <2> QED
    BY <2>1, PagingStep
<1> QED
  BY <1>1, <1>2, PTL DEF FairSpec

\* explore and events: a walk by cursor shows each event once, newest first, and on its
\* last page all of its start that can still be read; a walk by offset repeats a record
\* only if one came and passes one over only if one went, or at the limit of offsets.
THEOREM PagesKept == FairSpec => []PagesExact
BY PagesInvKept, PagesSafe, PTL
=============================================================================
