--------------------------- MODULE DashboardPage ---------------------------
(***************************************************************************)
(* The dashboard in the browser (observatory/static/observability.js).     *)
(* Every request is made under an epoch; what ends the work of a page,     *)
(* takes the next one and aborts the request.  An answer may already be on *)
(* its way to the page then, and comes all the same.                       *)
(***************************************************************************)
EXTENDS Naturals, FiniteSets

CONSTANTS
    Persons,    \* the keys that are entered on this page
    Nobody      \* the empty key

ASSUME PageAssumption == Nobody \notin Persons

VARIABLES
    dash,      \* what the page keeps and shows
    flights    \* requests that are not answered

dashVars == <<dash, flights>>

\* metrics stands for a section of operators that is read in two requests, requests for
\* one that is read in one.
Tabs == {"requests", "metrics"}

Dash == [key      : Persons \cup {Nobody},
         open     : BOOLEAN,                        \* the workspace is shown
         operator : BOOLEAN,
         tab      : Tabs,
         hidden   : BOOLEAN,                        \* document.hidden
         auto     : BOOLEAN,                        \* auto-refresh is checked
         timer    : BOOLEAN,
         shown    : Persons \cup {Nobody}]          \* whose data are shown

\* A request: whose key it carries, what for, and whether its epoch is the page's.
Flight == [key : Persons, for : {"session", "requests", "catalog", "chart"}, current : BOOLEAN]

DashInit ==
    /\ dash = [key |-> Nobody, open |-> FALSE, operator |-> FALSE, tab |-> "requests",
               hidden |-> FALSE, auto |-> TRUE, timer |-> FALSE, shown |-> Nobody]
    /\ flights = {}

-----------------------------------------------------------------------------
\* stopWork: the requests of the page are from an earlier epoch now.
Stopped(requests) == {[f EXCEPT !.current = FALSE] : f \in requests}

SignedOut(page) ==
    [page EXCEPT !.key = Nobody, !.open = FALSE, !.operator = FALSE, !.timer = FALSE,
                 !.shown = Nobody]

\* Seeded fault: the timer is set in a hidden page.
ScheduledAnyway(page) == [page EXCEPT !.timer = page.key # Nobody /\ page.auto]

Scheduled(page) ==
    [page EXCEPT !.timer = page.key # Nobody /\ page.auto /\ ~page.hidden]

\* refresh, on a page with the requests given: nothing without a key or when hidden.
Refreshed(page, requests) ==
    IF page.key = Nobody \/ page.hidden
    THEN /\ dash' = page /\ flights' = requests
    ELSE /\ dash' = [page EXCEPT !.timer = FALSE]
         /\ flights' = Stopped(requests) \cup
               {[key |-> page.key, for |-> IF page.tab = "metrics" THEN "catalog" ELSE "requests",
                 current |-> TRUE]}

Disconnect ==
    /\ dash' = SignedOut(dash)
    /\ flights' = Stopped(flights)

\* selectTab: sections of operators do not open for others.
TabSelected(page, tab, requests) ==
    IF tab = "metrics" /\ ~page.operator THEN dash' = page /\ flights' = requests
    ELSE Refreshed([page EXCEPT !.tab = tab], requests)

-----------------------------------------------------------------------------
\* The form is shown while the workspace is not; a form that was sent can be sent again.
Connect ==
    /\ ~dash.open /\ ~dash.hidden
    /\ \E person \in Persons :
          /\ dash' = [dash EXCEPT !.key = person, !.shown = Nobody, !.timer = FALSE]
          /\ flights' = Stopped(flights) \cup
                {[key |-> person, for |-> "session", current |-> TRUE]}

\* Seeded fault: an answer is used in whatever epoch it comes.
OfAnyEpoch(f) == TRUE

OfThisEpoch(f) == f.current

SessionAnswer(f) ==
    /\ f.for = "session"
    /\ IF OfThisEpoch(f)
       THEN \E operator \in BOOLEAN :
               TabSelected([dash EXCEPT !.open = TRUE, !.operator = operator],
                        IF operator THEN "metrics" ELSE "requests", flights \ {f})
       ELSE UNCHANGED dash /\ flights' = flights \ {f}

\* The data of the request are shown; a catalogue is followed by a chart, if it has one.
DataAnswer(f) ==
    /\ f.for # "session"
    /\ IF ~OfThisEpoch(f) THEN UNCHANGED dash /\ flights' = flights \ {f}
       ELSE \/ /\ f.for = "catalog"
               /\ dash' = [dash EXCEPT !.shown = f.key]
               /\ flights' = (flights \ {f}) \cup
                     {[key |-> dash.key, for |-> "chart", current |-> TRUE]}
            \/ /\ dash' = Scheduled([dash EXCEPT !.shown = f.key])
               /\ flights' = flights \ {f}

\* 401, 403, and every failure to connect, end the session; another failure is told and
\* what was shown stays.
Failure(f) ==
    IF ~OfThisEpoch(f) THEN UNCHANGED dash /\ flights' = flights \ {f}
    ELSE \/ dash' = SignedOut(dash) /\ flights' = Stopped(flights \ {f})
         \/ f.for # "session" /\ dash' = Scheduled(dash) /\ flights' = flights \ {f}

Fire ==
    /\ dash.timer
    /\ Refreshed([dash EXCEPT !.timer = FALSE], flights)

\* A tab, or what reads the tab again: the refresh button, the filters and the pagers.
Select == dash.open /\ \E tab \in Tabs : TabSelected(dash, tab, flights)

SignOut == dash.open /\ Disconnect

\* pagehide, and pageshow of a page that was kept.
Leave == Disconnect

ToggleAuto ==
    /\ dash' = Scheduled([dash EXCEPT !.auto = ~dash.auto])
    /\ UNCHANGED flights

Hide ==
    /\ ~dash.hidden
    /\ dash' = [dash EXCEPT !.hidden = TRUE, !.timer = FALSE]
    /\ flights' = Stopped(flights)

Unhide ==
    /\ dash.hidden
    /\ Refreshed([dash EXCEPT !.hidden = FALSE], flights)

DashNext ==
    \/ Connect \/ Fire \/ Select \/ SignOut \/ Leave \/ ToggleAuto \/ Hide \/ Unhide
    \/ \E f \in flights : SessionAnswer(f) \/ DataAnswer(f) \/ Failure(f)

DashSpec == DashInit /\ [][DashNext]_dashVars

-----------------------------------------------------------------------------
DashTypeOK == dash \in Dash /\ flights \subseteq Flight

Polling == {f \in flights : f.current}

\* docs/observability-dashboard.md:89, "30 seconds, active section only; stopped when
\* hidden or signed out": an open page that is visible and refreshes itself waits for an
\* answer or for the timer, never for nothing; one that is hidden or signed out waits for
\* neither; and there is one request of the page at a time.
PollingExact ==
    /\ DashTypeOK
    /\ dash.open /\ ~dash.hidden /\ dash.auto => dash.timer \/ Polling # {}
    /\ dash.hidden \/ dash.key = Nobody => ~dash.timer /\ Polling = {}
    /\ Cardinality(Polling) <= 1

\* What the dashboard shows was asked for with the key of its session, whatever came late.
OwnDataShown == dash.shown \in {Nobody, dash.key} /\ \A f \in Polling : f.key = dash.key
=============================================================================
