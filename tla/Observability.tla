---------------------------- MODULE Observability ----------------------------
(***************************************************************************)
(* What observers get from the gateway, and what keeps them in bounds: the *)
(* reader of Prometheus and the request limit of the dashboard, its pages  *)
(* of events and records, its page in the browser, the sampler of          *)
(* resources and the exporter of spans.  They share no state, so a         *)
(* behaviour follows one of them.                                          *)
(***************************************************************************)
EXTENDS TelemetryReader, DashboardLimit, SpanBudget, Paging, DashboardPage, ResourceMonitor

VARIABLE focus   \* the part that runs

vars == <<focus, readerVars, limitVars, spanVars, pagingVars, dashVars, monitorVars>>

Foci == {"reader", "limit", "spans", "paging", "page", "resources"}

Init ==
    /\ focus \in Foci
    /\ ReaderInit
    /\ LimitInit
    /\ SpanInit
    /\ IF focus = "paging" THEN PagingInit ELSE PagingStart("cursor")
    /\ DashInit
    /\ MonitorInit

\* Everything but the part with this focus stays.
OthersStay ==
    /\ UNCHANGED focus
    /\ focus # "reader"    => UNCHANGED readerVars
    /\ focus # "limit"     => UNCHANGED limitVars
    /\ focus # "spans"     => UNCHANGED spanVars
    /\ focus # "paging"    => UNCHANGED pagingVars
    /\ focus # "page"      => UNCHANGED dashVars
    /\ focus # "resources" => UNCHANGED monitorVars

Next ==
    /\ OthersStay
    /\ \/ focus = "reader" /\ ReaderNext
       \/ focus = "limit" /\ LimitNext
       \/ focus = "spans" /\ SpanNext
       \/ focus = "paging" /\ PagingNext
       \/ focus = "page" /\ DashNext
       \/ focus = "resources" /\ MonitorNext

\* A query has a time limit and the lock is handed on in order: only the viewer at the
\* head of the line can proceed, and it does.
Fairness ==
    WF_vars(focus = "reader" /\ (\E v \in Viewers : Progress(v)) /\ OthersStay)

FairSpec == Init /\ [][Next]_vars /\ Fairness
=============================================================================
