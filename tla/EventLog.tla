------------------------------ MODULE EventLog ------------------------------
(***************************************************************************)
(* The service_events table and AssistantStore._event                      *)
(* (observatory/assistant_store.py).  The log is the sequence of rows in   *)
(* the order of their AUTOINCREMENT ids, oldest first.                     *)
(***************************************************************************)
EXTENDS Selection, FiniteSetsExt

CONSTANTS
    EventLimit,      \* EVENT_LIMIT, 2000 in the code
    EventKeep,       \* 86400 seconds in the code
    CoalesceWindow   \* 30 seconds in the code

ASSUME EventAssumption ==
    {EventLimit, EventKeep, CoalesceWindow} \subseteq Nat

RequestKinds == {"request_admitted", "request_finished", "request_rejected"}

\* A row; rid 0 stands for no request_id, code "none" for no code.
Event(t, kind, uid, rid, code) ==
    [created |-> t, kind |-> kind, user |-> uid, rid |-> rid, code |-> code]

Same(e, f) == e.user = f.user /\ e.kind = f.kind /\ e.code = f.code

\* Seeded fault: the oldest such row is looked up.
CoalescedWithOldest(log, e) ==
    LET prior == {i \in DOMAIN log : Same(log[i], e)}
    IN  /\ e.kind = "request_rejected"
        /\ prior # {}
        /\ e.created < log[Min(prior)].created + CoalesceWindow

\* The newest earlier row with the user, kind and code of e is younger than the window.
Coalesced(log, e) ==
    LET prior == {i \in DOMAIN log : Same(log[i], e)}
    IN  /\ e.kind = "request_rejected"
        /\ prior # {}
        /\ e.created < log[Max(prior)].created + CoalesceWindow

\* INSERT, then the deletion by age, then the deletion by number.
Logged(log, e) ==
    IF Coalesced(log, e) THEN log
    ELSE LET all   == Append(log, e)
             young == {i \in DOMAIN all : all[i].created + EventKeep >= e.created}
         IN  Newest(RowsAt(all, young), EventLimit)

\* delete_history removes the request events of a user and keeps the others.
Purged(log, u) ==
    RowsAt(log, {i \in DOMAIN log : ~(log[i].user = u /\ log[i].kind \in RequestKinds)})
=============================================================================
